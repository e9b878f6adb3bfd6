---------------------------- MODULE MCKeyStore -----------------------------
(* The instance of KeyStore.tla for TLC: three faults are enough for each  *)
(* file to be lost or cut, and for the repair to be cut again.              *)
EXTENDS KeyStore
=============================================================================
