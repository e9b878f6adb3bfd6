----------------------------- MODULE MCSessions -----------------------------
(* Instances of Sessions.tla for TLC.                                      *)
EXTENDS Sessions, TLC

CONSTANTS w1, w2   \* worker threads

TwoWorkers == {w1, w2}
WorkerSymmetry == Permutations(TwoWorkers)
OneMove == {"move"}
KeysMayChange == {"kept", "new"}
KeysAreKept == {"kept"}
=============================================================================
