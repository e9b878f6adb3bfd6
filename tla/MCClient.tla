------------------------------ MODULE MCClient -----------------------------
(* Instances of Client.tla for TLC: mine layouts for small boards.         *)
EXTENDS Client

(* A strip 0-1-mine: the flood fill answers two cells, a flag on the first  *)
(* cell lets the chord of the second open the mine, and each end of the game *)
(* is a few keys away.                                                     *)
StripLayouts == {{<<3, 1>>}}

=============================================================================
