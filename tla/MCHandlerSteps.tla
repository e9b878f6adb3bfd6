-------------------------- MODULE MCHandlerSteps ---------------------------
(* Instances of HandlerSteps.tla for TLC.                                  *)
EXTENDS HandlerSteps, TLC

CONSTANTS w1, w2   \* worker threads

TwoWorkers == {w1, w2}
OneWorker == {w1}
WorkerSymmetry == Permutations(TwoWorkers)

AllEndpoints == {"cell/reveal", "cell/flag", "cell/check", "board/check", "board/fully_revealed"}
CellRequests == {"cell/reveal", "cell/flag", "cell/check"}

(* Strips of three.  With no mine the flood fills from both ends meet; a    *)
(* strip that shows 0, 1, mine has a chord that can open the mine.         *)
StripLayouts == {{}, {<<3, 1>>}}

(* 3 by 2 with a mine in a corner, two mines, and none.                    *)
BlockLayouts == {{<<3, 1>>}, {<<1, 1>>, <<3, 2>>}, {}}
=============================================================================
