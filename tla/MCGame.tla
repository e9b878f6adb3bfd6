------------------------------- MODULE MCGame ------------------------------
(* Instances of Game.tla for TLC: mine layouts for small boards.           *)
EXTENDS Game

(* 3 by 3: one mine in each kind of place (corner, edge, centre) and two    *)
(* mines, apart and side by side; the other layouts are rotations and       *)
(* reflections or have hardly a cell that shows 0.                         *)
SquareLayouts == {{<<1, 1>>}, {<<2, 1>>}, {<<2, 2>>}, {<<1, 1>>, <<3, 3>>}, {<<1, 1>>, <<2, 1>>}}

=============================================================================
