------------------------------- MODULE Board -------------------------------
(***************************************************************************)
(* The board of a minesweeper game: board_t and cell_ext_t of the server   *)
(* (src/src/server/api.cxx) behind the interfaces board_i and cell_i       *)
(* (src/src/server/plugins/api.hxx).                                       *)
(*                                                                         *)
(* A board is a record of three sets of cells: the mines (boom_), the      *)
(* flags (flag_) and the revealed cells (revealed_).  Its dimensions are   *)
(* constants.  The module has no state: it defines what the member         *)
(* functions of board_t return and, for those that change the board, the   *)
(* board they leave behind.                                                *)
(*                                                                         *)
(* A recursive flood fill is defined without recursion: the cells it       *)
(* passes are the least set closed under "a cell with no mine around it    *)
(* passes on to its neighbours".  HandlerSteps.tla has the loop and the    *)
(* queue of the code.                                                      *)
(***************************************************************************)
EXTENDS Integers, FiniteSets

CONSTANTS Width,   \* w_: the number of columns
          Height   \* h_: the number of rows

ASSUME BoardAssumption == Width \in Nat \ {0} /\ Height \in Nat \ {0}

-----------------------------------------------------------------------------
(* Coordinates are 1-based; a pair outside the board is the invalid        *)
(* coordinate, which every handler refuses.                                *)

Cells == (1..Width) \X (1..Height)

(* Mutant: the lower bounds forgotten.                                     *)
IsValidNoLowerBound(x, y) == x \in 0..Width /\ y \in 0..Height

IsValid(x, y) == <<x, y>> \in Cells

(* The coordinates a request may carry: every cell, and on each side of the *)
(* board a value just out of range.                                        *)
Coordinates == Cells \cup {<<0, 1>>, <<1, 0>>, <<Width + 1, Height>>, <<Width, Height + 1>>}

(* The at most eight cells around c.                                       *)
Neighbors ==
    [c \in Cells |-> {n \in Cells : /\ n # c
                                    /\ n[1] - c[1] \in -1..1
                                    /\ n[2] - c[2] \in -1..1}]

-----------------------------------------------------------------------------
Boards == [mines : SUBSET Cells, flagged : SUBSET Cells, revealed : SUBSET Cells]

(* A board as both constructors create it, with mines in distinct cells, and *)
(* as every client's clone of it starts.                                   *)
FreshBoard(mines) == [mines |-> mines, flagged |-> {}, revealed |-> {}]

BombsTotal(b) == Cardinality(b.mines)
FlagsCount(b) == Cardinality(b.flagged)
BombsCount(b) == BombsTotal(b) - FlagsCount(b)
UnrevealedCount(b) == Cardinality(Cells \ b.revealed)

(* The number a cell shows: the mines around it, -1 for a mine.            *)
NeighborBombsCount(b, c) ==
    IF c \in b.mines THEN -1 ELSE Cardinality(Neighbors[c] \cap b.mines)

(* Mutant: the flags of the whole board.                                   *)
NeighborFlagsCountEverywhere(b, c) == FlagsCount(b)

NeighborFlagsCount(b, c) == Cardinality(Neighbors[c] \cap b.flagged)

-----------------------------------------------------------------------------
(* reveal_cells.  Neither a flagged nor a revealed cell is entered; only a  *)
(* cell that shows 0 is expanded.                                          *)

(* Mutant: reveal_cells forgets to ask is_flag.                            *)
EnterableFlaggedToo(b) == Cells \ b.revealed

Enterable(b) == Cells \ (b.flagged \cup b.revealed)

Zeros(b) == {c \in Enterable(b) : NeighborBombsCount(b, c) = 0}

(* The sets of zeros that hold c and, with a cell, the zeros around it.      *)
ZeroRegions(zeros, c) ==
    {S \in SUBSET zeros : c \in S /\ \A s \in S : Neighbors[s] \cap zeros \subseteq S}

(* Mutant: the flood fill expands the first cell only.                     *)
FloodedFirstOnly(b, c) == {c} \cap Zeros(b)

(* The cells showing 0 that the flood fill started at c expands: none when  *)
(* c itself shows a number or a mine.                                      *)
Flooded(b, c) ==
    LET zeros   == Zeros(b)
        regions == ZeroRegions(zeros, c)
    IN  {z \in zeros : c \in zeros /\ \A S \in regions : z \in S}

(* The cells reveal_cells(c) reveals and returns.                          *)
Opened(b, c) ==
    IF c \notin Enterable(b)
    THEN {}
    ELSE {c} \cup (Enterable(b) \cap UNION {Neighbors[z] : z \in Flooded(b, c)})

RevealAll(b, cells) == [b EXCEPT !.revealed = @ \cup cells]

(* What cell_check reveals: reveal_cells of every neighbour of c in turn.   *)
(* A later flood fill stops where an earlier one has been, and both leave   *)
(* the same cells revealed as if each had started from the board b.         *)
OpenedAround(b, c) == UNION {Opened(b, n) : n \in Neighbors[c]}

ToggleFlag(b, c) ==
    [b EXCEPT !.flagged = IF c \in @ THEN @ \ {c} ELSE @ \cup {c}]

-----------------------------------------------------------------------------
(* The two questions about the end of the game.                            *)

(* Mutant: no one counts the flags.                                        *)
FullyRevealedNoFlags(b) == UnrevealedCount(b) = BombsTotal(b)

(* board/fully_revealed answers true.                                      *)
FullyRevealed(b) ==
    /\ UnrevealedCount(b) = BombsTotal(b)
    /\ FlagsCount(b) = BombsTotal(b)

(* board/check has a verdict to give ...                                   *)
Checkable(b) == UnrevealedCount(b) = BombsTotal(b)

(* Mutant: a mine is bad when it is revealed, flagged or not.              *)
NoBadMineFlagForgotten(b) == b.mines \cap b.revealed = {}

(* ... and the verdict is "win": none of the cells is a bad mine.          *)
NoBadMine(b) == \A m \in b.mines : m \in b.flagged /\ m \notin b.revealed
=============================================================================
