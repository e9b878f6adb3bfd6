---------------------------- MODULE BoardProofs ----------------------------
(* What the operators of Board.tla return, for a board of any size: the    *)
(* lemmas that the proofs about the games rest on.                         *)
EXTENDS Board, FiniteSetTheorems, TLAPS

-----------------------------------------------------------------------------
(* Counting cells                                                          *)

(* The board, and with it every set of its cells, is finite: the counts of *)
(* board_t are natural numbers.                                            *)
LEMMA CellsFinite == IsFiniteSet(Cells)
<1>1. IsFiniteSet(1..Width) /\ IsFiniteSet(1..Height)
  BY FS_Interval, BoardAssumption
<1>2. QED
  BY <1>1, FS_Product DEF Cells

LEMMA CellSets ==
    ASSUME NEW S, S \subseteq Cells
    PROVE  IsFiniteSet(S) /\ Cardinality(S) \in Nat
BY CellsFinite, FS_Subset, FS_CardinalityType

(* Two sets of cells of the same size, one within the other, are the same: *)
(* the step from the counts that the handlers compare to the sets.         *)
LEMMA SameCount ==
    ASSUME NEW S, NEW T, S \subseteq T, T \subseteq Cells, Cardinality(S) = Cardinality(T)
    PROVE  S = T
BY CellSets, FS_Subset

-----------------------------------------------------------------------------
(* Neighbours                                                              *)

LEMMA NeighborCells ==
    ASSUME NEW c \in Cells
    PROVE  Neighbors[c] \subseteq Cells
BY DEF Neighbors

LEMMA NeighborsSymmetric ==
    ASSUME NEW c \in Cells, NEW d \in Cells, d \in Neighbors[c]
    PROVE  c \in Neighbors[d]
<1>1. /\ c[1] \in Int /\ c[2] \in Int
      /\ d[1] \in Int /\ d[2] \in Int
  BY BoardAssumption DEF Cells
<1>2. d # c /\ d[1] - c[1] \in -1..1 /\ d[2] - c[2] \in -1..1
  BY DEF Neighbors
<1>3. c # d /\ c[1] - d[1] \in -1..1 /\ c[2] - d[2] \in -1..1
  BY <1>1, <1>2
<1>4. QED
  BY <1>3 DEF Neighbors

(* A cell that shows 0 is not a mine and has none around it.               *)
LEMMA ZeroHasNoMines ==
    ASSUME NEW b \in Boards, NEW c \in Cells, NeighborBombsCount(b, c) = 0
    PROVE  c \notin b.mines /\ Neighbors[c] \cap b.mines = {}
<1>1. c \notin b.mines
  BY DEF NeighborBombsCount
<1>2. Cardinality(Neighbors[c] \cap b.mines) = 0
  BY <1>1 DEF NeighborBombsCount
<1>3. IsFiniteSet(Neighbors[c] \cap b.mines)
  BY NeighborCells, CellSets
<1>4. QED
  BY <1>1, <1>2, <1>3, FS_EmptySet

-----------------------------------------------------------------------------
(* The flood fill                                                          *)

LEMMA FloodedZeros ==
    ASSUME NEW b \in Boards, NEW c, NEW z \in Flooded(b, c)
    PROVE  /\ z \in Cells
           /\ z \in Enterable(b)
           /\ NeighborBombsCount(b, z) = 0
           /\ c \in Zeros(b)
BY DEF Flooded, Zeros, Enterable

LEMMA OpenedEnterable ==
    ASSUME NEW b \in Boards, NEW c
    PROVE  Opened(b, c) \subseteq Enterable(b)
BY DEF Opened

(* api.hxx:251: "this flood-fill can never open a mine", but for the cell   *)
(* it is asked to start at.                                                *)
LEMMA FloodAvoidsMines ==
    ASSUME NEW b \in Boards, NEW c, c \notin b.mines
    PROVE  Opened(b, c) \cap b.mines = {}
<1> SUFFICES ASSUME NEW d \in Opened(b, c), d \in b.mines
             PROVE  FALSE
  OBVIOUS
<1>1. PICK z \in Flooded(b, c) : d \in Neighbors[z]
  BY DEF Opened
<1>2. z \in Cells /\ NeighborBombsCount(b, z) = 0
  BY FloodedZeros
<1>3. QED
  BY <1>1, <1>2, ZeroHasNoMines

(* The zeros around a flooded cell are flooded too: it is in every closed   *)
(* region, and so are they.                                                *)
LEMMA FloodSpreads ==
    ASSUME NEW b \in Boards, NEW c, NEW z \in Flooded(b, c), NEW d \in Neighbors[z] \cap Zeros(b)
    PROVE  d \in Flooded(b, c)
<1>1. c \in Zeros(b)
  BY FloodedZeros
<1>2. ASSUME NEW S \in ZeroRegions(Zeros(b), c)
      PROVE  d \in S
  <2>1. z \in S
    BY DEF Flooded
  <2>2. QED
    BY <2>1 DEF ZeroRegions
<1>3. QED
  BY <1>1, <1>2 DEF Flooded

(* The flood fill is complete: around an opened cell that shows 0 it leaves *)
(* nothing covered that it could enter.                                    *)
LEMMA FloodIsComplete ==
    ASSUME NEW b \in Boards, NEW c, NEW z \in Opened(b, c), NeighborBombsCount(b, z) = 0
    PROVE  Neighbors[z] \cap Enterable(b) \subseteq Opened(b, c)
<1>1. z \in Enterable(b) /\ z \in Cells
  BY OpenedEnterable DEF Enterable
<1>2. z \in Zeros(b)
  BY <1>1 DEF Zeros
<1>3. z \in Flooded(b, c)
  <2>1. CASE z = c
    BY <2>1, <1>2 DEF Flooded, ZeroRegions
  <2>2. CASE z # c
    <3>1. PICK y \in Flooded(b, c) : z \in Neighbors[y]
      BY <2>2 DEF Opened
    <3>2. QED
      BY <3>1, <1>2, FloodSpreads
  <2>3. QED
    BY <2>1, <2>2
<1>4. c \in Enterable(b)
  BY <1>3, FloodedZeros DEF Zeros
<1>5. QED
  BY <1>3, <1>4 DEF Opened

(* A chord whose flags stand on mines opens none: as many flags as mines    *)
(* around the cell, each on one of the mines, are all the mines around it.  *)
LEMMA TrueFlagsMakeChordSafe ==
    ASSUME NEW b \in Boards, NEW c \in Cells,
           c \notin b.mines,
           b.flagged \subseteq b.mines,
           NeighborFlagsCount(b, c) = NeighborBombsCount(b, c)
    PROVE  OpenedAround(b, c) \cap b.mines = {}
<1>1. Cardinality(Neighbors[c] \cap b.flagged) = Cardinality(Neighbors[c] \cap b.mines)
  BY DEF NeighborFlagsCount, NeighborBombsCount
<1>2. Neighbors[c] \cap b.flagged = Neighbors[c] \cap b.mines
  BY <1>1, NeighborCells, SameCount
<1>3. ASSUME NEW n \in Neighbors[c]
      PROVE  Opened(b, n) \cap b.mines = {}
  <2>1. CASE n \in b.mines
    BY <2>1, <1>2 DEF Opened, Enterable
  <2>2. CASE n \notin b.mines
    BY <2>2, FloodAvoidsMines
  <2>3. QED
    BY <2>1, <2>2
<1>4. QED
  BY <1>3 DEF OpenedAround
=============================================================================
