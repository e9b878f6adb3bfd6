----------------------------- MODULE GameProofs ----------------------------
(* Theorems about Game.tla: for a board of any size and any mine layouts,  *)
(* the invariants and the action properties that TLC checks on small ones. *)
EXTENDS Game, BoardProofs

-----------------------------------------------------------------------------
(* The four ways in which a request can treat the board.                   *)

Keeps ==
    /\ board' = board
    /\ \/ UNCHANGED vars
       \/ reply'.cells = {} /\ ~(reply'.endpoint = "cell/reveal" /\ reply'.outcome = "boom")
       \/ reply'.endpoint = "cell/reveal" /\ reply'.outcome = "boom"

Reveals(c) ==
    /\ c \notin board.mines \cup board.flagged
    /\ AnswerOpened("cell/reveal", Opened(board, c))

Flags(c) ==
    /\ c \notin board.revealed
    /\ c \in board.flagged \/ BombsCount(board) # 0
    /\ board' = ToggleFlag(board, c)
    /\ reply'.cells = {}
    /\ reply'.endpoint = "cell/flag"

Chords(c) ==
    /\ c \in board.revealed \ board.mines
    /\ NeighborFlagsCount(board, c) = NeighborBombsCount(board, c)
    /\ AnswerOpened("cell/check", OpenedAround(board, c))

LEMMA AnswerOnlyKeeps ==
    ASSUME NEW e, NEW o, AnswerOnly(e, o), e # "cell/reveal" \/ o # "boom"
    PROVE  Keeps
BY DEF AnswerOnly, Answer, Keeps

(* Every step of the game is of one of the four kinds.                     *)
LEMMA StepKinds ==
    ASSUME [Next]_vars
    PROVE  Keeps \/ \E c \in Cells : Reveals(c) \/ Flags(c) \/ Chords(c)
<1>1. CASE UNCHANGED vars
  BY <1>1 DEF vars, Keeps
<1>2. ASSUME NEW x, NEW y, CellReveal(x, y)
      PROVE  Keeps \/ \E c \in Cells : Reveals(c)
  BY <1>2, AnswerOnlyKeeps DEF CellReveal, Keeps, Answer, Reveals, IsValid
<1>3. ASSUME NEW x, NEW y, CellFlag(x, y)
      PROVE  Keeps \/ \E c \in Cells : Flags(c)
  BY <1>3, AnswerOnlyKeeps DEF CellFlag, Answer, Flags, IsValid
<1>4. ASSUME NEW x, NEW y, CellCheck(x, y)
      PROVE  Keeps \/ \E c \in Cells : Chords(c)
  BY <1>4, AnswerOnlyKeeps DEF CellCheck, Answer, Chords, IsValid
<1>5. CASE BoardCheck \/ BoardFullyRevealed
  BY <1>5, AnswerOnlyKeeps DEF BoardCheck, BoardFullyRevealed
<1>6. QED
  BY <1>1, <1>2, <1>3, <1>4, <1>5 DEF Next

-----------------------------------------------------------------------------
(* Type correctness                                                        *)

LEMMA RevealedBoard ==
    ASSUME NEW b \in Boards, NEW S, S \subseteq Cells
    PROVE  /\ RevealAll(b, S) \in Boards
           /\ RevealAll(b, S).mines = b.mines
           /\ RevealAll(b, S).flagged = b.flagged
           /\ RevealAll(b, S).revealed = b.revealed \cup S
BY DEF RevealAll, Boards

LEMMA ToggledBoard ==
    ASSUME NEW b \in Boards, NEW c \in Cells
    PROVE  /\ ToggleFlag(b, c) \in Boards
           /\ ToggleFlag(b, c).mines = b.mines
           /\ ToggleFlag(b, c).revealed = b.revealed
           /\ ToggleFlag(b, c).flagged =
                  IF c \in b.flagged THEN b.flagged \ {c} ELSE b.flagged \cup {c}
BY DEF ToggleFlag, Boards

LEMMA OpenedCells ==
    ASSUME NEW b \in Boards, NEW c
    PROVE  /\ Opened(b, c) \subseteq Cells
           /\ OpenedAround(b, c) \subseteq Cells
           /\ OpenedAround(b, c) \subseteq Enterable(b)
BY OpenedEnterable DEF Enterable, OpenedAround

LEMMA AnswerOnlyType ==
    ASSUME TypeOK, NEW e \in Endpoints, NEW o \in Outcomes, AnswerOnly(e, o)
    PROVE  TypeOK'
BY DEF AnswerOnly, Answer, TypeOK, Replies

LEMMA AnswerOpenedType ==
    ASSUME TypeOK, NEW e \in Endpoints, NEW S, S \subseteq Cells, AnswerOpened(e, S)
    PROVE  TypeOK'
<1>1. board' \in Boards
  BY RevealedBoard DEF AnswerOpened, TypeOK
<1>2. reply' \in Replies
  BY DEF AnswerOpened, Answer, Replies, Outcomes
<1>3. boomed' \in BOOLEAN
  BY DEF AnswerOpened, TypeOK
<1>4. QED
  BY <1>1, <1>2, <1>3 DEF TypeOK

LEMMA InitType == Init => TypeOK
<1> SUFFICES ASSUME Init PROVE TypeOK
  OBVIOUS
<1>1. board \in Boards
  BY LayoutsAssumption DEF Init, FreshBoard, Boards
<1>2. reply \in Replies
  BY DEF Init, Answer, Replies, Endpoints, Outcomes
<1>3. QED
  BY <1>1, <1>2 DEF Init, TypeOK

LEMMA NextType == TypeOK /\ [Next]_vars => TypeOK'
<1> SUFFICES ASSUME TypeOK, [Next]_vars PROVE TypeOK'
  OBVIOUS
<1> USE DEF Endpoints, Outcomes, Refusals
<1>1. CASE UNCHANGED vars
  BY <1>1 DEF vars, TypeOK
<1>2. ASSUME NEW x, NEW y, CellReveal(x, y) PROVE TypeOK'
  <2>1. CASE AnswerOnly("cell/reveal", "out_of_range") \/ AnswerOnly("cell/reveal", "is_flagged")
    BY <2>1, AnswerOnlyType
  <2>2. CASE /\ IsValid(x, y)
             /\ reply' = Answer("cell/reveal", "boom", {<<x, y>>})
             /\ boomed' = TRUE
             /\ UNCHANGED board
    BY <2>2 DEF Answer, TypeOK, Replies, IsValid
  <2>3. CASE AnswerOpened("cell/reveal", Opened(board, <<x, y>>))
    <3>1. Opened(board, <<x, y>>) \subseteq Cells
      BY OpenedCells DEF TypeOK
    <3>2. QED
      BY <2>3, <3>1, AnswerOpenedType
  <2>4. QED
    BY <1>2, <2>1, <2>2, <2>3 DEF CellReveal
<1>3. ASSUME NEW x, NEW y, CellFlag(x, y) PROVE TypeOK'
  <2>1. CASE \E why \in {"out_of_range", "is_revealed", "no_bombs_left"} : AnswerOnly("cell/flag", why)
    BY <2>1, AnswerOnlyType
  <2>2. CASE /\ IsValid(x, y)
             /\ board' = ToggleFlag(board, <<x, y>>)
             /\ \E o \in {"flagged", "unflagged"} : reply' = Answer("cell/flag", o, {})
             /\ UNCHANGED boomed
    <3>1. board' \in Boards
      BY <2>2, ToggledBoard DEF TypeOK, IsValid
    <3>2. QED
      BY <2>2, <3>1 DEF Answer, TypeOK, Replies
  <2>3. QED
    BY <1>3, <2>1, <2>2 DEF CellFlag
<1>4. ASSUME NEW x, NEW y, CellCheck(x, y) PROVE TypeOK'
  <2>1. CASE \E why \in {"out_of_range", "not_revealed", "is_bomb", "flags_mismatch"} :
                 AnswerOnly("cell/check", why)
    BY <2>1, AnswerOnlyType
  <2>2. CASE AnswerOpened("cell/check", OpenedAround(board, <<x, y>>))
    <3>1. OpenedAround(board, <<x, y>>) \subseteq Cells
      BY OpenedCells DEF TypeOK
    <3>2. QED
      BY <2>2, <3>1, AnswerOpenedType
  <2>3. QED
    BY <1>4, <2>1, <2>2 DEF CellCheck
<1>5. CASE BoardCheck \/ BoardFullyRevealed
  BY <1>5, AnswerOnlyType DEF BoardCheck, BoardFullyRevealed
<1>6. QED
  BY <1>1, <1>2, <1>3, <1>4, <1>5 DEF Next

(* Every reachable state of the game is well typed.                        *)
THEOREM TypeCorrect == Spec => []TypeOK
BY InitType, NextType, PTL DEF Spec

-----------------------------------------------------------------------------
(* Flags                                                                   *)

(* A flag is set only while bombs_count() # 0, which with flags_count() <=  *)
(* bombs_total() leaves room for one more; taking one back makes room.     *)
LEMMA FlagStep ==
    ASSUME TypeOK, FlagDiscipline, NEW c \in Cells, Flags(c)
    PROVE  FlagDiscipline'
<1> DEFINE flagged == board.flagged
<1>1. /\ board'.mines = board.mines
      /\ board'.revealed = board.revealed
      /\ board'.flagged = IF c \in flagged THEN flagged \ {c} ELSE flagged \cup {c}
  BY ToggledBoard DEF Flags, TypeOK
<1>2. /\ IsFiniteSet(flagged)
      /\ Cardinality(flagged) \in Nat
      /\ Cardinality(board.mines) \in Nat
  BY CellSets DEF TypeOK, Boards
<1>3. Cardinality(flagged) <= Cardinality(board.mines)
  BY DEF FlagDiscipline, FlagsCount, BombsTotal
<1>4. Cardinality(board'.flagged) <= Cardinality(board.mines)
  <2>1. CASE c \in flagged
    <3>1. Cardinality(flagged \ {c}) = Cardinality(flagged) - 1
      BY <2>1, <1>2, FS_RemoveElement
    <3>2. QED
      BY <2>1, <3>1, <1>1, <1>2, <1>3
  <2>2. CASE c \notin flagged
    <3>1. Cardinality(flagged \cup {c}) = Cardinality(flagged) + 1
      BY <2>2, <1>2, FS_AddElement
    <3>2. Cardinality(flagged) # Cardinality(board.mines)
      BY <2>2, <1>2 DEF Flags, BombsCount, BombsTotal, FlagsCount
    <3>3. QED
      BY <2>2, <3>1, <3>2, <1>1, <1>2, <1>3
  <2>3. QED
    BY <2>1, <2>2
<1>5. board'.flagged \cap board'.revealed = {}
  BY <1>1 DEF Flags, FlagDiscipline
<1>6. QED
  BY <1>1, <1>4, <1>5 DEF FlagDiscipline, FlagsCount, BombsTotal

LEMMA OpenStep ==
    ASSUME TypeOK, FlagDiscipline, NEW e, NEW S, S \subseteq Enterable(board), AnswerOpened(e, S)
    PROVE  FlagDiscipline'
<1>1. /\ board'.mines = board.mines
      /\ board'.flagged = board.flagged
      /\ board'.revealed = board.revealed \cup S
  BY RevealedBoard DEF AnswerOpened, TypeOK, Enterable
<1>2. S \cap board.flagged = {}
  BY DEF Enterable
<1>3. QED
  BY <1>1, <1>2 DEF FlagDiscipline, FlagsCount, BombsTotal

LEMMA NextFlagDiscipline == TypeOK /\ FlagDiscipline /\ [Next]_vars => FlagDiscipline'
<1> SUFFICES ASSUME TypeOK, FlagDiscipline, [Next]_vars PROVE FlagDiscipline'
  OBVIOUS
<1>1. CASE Keeps
  BY <1>1 DEF Keeps, FlagDiscipline, FlagsCount, BombsTotal
<1>2. ASSUME NEW c \in Cells, Reveals(c) PROVE FlagDiscipline'
  BY <1>2, OpenedEnterable, OpenStep DEF Reveals, TypeOK
<1>3. ASSUME NEW c \in Cells, Flags(c) PROVE FlagDiscipline'
  BY <1>3, FlagStep
<1>4. ASSUME NEW c \in Cells, Chords(c) PROVE FlagDiscipline'
  BY <1>4, OpenedCells, OpenStep DEF Chords, TypeOK
<1>5. QED
  BY <1>1, <1>2, <1>3, <1>4, StepKinds

LEMMA InitFlagDiscipline == Init => FlagDiscipline
<1> SUFFICES ASSUME Init PROVE FlagDiscipline
  OBVIOUS
<1>1. PICK mines \in Layouts : board = FreshBoard(mines)
  BY DEF Init
<1>2. Cardinality(mines) \in Nat /\ Cardinality({}) = 0
  BY CellSets, LayoutsAssumption, FS_EmptySet
<1>3. QED
  BY <1>1, <1>2 DEF FreshBoard, FlagDiscipline, FlagsCount, BombsTotal

(* No client can set more flags than there are mines, or have a flag on a   *)
(* revealed cell, in whatever order it flags, reveals and chords.          *)
THEOREM FlagsAreDisciplined == Spec => []FlagDiscipline
BY InitType, NextType, InitFlagDiscipline, NextFlagDiscipline, PTL DEF Spec

-----------------------------------------------------------------------------
(* The end of the game                                                     *)

(* With no mine opened, as many covered cells as mines are the mines.      *)
LEMMA CoveredAreMines ==
    ASSUME NEW b \in Boards, b.mines \cap b.revealed = {}, Checkable(b)
    PROVE  b.revealed = Cells \ b.mines
<1>1. b.mines \subseteq Cells /\ b.revealed \subseteq Cells
  BY DEF Boards
<1>2. b.mines = Cells \ b.revealed
  <2>1. Cardinality(b.mines) = Cardinality(Cells \ b.revealed)
    BY DEF Checkable, UnrevealedCount, BombsTotal
  <2>2. b.mines \subseteq Cells \ b.revealed /\ Cells \ b.revealed \subseteq Cells
    BY <1>1
  <2>3. QED
    BY <2>1, <2>2, SameCount
<1>3. QED
  BY <1>1, <1>2

LEMMA FullyRevealedIsSolved == TypeOK /\ FlagDiscipline => FullyRevealedMeansSolved
<1> SUFFICES ASSUME TypeOK, FlagDiscipline, FullyRevealed(board)
             PROVE  /\ board.flagged = Cells \ board.revealed
                    /\ board.mines \cap board.revealed = {} => Solved
  BY DEF FullyRevealedMeansSolved
<1>1. board.flagged = Cells \ board.revealed
  <2>1. Cardinality(board.flagged) = Cardinality(Cells \ board.revealed)
    BY DEF FullyRevealed, FlagsCount, UnrevealedCount
  <2>2. board.flagged \subseteq Cells \ board.revealed
    BY DEF FlagDiscipline, TypeOK, Boards
  <2>3. QED
    BY <2>1, <2>2, SameCount
<1>2. ASSUME board.mines \cap board.revealed = {} PROVE Solved
  <2>1. board.revealed = Cells \ board.mines
    BY <1>2, CoveredAreMines DEF FullyRevealed, Checkable, TypeOK
  <2>2. board.mines \subseteq Cells
    BY DEF TypeOK, Boards
  <2>3. QED
    BY <1>1, <2>1, <2>2 DEF Solved
<1>3. QED
  BY <1>1, <1>2

LEMMA WinningBoardIsSolved ==
    ASSUME TypeOK, FlagDiscipline, Checkable(board), NoBadMine(board)
    PROVE  Solved
<1>1. board.mines \cap board.revealed = {} /\ board.mines \subseteq board.flagged
  BY DEF NoBadMine
<1>2. board.revealed = Cells \ board.mines
  BY <1>1, CoveredAreMines DEF TypeOK
<1>3. board.flagged \subseteq board.mines
  BY <1>2 DEF FlagDiscipline, TypeOK, Boards
<1>4. QED
  BY <1>1, <1>2, <1>3 DEF Solved

(* Only board/check answers "win", and it leaves the board alone.          *)
LEMMA WinStep ==
    ASSUME [Next]_vars, reply'.endpoint = "board/check", reply'.outcome = "win"
    PROVE  \/ UNCHANGED vars
           \/ board' = board /\ Checkable(board) /\ NoBadMine(board)
<1>1. ASSUME NEW x, NEW y, CellReveal(x, y) PROVE FALSE
  BY <1>1 DEF CellReveal, AnswerOnly, AnswerOpened, Answer
<1>2. ASSUME NEW x, NEW y, CellFlag(x, y) PROVE FALSE
  BY <1>2 DEF CellFlag, AnswerOnly, Answer
<1>3. ASSUME NEW x, NEW y, CellCheck(x, y) PROVE FALSE
  BY <1>3 DEF CellCheck, AnswerOnly, AnswerOpened, Answer
<1>4. CASE BoardCheck
  BY <1>4 DEF BoardCheck, AnswerOnly, Answer
<1>5. CASE BoardFullyRevealed
  BY <1>5 DEF BoardFullyRevealed, AnswerOnly, Answer
<1>6. QED
  BY <1>1, <1>2, <1>3, <1>4, <1>5 DEF Next

LEMMA NextWin ==
    TypeOK /\ FlagDiscipline /\ WinMeansSolved /\ [Next]_vars => WinMeansSolved'
<1> SUFFICES ASSUME TypeOK, FlagDiscipline, WinMeansSolved, [Next]_vars,
                    reply'.endpoint = "board/check", reply'.outcome = "win"
             PROVE  Solved'
  BY DEF WinMeansSolved
<1>1. CASE UNCHANGED vars
  BY <1>1 DEF vars, WinMeansSolved, Solved
<1>2. CASE board' = board /\ Checkable(board) /\ NoBadMine(board)
  BY <1>2, WinningBoardIsSolved DEF Solved
<1>3. QED
  BY <1>1, <1>2, WinStep

(* A "win" is answered on a solved board only, although board/check        *)
(* compares counts and never looks at the cells that are not mines.        *)
THEOREM WinsAreSolved == Spec => []WinMeansSolved
<1>1. Init => WinMeansSolved
  BY DEF Init, Answer, WinMeansSolved
<1>2. QED
  BY <1>1, NextWin, InitType, NextType, InitFlagDiscipline, NextFlagDiscipline, PTL DEF Spec

(* When board/fully_revealed answers "true", flags and covered cells are    *)
(* the same cells, whatever was opened before; and the board is solved unless *)
(* a mine has been opened.                                                 *)
THEOREM FullyRevealedGamesAreSolved == Spec => []FullyRevealedMeansSolved
BY FullyRevealedIsSolved, TypeCorrect, FlagsAreDisciplined, PTL

-----------------------------------------------------------------------------
(* What a step may do to the board                                         *)

LEMMA ZerosStep ==
    ASSUME TypeOK, [Next]_vars,
           NEW c \in board'.revealed \ board.revealed,
           NeighborBombsCount(board, c) = 0
    PROVE  Neighbors[c] \subseteq board'.revealed \cup board'.flagged
<1> USE DEF TypeOK
<1>1. CASE Keeps
  BY <1>1 DEF Keeps
<1>2. ASSUME NEW d \in Cells, Flags(d) PROVE FALSE
  BY <1>2, ToggledBoard DEF Flags
<1>3. ASSUME NEW S, S \subseteq Enterable(board), c \in S,
             Neighbors[c] \cap Enterable(board) \subseteq S,
             board' = RevealAll(board, S)
      PROVE  Neighbors[c] \subseteq board'.revealed \cup board'.flagged
  <2>1. Neighbors[c] \subseteq Cells
    BY <1>3, NeighborCells DEF Enterable
  <2>2. board'.revealed = board.revealed \cup S /\ board'.flagged = board.flagged
    BY <1>3, RevealedBoard DEF Enterable
  <2>3. QED
    BY <1>3, <2>1, <2>2 DEF Enterable
<1>4. ASSUME NEW d \in Cells, Reveals(d)
      PROVE  Neighbors[c] \subseteq board'.revealed \cup board'.flagged
  <2>1. board' = RevealAll(board, Opened(board, d)) /\ Opened(board, d) \subseteq Enterable(board)
    BY <1>4, OpenedEnterable DEF Reveals, AnswerOpened
  <2>2. c \in Opened(board, d)
    BY <2>1, RevealedBoard DEF Enterable
  <2>3. Neighbors[c] \cap Enterable(board) \subseteq Opened(board, d)
    BY <2>2, FloodIsComplete
  <2>4. QED
    BY <2>1, <2>2, <2>3, <1>3
<1>5. ASSUME NEW d \in Cells, Chords(d)
      PROVE  Neighbors[c] \subseteq board'.revealed \cup board'.flagged
  <2>1. /\ board' = RevealAll(board, OpenedAround(board, d))
        /\ OpenedAround(board, d) \subseteq Enterable(board)
    BY <1>5, OpenedCells DEF Chords, AnswerOpened
  <2>2. c \in OpenedAround(board, d)
    BY <2>1, RevealedBoard DEF Enterable
  <2>3. Neighbors[c] \cap Enterable(board) \subseteq OpenedAround(board, d)
    BY <2>2, FloodIsComplete DEF OpenedAround
  <2>4. QED
    BY <2>1, <2>2, <2>3, <1>3
<1>6. QED
  BY <1>1, <1>2, <1>4, <1>5, StepKinds

(* The flood fill leaves no cell covered around a zero it reveals, but for  *)
(* the flagged ones: on every board, from every starting point.            *)
THEOREM FloodFillIsComplete == Spec => ZerosAreOpenedAround
<1>1. TypeOK /\ [Next]_vars =>
          [\A c \in board'.revealed \ board.revealed :
              NeighborBombsCount(board, c) = 0
                  => Neighbors[c] \subseteq board'.revealed \cup board'.flagged]_vars
  BY ZerosStep
<1>2. QED
  BY <1>1, TypeCorrect, PTL DEF Spec, ZerosAreOpenedAround

LEMMA MineStep ==
    ASSUME TypeOK, [Next]_vars,
           board'.revealed \cap board.mines # board.revealed \cap board.mines
    PROVE  /\ reply'.endpoint = "cell/check"
           /\ reply'.outcome = "boom"
           /\ board.flagged \ board.mines # {}
<1> USE DEF TypeOK
<1>1. CASE Keeps
  BY <1>1 DEF Keeps
<1>2. ASSUME NEW c \in Cells, Flags(c) PROVE FALSE
  BY <1>2, ToggledBoard DEF Flags
<1>3. ASSUME NEW c \in Cells, Reveals(c) PROVE FALSE
  <2>1. Opened(board, c) \cap board.mines = {} /\ Opened(board, c) \subseteq Cells
    BY <1>3, FloodAvoidsMines, OpenedCells DEF Reveals
  <2>2. QED
    BY <1>3, <2>1, RevealedBoard DEF Reveals, AnswerOpened
<1>4. ASSUME NEW c \in Cells, Chords(c)
      PROVE  /\ reply'.endpoint = "cell/check"
             /\ reply'.outcome = "boom"
             /\ board.flagged \ board.mines # {}
  <2>1. board'.revealed = board.revealed \cup OpenedAround(board, c)
    BY <1>4, OpenedCells, RevealedBoard DEF Chords, AnswerOpened
  <2>2. OpenedAround(board, c) \cap board.mines # {}
    BY <2>1
  <2>3. board.flagged \ board.mines # {}
    BY <1>4, <2>2, TrueFlagsMakeChordSafe DEF Chords
  <2>4. QED
    BY <1>4, <2>2, <2>3 DEF Chords, AnswerOpened, Answer
<1>5. QED
  BY <1>1, <1>2, <1>3, <1>4, StepKinds

(* No request opens a mine but a chord next to a flag on a safe cell, and   *)
(* that one says "boom".                                                   *)
THEOREM OnlyChordsOpenMines == Spec => OnlyMisflaggedChordOpensMine
<1>1. TypeOK /\ [Next]_vars =>
          [board'.revealed \cap board.mines # board.revealed \cap board.mines
              => /\ reply'.endpoint = "cell/check"
                 /\ reply'.outcome = "boom"
                 /\ board.flagged \ board.mines # {}]_vars
  BY MineStep
<1>2. QED
  BY <1>1, TypeCorrect, PTL DEF Spec, OnlyMisflaggedChordOpensMine

LEMMA OpenTells ==
    ASSUME TypeOK, NEW e \in {"cell/reveal", "cell/check"},
           NEW S, S \subseteq Enterable(board), AnswerOpened(e, S),
           e = "cell/reveal" => S \cap board.mines = {}
    PROVE  /\ board.revealed \subseteq board'.revealed
           /\ board'.revealed \ board.revealed = reply'.cells
           /\ ~(reply'.endpoint = "cell/reveal" /\ reply'.outcome = "boom")
<1>1. board'.revealed = board.revealed \cup S
  BY RevealedBoard DEF AnswerOpened, Enterable, TypeOK
<1>2. S \cap board.revealed = {}
  BY DEF Enterable
<1>3. QED
  BY <1>1, <1>2 DEF AnswerOpened, Answer

LEMMA TellStep ==
    ASSUME TypeOK, [Next]_vars
    PROVE  [/\ board.revealed \subseteq board'.revealed
            /\ board'.revealed \ board.revealed =
                   IF reply'.endpoint = "cell/reveal" /\ reply'.outcome = "boom"
                   THEN {}
                   ELSE reply'.cells]_vars
<1>1. CASE Keeps
  BY <1>1 DEF Keeps
<1>2. ASSUME NEW c \in Cells, Flags(c)
      PROVE  board'.revealed = board.revealed /\ reply'.cells = {}
  BY <1>2, ToggledBoard DEF Flags, TypeOK
<1>3. ASSUME NEW c \in Cells, Reveals(c)
      PROVE  /\ board.revealed \subseteq board'.revealed
             /\ board'.revealed \ board.revealed = reply'.cells
             /\ ~(reply'.endpoint = "cell/reveal" /\ reply'.outcome = "boom")
  BY <1>3, FloodAvoidsMines, OpenedEnterable, OpenTells DEF Reveals, TypeOK
<1>4. ASSUME NEW c \in Cells, Chords(c)
      PROVE  /\ board.revealed \subseteq board'.revealed
             /\ board'.revealed \ board.revealed = reply'.cells
             /\ ~(reply'.endpoint = "cell/reveal" /\ reply'.outcome = "boom")
  <2>1. OpenedAround(board, c) \subseteq Enterable(board)
    BY OpenedCells DEF TypeOK
  <2>2. AnswerOpened("cell/check", OpenedAround(board, c))
    BY <1>4 DEF Chords
  <2>3. QED
    BY <2>1, <2>2, OpenTells
<1>5. QED
  BY <1>1, <1>2, <1>3, <1>4, StepKinds

(* A client that reads its answers knows exactly the revealed cells, and no *)
(* cell is ever covered again.                                             *)
THEOREM AnswersAreComplete == Spec => AnswersTellTheDifference
BY TellStep, TypeCorrect, PTL DEF Spec, AnswersTellTheDifference
=============================================================================
