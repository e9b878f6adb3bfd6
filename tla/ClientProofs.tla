---------------------------- MODULE ClientProofs ---------------------------
(* Theorems about Client.tla: for a board of any size, any mine layouts and *)
(* any number of lost requests.  The server's part comes from GameProofs;   *)
(* what is added is what the client makes of the answers.                   *)
EXTENDS Client, GameProofs

-----------------------------------------------------------------------------
(* What a handler can do with a request to a cell, and answer.             *)

Refuses ==
    /\ reply'.outcome \in Refusals
    /\ UNCHANGED <<board, boomed>>

BoomsUnopened(at) ==
    /\ reply'.outcome = "boom"
    /\ reply'.cells = {at}
    /\ at \notin board.flagged
    /\ UNCHANGED board

Opens(e) ==
    /\ e \in {"cell/reveal", "cell/check"}
    /\ reply'.outcome \in {"ok", "boom"}
    /\ reply'.cells \subseteq Enterable(board)
    /\ reply'.outcome = "ok" \/ e = "cell/reveal" => reply'.cells \cap board.mines = {}
    /\ board'.revealed = board.revealed \cup reply'.cells
    /\ board'.mines = board.mines
    /\ board'.flagged = board.flagged
    /\ reply'.outcome = "ok" => boomed' = boomed

TogglesFlag(e, at) ==
    /\ e = "cell/flag"
    /\ at \notin board.revealed
    /\ reply'.outcome = IF at \in board.flagged THEN "unflagged" ELSE "flagged"
    /\ board'.flagged = IF at \in board.flagged THEN board.flagged \ {at} ELSE board.flagged \cup {at}
    /\ board'.mines = board.mines
    /\ board'.revealed = board.revealed
    /\ UNCHANGED boomed

LEMMA AnswerOpenedOpens ==
    ASSUME TypeOK, NEW e \in {"cell/reveal", "cell/check"}, NEW S, S \subseteq Enterable(board),
           e = "cell/reveal" => S \cap board.mines = {}, AnswerOpened(e, S)
    PROVE  Opens(e)
<1>1. S \subseteq Cells
  BY DEF Enterable
<1>2. /\ board'.revealed = board.revealed \cup S
      /\ board'.mines = board.mines
      /\ board'.flagged = board.flagged
  BY <1>1, RevealedBoard DEF AnswerOpened, TypeOK
<1>3. /\ reply'.outcome = IF S \cap board.mines # {} THEN "boom" ELSE "ok"
      /\ reply'.cells = S
      /\ boomed' = (boomed \/ S \cap board.mines # {})
  BY DEF AnswerOpened, Answer
<1>4. boomed \in BOOLEAN
  BY DEF TypeOK
<1>5. reply'.outcome = "ok" => boomed' = boomed
  BY <1>3, <1>4
<1>6. QED
  BY <1>2, <1>3, <1>5 DEF Opens

LEMMA ServedEffect ==
    ASSUME TypeOK, NEW e, NEW at \in Cells, Served(e, at)
    PROVE  Refuses \/ BoomsUnopened(at) \/ Opens(e) \/ TogglesFlag(e, at)
<1> DEFINE c == <<at[1], at[2]>>
<1>1. c = at /\ IsValid(at[1], at[2])
  BY DEF Cells, IsValid
<1>2. CASE e = "cell/reveal" /\ CellReveal(at[1], at[2])
  <2>1. CASE AnswerOnly("cell/reveal", "is_flagged")
    BY <2>1 DEF AnswerOnly, Answer, Refuses, Refusals
  <2>2. CASE /\ c \in board.mines \ board.flagged
             /\ reply' = Answer("cell/reveal", "boom", {c})
             /\ UNCHANGED board
    BY <1>1, <2>2 DEF Answer, BoomsUnopened
  <2>3. CASE c \notin board.mines \cup board.flagged /\ AnswerOpened("cell/reveal", Opened(board, c))
    <3>1. Opened(board, c) \cap board.mines = {}
      BY <1>1, <2>3, FloodAvoidsMines DEF TypeOK
    <3>2. Opened(board, c) \subseteq Enterable(board)
      BY OpenedEnterable DEF TypeOK
    <3>3. QED
      BY <1>2, <2>3, <3>1, <3>2, AnswerOpenedOpens
  <2>4. QED
    BY <1>1, <1>2, <2>1, <2>2, <2>3 DEF CellReveal
<1>3. CASE e = "cell/flag" /\ CellFlag(at[1], at[2])
  <2>1. CASE \E o \in {"is_revealed", "no_bombs_left"} : AnswerOnly("cell/flag", o)
    BY <2>1 DEF AnswerOnly, Answer, Refuses, Refusals
  <2>2. CASE /\ c \notin board.revealed
             /\ board' = ToggleFlag(board, c)
             /\ reply' = Answer("cell/flag", IF c \in board.flagged THEN "unflagged" ELSE "flagged", {})
             /\ UNCHANGED boomed
    BY <1>1, <1>3, <2>2, ToggledBoard DEF Answer, TogglesFlag, TypeOK
  <2>3. QED
    BY <1>1, <1>3, <2>1, <2>2 DEF CellFlag
<1>4. CASE e = "cell/check" /\ CellCheck(at[1], at[2])
  <2>1. CASE \E o \in {"not_revealed", "is_bomb", "flags_mismatch"} : AnswerOnly("cell/check", o)
    BY <2>1 DEF AnswerOnly, Answer, Refuses, Refusals
  <2>2. CASE AnswerOpened("cell/check", OpenedAround(board, c))
    BY <1>4, <2>2, OpenedCells, AnswerOpenedOpens DEF TypeOK
  <2>3. QED
    BY <1>1, <1>4, <2>1, <2>2 DEF CellCheck
<1>5. QED
  BY <1>2, <1>3, <1>4 DEF Served

-----------------------------------------------------------------------------
(* The client only plays the game                                          *)

LEMMA ServedIsAStep ==
    ASSUME NEW e, NEW at \in Cells, Served(e, at)
    PROVE  Next
<1>1. at \in Coordinates
  BY DEF Coordinates
<1>2. QED
  BY <1>1 DEF Served, Next

(* Where the program counter, the cursor and the lost requests can be.     *)
Placed ==
    /\ cursor \in Cells
    /\ \A r \in lost : r.at \in Cells
    /\ late \subseteq lost

LEMMA InitPlaced == PlayInit => Placed
<1>1. <<1, 1>> \in Cells
  BY BoardAssumption DEF Cells
<1>2. QED
  BY <1>1 DEF PlayInit, Placed

LEMMA NextPlaced == Placed /\ [PlayNext]_playVars => Placed'
<1> SUFFICES ASSUME Placed, [PlayNext]_playVars PROVE Placed'
  OBVIOUS
<1> USE DEF Placed
<1>1. ASSUME NEW d \in Arrows, MoveCursor(d) PROVE Placed'
  BY <1>1 DEF MoveCursor, IsValid
<1>2. CASE GiveUp
  BY <1>2 DEF GiveUp
<1>3. ASSUME NEW r \in late, LateArrives(r) PROVE Placed'
  BY <1>3 DEF LateArrives
<1>4. CASE UNCHANGED playVars
  BY <1>4 DEF playVars, clientVars
<1>5. ASSUME NEW e \in CellRequests, Press(e) PROVE Placed'
  BY <1>5 DEF Press
<1>6. CASE Quit \/ SessionStarted \/ BombsAnswered
  BY <1>6 DEF Quit, SessionStarted, BombsAnswered
<1>7. CASE CellsAnswered \/ FlagAnswered \/ FullyRevealedAnswered \/ CheckAnswered
  BY <1>7 DEF CellsAnswered, FlagAnswered, FullyRevealedAnswered, CheckAnswered
<1>8. QED
  BY <1>1, <1>2, <1>3, <1>4, <1>5, <1>6, <1>7 DEF PlayNext

LEMMA PlayStep == Placed /\ [PlayNext]_playVars => [Next]_vars
<1> SUFFICES ASSUME Placed, [PlayNext]_playVars PROVE [Next]_vars
  OBVIOUS
<1>1. CASE UNCHANGED playVars
  BY <1>1 DEF playVars
<1>2. CASE CellsAnswered \/ FlagAnswered
  BY <1>2, ServedIsAStep DEF CellsAnswered, FlagAnswered, Placed
<1>3. CASE FullyRevealedAnswered \/ CheckAnswered
  BY <1>3 DEF FullyRevealedAnswered, CheckAnswered, Next
<1>4. ASSUME NEW r \in late, LateArrives(r) PROVE Next
  BY <1>4, ServedIsAStep DEF LateArrives, Placed
<1>5. ASSUME NEW d \in Arrows, MoveCursor(d) PROVE UNCHANGED vars
  BY <1>5 DEF MoveCursor
<1>6. ASSUME NEW e \in CellRequests, Press(e) PROVE UNCHANGED vars
  BY <1>6 DEF Press
<1>7. CASE Quit \/ SessionStarted \/ BombsAnswered \/ GiveUp
  BY <1>7 DEF Quit, SessionStarted, BombsAnswered, GiveUp
<1>8. QED
  BY <1>1, <1>2, <1>3, <1>4, <1>5, <1>6, <1>7 DEF PlayNext

(* Whatever the player presses and the network loses, the server sees a     *)
(* game: Client implements Game, and all that is proved of Game holds here. *)
THEOREM ClientPlaysTheGame == PlaySpec => Spec
<1>1. PlayInit => Init
  BY DEF PlayInit
<1>2. QED
  BY <1>1, InitPlaced, NextPlaced, PlayStep, PTL DEF PlaySpec, Spec

-----------------------------------------------------------------------------
(* Type correctness                                                        *)

LEMMA AtMostOneMore ==
    ASSUME NEW S, IsFiniteSet(S), NEW n \in Nat, Cardinality(S) <= n, NEW x
    PROVE  IsFiniteSet(S \cup {x}) /\ Cardinality(S \cup {x}) <= n + 1
<1>1. Cardinality(S) \in Nat
  BY FS_CardinalityType
<1>2. QED
  BY <1>1, FS_AddElement

(* A cell has at most eight neighbours, so that symbol_for() draws every    *)
(* count with one digit.                                                   *)
LEMMA EightNeighbors ==
    ASSUME NEW c \in Cells
    PROVE  Cardinality(Neighbors[c]) <= 8
<1> DEFINE S1 == {} \cup {<<c[1] - 1, c[2] - 1>>}
           S2 == S1 \cup {<<c[1] - 1, c[2]>>}
           S3 == S2 \cup {<<c[1] - 1, c[2] + 1>>}
           S4 == S3 \cup {<<c[1], c[2] - 1>>}
           S5 == S4 \cup {<<c[1], c[2] + 1>>}
           S6 == S5 \cup {<<c[1] + 1, c[2] - 1>>}
           S7 == S6 \cup {<<c[1] + 1, c[2]>>}
           S8 == S7 \cup {<<c[1] + 1, c[2] + 1>>}
<1>1. IsFiniteSet({}) /\ Cardinality({}) <= 0
  BY FS_EmptySet
<1>a. IsFiniteSet(S1) /\ Cardinality(S1) <= 1
  BY <1>1, AtMostOneMore, 0 + 1 = 1
<1>b. IsFiniteSet(S2) /\ Cardinality(S2) <= 2
  <2> HIDE DEF S1
  <2>1. QED
    BY <1>a, AtMostOneMore, 1 + 1 = 2
<1>c. IsFiniteSet(S3) /\ Cardinality(S3) <= 3
  <2> HIDE DEF S2
  <2>1. QED
    BY <1>b, AtMostOneMore, 2 + 1 = 3
<1>d. IsFiniteSet(S4) /\ Cardinality(S4) <= 4
  <2> HIDE DEF S3
  <2>1. QED
    BY <1>c, AtMostOneMore, 3 + 1 = 4
<1>e. IsFiniteSet(S5) /\ Cardinality(S5) <= 5
  <2> HIDE DEF S4
  <2>1. QED
    BY <1>d, AtMostOneMore, 4 + 1 = 5
<1>f. IsFiniteSet(S6) /\ Cardinality(S6) <= 6
  <2> HIDE DEF S5
  <2>1. QED
    BY <1>e, AtMostOneMore, 5 + 1 = 6
<1>g. IsFiniteSet(S7) /\ Cardinality(S7) <= 7
  <2> HIDE DEF S6
  <2>1. QED
    BY <1>f, AtMostOneMore, 6 + 1 = 7
<1>h. IsFiniteSet(S8) /\ Cardinality(S8) <= 8
  <2> HIDE DEF S7
  <2>1. QED
    BY <1>g, AtMostOneMore, 7 + 1 = 8
<1>2. Neighbors[c] \subseteq S8
  <2> SUFFICES ASSUME NEW n \in Neighbors[c] PROVE n \in S8
    OBVIOUS
  <2>1. /\ n \in Cells /\ n # c
        /\ n[1] - c[1] \in -1..1
        /\ n[2] - c[2] \in -1..1
    BY DEF Neighbors
  <2>2. /\ c[1] \in Int /\ c[2] \in Int /\ n[1] \in Int /\ n[2] \in Int
        /\ c = <<c[1], c[2]>> /\ n = <<n[1], n[2]>>
    BY <2>1, BoardAssumption DEF Cells
  <2>3. /\ n[1] = c[1] - 1 \/ n[1] = c[1] \/ n[1] = c[1] + 1
        /\ n[2] = c[2] - 1 \/ n[2] = c[2] \/ n[2] = c[2] + 1
    BY <2>1, <2>2
  <2>4. QED
    BY <2>1, <2>2, <2>3
<1>3. Cardinality(Neighbors[c]) <= Cardinality(S8) /\ Cardinality(Neighbors[c]) \in Nat
  BY <1>2, <1>h, FS_Subset, FS_CardinalityType
<1>4. Cardinality(S8) \in Nat
  BY <1>h, FS_CardinalityType
<1>5. QED
  <2> HIDE DEF S8
  <2>1. QED
    BY <1>3, <1>4, <1>h

LEMMA CountIsDigit ==
    ASSUME NEW b \in Boards, NEW c \in Cells, c \notin b.mines
    PROVE  NeighborBombsCount(b, c) \in 0..8
<1>1. Neighbors[c] \cap b.mines \subseteq Neighbors[c] /\ Neighbors[c] \subseteq Cells
  BY NeighborCells
<1>2. /\ Cardinality(Neighbors[c] \cap b.mines) \in Nat
      /\ Cardinality(Neighbors[c]) \in Nat
      /\ Cardinality(Neighbors[c] \cap b.mines) <= Cardinality(Neighbors[c])
  BY <1>1, CellSets, FS_Subset
<1>3. QED
  BY <1>2, EightNeighbors DEF NeighborBombsCount

LEMMA BombCounts ==
    ASSUME TypeOK, FlagDiscipline
    PROVE  /\ BombsTotal(board) \in 0..Cardinality(Cells)
           /\ BombsCount(board) \in 0..Cardinality(Cells)
<1>1. /\ board.mines \subseteq Cells
      /\ board.flagged \subseteq Cells
  BY DEF TypeOK, Boards
<1>2. /\ Cardinality(board.mines) \in Nat
      /\ Cardinality(board.flagged) \in Nat
      /\ Cardinality(Cells) \in Nat
      /\ Cardinality(board.mines) <= Cardinality(Cells)
  BY <1>1, CellSets, CellsFinite, FS_Subset
<1>3. QED
  BY <1>2 DEF FlagDiscipline, BombsCount, BombsTotal, FlagsCount

TInv == ClientTypeOK /\ FlagDiscipline /\ IsFiniteSet(lost)

LEMMA InitTInv == PlayInit => TInv
<1> SUFFICES ASSUME PlayInit PROVE TInv
  OBVIOUS
<1>1. TypeOK /\ FlagDiscipline
  BY InitType, InitFlagDiscipline DEF PlayInit
<1>2. cursor \in Cells
  BY InitPlaced DEF Placed
<1>3. picture \in [Cells -> Drawn]
  BY DEF PlayInit, Drawn
<1>4. Cardinality(Cells) \in Nat
  BY CellSets
<1>5. bombsLeft \in 0..Cardinality(Cells) /\ bombsTotal \in 0..Cardinality(Cells)
  BY <1>4 DEF PlayInit
<1>6. IsFiniteSet(lost)
  BY FS_EmptySet DEF PlayInit
<1>7. QED
  BY <1>1, <1>2, <1>3, <1>5, <1>6 DEF PlayInit, Asking, ClientTypeOK, TInv

LEMMA TInvPlaced == TInv => Placed
BY DEF TInv, ClientTypeOK, LostRequests, Placed

(* A drawing that is of a drawn kind in every painted cell is a picture.    *)
LEMMA PaintType ==
    ASSUME picture \in [Cells -> Drawn], NEW S, NEW d, \A c \in Cells : c \in S => d[c] \in Drawn,
           Paint(S, d)
    PROVE  picture' \in [Cells -> Drawn]
BY DEF Paint

LEMMA SetState ==
    ASSUME NEW p \in Drawn, NEW t \in {"hidden", "flagged", "revealed", "boom"}
    PROVE  [p EXCEPT !.state = t] \in Drawn
BY DEF Drawn

LEMMA NextTInv == TInv /\ [PlayNext]_playVars => TInv'
<1> SUFFICES ASSUME TInv, [PlayNext]_playVars PROVE TInv'
  OBVIOUS
<1> USE DEF TInv
<1>1. [Next]_vars /\ TypeOK' /\ FlagDiscipline' /\ TypeOK
  BY TInvPlaced, PlayStep, NextType, NextFlagDiscipline DEF ClientTypeOK
<1>2. CASE UNCHANGED playVars
  BY <1>1, <1>2 DEF playVars, clientVars, ClientTypeOK
<1>3. ASSUME NEW d \in Arrows, MoveCursor(d) PROVE TInv'
  BY <1>1, <1>3 DEF MoveCursor, IsValid, ClientTypeOK
<1>4. ASSUME NEW e \in CellRequests, Press(e) PROVE TInv'
  BY <1>1, <1>4 DEF Press, Asking, ClientTypeOK
<1>5. CASE Quit \/ SessionStarted
  BY <1>1, <1>5 DEF Quit, SessionStarted, Asking, ClientTypeOK
<1>6. CASE BombsAnswered
  BY <1>1, <1>6, BombCounts DEF BombsAnswered, Asking, ClientTypeOK
<1>7. CASE CellsAnswered
  <2>1. CASE Refused
    BY <1>1, <1>7, <2>1 DEF CellsAnswered, Refused, ClientTypeOK
  <2>2. CASE BoomShown
    <3>1. picture' \in [Cells -> Drawn]
      <4> DEFINE d == [c \in Cells |-> [picture[c] EXCEPT !.state = "boom"]]
      <4>1. \A c \in Cells : d[c] \in Drawn
        BY SetState DEF ClientTypeOK
      <4>2. Paint(reply'.cells, d)
        BY <2>2 DEF BoomShown
      <4> HIDE DEF d
      <4>3. QED
        BY <4>1, <4>2, PaintType DEF ClientTypeOK
    <3>2. QED
      BY <1>1, <1>7, <2>2, <3>1 DEF CellsAnswered, BoomShown, ClientTypeOK
  <2>3. CASE CellsShown
    <3>1. pc \in {"cell/reveal", "cell/check"} /\ Served(pc, cursor) /\ reply'.outcome = "ok"
      BY <1>7, <2>3 DEF CellsAnswered, CellsShown
    <3>2. Refuses \/ BoomsUnopened(cursor) \/ Opens(pc) \/ TogglesFlag(pc, cursor)
      BY <1>1, <3>1, ServedEffect DEF ClientTypeOK
    <3>3. Opens(pc)
      BY <3>1, <3>2 DEF Refuses, Refusals, BoomsUnopened, TogglesFlag
    <3>4. reply'.cells \cap board.mines = {}
      BY <3>1, <3>3 DEF Opens
    <3>5. \A c \in Cells : c \in reply'.cells => NeighborBombsCount(board, c) \in 0..8
      BY <1>1, <3>4, CountIsDigit DEF TypeOK
    <3>6. picture' \in [Cells -> Drawn]
      BY <2>3, <3>5 DEF CellsShown, Paint, Drawn, ClientTypeOK
    <3>7. QED
      BY <1>1, <1>7, <2>3, <3>6 DEF CellsAnswered, CellsShown, Asking, ClientTypeOK
  <2>4. QED
    BY <1>7, <2>1, <2>2, <2>3 DEF CellsAnswered
<1>8. CASE FlagAnswered
  <2>1. CASE Refused
    BY <1>1, <1>8, <2>1 DEF FlagAnswered, Refused, ClientTypeOK
  <2>2. CASE FlagShown
    <3>1. picture' \in [Cells -> Drawn]
      <4> DEFINE t == IF reply'.outcome = "flagged" THEN "flagged" ELSE "hidden"
                 d == [c \in Cells |-> [picture[c] EXCEPT !.state = t]]
      <4>1. \A c \in Cells : d[c] \in Drawn
        BY SetState DEF ClientTypeOK
      <4>2. Paint({cursor}, d)
        BY <2>2 DEF FlagShown
      <4> HIDE DEF d
      <4>3. QED
        BY <4>1, <4>2, PaintType DEF ClientTypeOK
    <3>2. QED
      BY <1>1, <1>8, <2>2, <3>1 DEF FlagAnswered, FlagShown, Asking, ClientTypeOK
  <2>3. QED
    BY <1>8, <2>1, <2>2 DEF FlagAnswered
<1>9. CASE FullyRevealedAnswered
  BY <1>1, <1>9 DEF FullyRevealedAnswered, Asking, ClientTypeOK
<1>10. CASE CheckAnswered
  BY <1>1, <1>10 DEF CheckAnswered, Refused, VerdictShown, ClientTypeOK
<1>11. CASE GiveUp
  <2> DEFINE request == [nr |-> Cardinality(lost) + 1, endpoint |-> pc, at |-> cursor]
  <2>1. pc' \in Asking \cup {"idle", "over"}
    BY <1>11 DEF GiveUp, AfterFailure, Asking
  <2>2. Cardinality(lost) \in Nat /\ Cardinality(lost) < MaxLosses
    BY <1>11, FS_CardinalityType DEF GiveUp
  <2>3. Cardinality(lost) + 1 \in 1..MaxLosses
    BY <2>2, LossesAssumption
  <2>4. request \in LostRequests
    BY <1>11, <2>3 DEF GiveUp, LostRequests, ClientTypeOK
  <2>5. IsFiniteSet(lost')
    BY <1>11, FS_AddElement DEF GiveUp
  <2>6. QED
    BY <1>1, <1>11, <2>1, <2>4, <2>5 DEF GiveUp, ClientTypeOK
<1>12. ASSUME NEW r \in late, LateArrives(r) PROVE TInv'
  BY <1>1, <1>12 DEF LateArrives, ClientTypeOK
<1>13. QED
  BY <1>2, <1>3, <1>4, <1>5, <1>6, <1>7, <1>8, <1>9, <1>10, <1>11, <1>12 DEF PlayNext

LEMMA TInvariance == PlaySpec => []TInv
BY InitTInv, NextTInv, PTL DEF PlaySpec

(* The client's variables keep their types: in particular the cursor stays  *)
(* on the board and every count that is drawn is a digit.                  *)
THEOREM ClientTypeCorrect == PlaySpec => []ClientTypeOK
BY TInvariance, PTL DEF TInv

-----------------------------------------------------------------------------
(* The picture                                                             *)

(* Steps that touch neither the board nor the picture.                     *)
Quiet == UNCHANGED <<board, boomed, picture>> /\ lost \subseteq lost'

LEMMA PlayKinds ==
    ASSUME [PlayNext]_playVars
    PROVE  Quiet \/ CellsAnswered \/ FlagAnswered \/ \E r \in late : LateArrives(r)
<1>1. CASE UNCHANGED playVars
  BY <1>1 DEF playVars, clientVars, vars, Quiet
<1>2. ASSUME NEW d \in Arrows, MoveCursor(d) PROVE Quiet
  BY <1>2 DEF MoveCursor, vars, Quiet
<1>3. ASSUME NEW e \in CellRequests, Press(e) PROVE Quiet
  BY <1>3 DEF Press, vars, Quiet
<1>4. CASE Quit \/ SessionStarted \/ BombsAnswered
  BY <1>4 DEF Quit, SessionStarted, BombsAnswered, vars, Quiet
<1>5. CASE FullyRevealedAnswered
  BY <1>5 DEF FullyRevealedAnswered, BoardFullyRevealed, AnswerOnly, Quiet
<1>6. CASE CheckAnswered
  BY <1>6 DEF CheckAnswered, BoardCheck, AnswerOnly, Refused, VerdictShown, Quiet
<1>7. CASE GiveUp
  BY <1>7 DEF GiveUp, vars, Quiet
<1>8. QED
  BY <1>1, <1>2, <1>3, <1>4, <1>5, <1>6, <1>7 DEF PlayNext

(* What CellsAnswered makes of the board, the answer and the picture.       *)
CellsEffect ==
    \/ Refuses /\ picture' = picture /\ pc' = "idle" /\ popup' = popup
    \/ /\ BoomsUnopened(cursor) \/ (Opens(pc) /\ reply'.outcome = "boom")
       /\ \A c \in Cells : IF c \in reply'.cells THEN picture'[c].state = "boom"
                                                 ELSE picture'[c] = picture[c]
       /\ popup' = "boom" /\ pc' = "over"
    \/ /\ Opens(pc) /\ reply'.outcome = "ok"
       /\ \A c \in Cells : IF c \in reply'.cells
                           THEN /\ picture'[c].state = "revealed"
                                /\ picture'[c].count = NeighborBombsCount(board, c)
                           ELSE picture'[c] = picture[c]
       /\ pc' = "board/fully_revealed" /\ popup' = popup

LEMMA CellsAnsweredEffect ==
    ASSUME TInv, CellsAnswered
    PROVE  CellsEffect
<1>1. cursor \in Cells /\ picture \in [Cells -> Drawn] /\ TypeOK
  BY DEF TInv, ClientTypeOK
<1>2. Refuses \/ BoomsUnopened(cursor) \/ Opens(pc) \/ TogglesFlag(pc, cursor)
  BY <1>1, ServedEffect DEF CellsAnswered
<1>3. ~TogglesFlag(pc, cursor)
  BY DEF CellsAnswered, TogglesFlag
<1>4. CASE Refused
  BY <1>2, <1>3, <1>4 DEF Refused, Refusals, Refuses, BoomsUnopened, Opens, CellsEffect
<1>5. CASE BoomShown
  <2>1. \A c \in Cells : IF c \in reply'.cells THEN picture'[c].state = "boom"
                                               ELSE picture'[c] = picture[c]
    BY <1>1, <1>5 DEF BoomShown, Paint, Drawn
  <2>2. QED
    BY <1>2, <1>3, <1>5, <2>1 DEF BoomShown, Refuses, Refusals, CellsEffect
<1>6. CASE CellsShown
  <2>1. \A c \in Cells : IF c \in reply'.cells
                         THEN /\ picture'[c].state = "revealed"
                              /\ picture'[c].count = NeighborBombsCount(board, c)
                         ELSE picture'[c] = picture[c]
    BY <1>1, <1>6 DEF CellsShown, Paint
  <2>2. QED
    BY <1>2, <1>3, <1>6, <2>1 DEF CellsShown, Refuses, Refusals, BoomsUnopened, CellsEffect
<1>7. QED
  BY <1>4, <1>5, <1>6 DEF CellsAnswered

FlagEffect ==
    \/ Refuses /\ picture' = picture /\ pc' = "idle"
    \/ /\ TogglesFlag("cell/flag", cursor)
       /\ picture'[cursor].state = IF cursor \in board.flagged THEN "hidden" ELSE "flagged"
       /\ \A c \in Cells \ {cursor} : picture'[c] = picture[c]
       /\ pc' = "flag_bombs"

LEMMA FlagAnsweredEffect ==
    ASSUME TInv, FlagAnswered
    PROVE  FlagEffect /\ popup' = popup /\ pc = "cell/flag" /\ lost' = lost
<1>1. cursor \in Cells /\ picture \in [Cells -> Drawn] /\ TypeOK
  BY DEF TInv, ClientTypeOK
<1>2. Refuses \/ BoomsUnopened(cursor) \/ Opens(pc) \/ TogglesFlag(pc, cursor)
  BY <1>1, ServedEffect DEF FlagAnswered
<1>3. CASE Refused
  BY <1>2, <1>3 DEF FlagAnswered, Refused, Refusals, Refuses, BoomsUnopened, Opens, TogglesFlag, FlagEffect
<1>4. CASE FlagShown
  <2>1. TogglesFlag("cell/flag", cursor)
    BY <1>2, <1>4 DEF FlagAnswered, FlagShown, Refusals, Refuses, BoomsUnopened, Opens
  <2>2. picture'[cursor].state = IF reply'.outcome = "flagged" THEN "flagged" ELSE "hidden"
    BY <1>1, <1>4 DEF FlagShown, Paint, Drawn
  <2>3. \A c \in Cells \ {cursor} : picture'[c] = picture[c]
    BY <1>4 DEF FlagShown, Paint
  <2>4. QED
    BY <1>4, <2>1, <2>2, <2>3 DEF FlagShown, FlagAnswered, TogglesFlag, FlagEffect
<1>5. QED
  BY <1>3, <1>4 DEF FlagAnswered

LEMMA LateEffect ==
    ASSUME TInv, NEW r \in late, LateArrives(r)
    PROVE  /\ r \in lost /\ r.at \in Cells
           /\ Refuses \/ BoomsUnopened(r.at) \/ Opens(r.endpoint) \/ TogglesFlag(r.endpoint, r.at)
           /\ UNCHANGED <<picture, lost, pc, popup>>
<1>1. TypeOK /\ r \in lost /\ r.at \in Cells
  BY TInvPlaced DEF Placed, TInv, ClientTypeOK
<1>2. QED
  BY <1>1, ServedEffect DEF LateArrives

LEMMA NextPictureIsTrue == TInv /\ PictureIsTrue /\ [PlayNext]_playVars => PictureIsTrue'
<1> SUFFICES ASSUME TInv, PictureIsTrue, [PlayNext]_playVars, NEW c \in Cells,
                    picture'[c].state = "revealed"
             PROVE  /\ c \in board'.revealed \ board'.mines
                    /\ picture'[c].count = NeighborBombsCount(board', c)
  BY DEF PictureIsTrue
<1>a. picture[c].state = "revealed"
          => /\ c \in board.revealed \ board.mines
             /\ picture[c].count = NeighborBombsCount(board, c)
  BY DEF PictureIsTrue
<1>b. board'.mines = board.mines => NeighborBombsCount(board', c) = NeighborBombsCount(board, c)
  BY DEF NeighborBombsCount
<1>1. CASE Quiet
  BY <1>1, <1>a DEF Quiet
<1>2. CASE CellsAnswered
  <2>1. CASE Refuses /\ picture' = picture
    BY <2>1, <1>a DEF Refuses
  <2>2. CASE /\ BoomsUnopened(cursor) \/ Opens(pc)
             /\ IF c \in reply'.cells THEN picture'[c].state = "boom" ELSE picture'[c] = picture[c]
    BY <2>2, <1>a, <1>b DEF BoomsUnopened, Opens
  <2>3. CASE /\ Opens(pc) /\ reply'.outcome = "ok"
             /\ IF c \in reply'.cells
                THEN picture'[c].count = NeighborBombsCount(board, c)
                ELSE picture'[c] = picture[c]
    BY <2>3, <1>a, <1>b DEF Opens
  <2>4. QED
    BY <1>2, <2>1, <2>2, <2>3, CellsAnsweredEffect DEF CellsEffect
<1>3. CASE FlagAnswered
  <2>1. CASE Refuses /\ picture' = picture
    BY <2>1, <1>a DEF Refuses
  <2>2. CASE TogglesFlag("cell/flag", cursor) /\ picture'[c] = picture[c]
    BY <2>2, <1>a, <1>b DEF TogglesFlag
  <2>3. QED
    BY <1>3, <2>1, <2>2, FlagAnsweredEffect DEF FlagEffect
<1>4. ASSUME NEW r \in late, LateArrives(r)
      PROVE  /\ c \in board'.revealed \ board'.mines
             /\ picture'[c].count = NeighborBombsCount(board', c)
  BY <1>4, <1>a, <1>b, LateEffect DEF Refuses, BoomsUnopened, Opens, TogglesFlag
<1>5. QED
  BY <1>1, <1>2, <1>3, <1>4, PlayKinds

(* A number on the player's screen is the truth about the server's board,  *)
(* in spite of lost answers and of requests that are handled late.         *)
THEOREM PicturesAreTrue == PlaySpec => []PictureIsTrue
<1>1. PlayInit => PictureIsTrue
  BY DEF PlayInit, PictureIsTrue
<1>2. QED
  BY <1>1, NextPictureIsTrue, InitTInv, NextTInv, PTL DEF PlaySpec

(* PictureDiffersByLosses, for one cell.                                   *)
FlagExplained(c) ==
    (picture[c].state = "flagged") # (c \in board.flagged)
        => \E r \in lost : r.endpoint = "cell/flag" /\ r.at = c

RevealExplained(c) ==
    c \in board.revealed
        => \/ picture[c].state \in {"revealed", "boom"}
           \/ \E r \in lost : r.endpoint \in {"cell/reveal", "cell/check"}

LEMMA NextExplained ==
    ASSUME TInv, [PlayNext]_playVars, NEW c \in Cells, FlagExplained(c), RevealExplained(c)
    PROVE  FlagExplained(c)' /\ RevealExplained(c)'
<1> USE DEF FlagExplained, RevealExplained
<1>1. CASE Quiet
  BY <1>1 DEF Quiet
<1>2. CASE CellsAnswered
  <2> USE DEF Refuses, BoomsUnopened, Opens, Enterable
  <2>1. lost' = lost
    BY <1>2 DEF CellsAnswered
  <2>2. CASE Refuses /\ picture' = picture
    BY <2>1, <2>2
  <2>3. CASE /\ BoomsUnopened(cursor) \/ Opens(pc)
             /\ IF c \in reply'.cells THEN picture'[c].state \in {"boom", "revealed"}
                                      ELSE picture'[c] = picture[c]
    BY <2>1, <2>3
  <2>4. QED
    BY <1>2, <2>2, <2>3, CellsAnsweredEffect DEF CellsEffect
<1>3. CASE FlagAnswered
  <2>1. lost' = lost
    BY <1>3, FlagAnsweredEffect
  <2>2. CASE Refuses /\ picture' = picture
    BY <2>1, <2>2 DEF Refuses
  <2>3. CASE c # cursor /\ TogglesFlag("cell/flag", cursor) /\ picture'[c] = picture[c]
    BY <2>1, <2>3 DEF TogglesFlag
  <2>4. CASE /\ c = cursor /\ TogglesFlag("cell/flag", cursor)
             /\ picture'[c].state = IF c \in board.flagged THEN "hidden" ELSE "flagged"
    BY <2>1, <2>4 DEF TogglesFlag
  <2>5. QED
    BY <1>3, <2>2, <2>3, <2>4, FlagAnsweredEffect DEF FlagEffect
<1>4. ASSUME NEW r \in late, LateArrives(r)
      PROVE  FlagExplained(c)' /\ RevealExplained(c)'
  <2>1. r \in lost /\ picture' = picture /\ lost' = lost
    BY <1>4, LateEffect
  <2>2. CASE Refuses \/ BoomsUnopened(r.at)
    BY <2>1, <2>2 DEF Refuses, BoomsUnopened
  <2>3. CASE Opens(r.endpoint)
    BY <2>1, <2>3 DEF Opens
  <2>4. CASE TogglesFlag(r.endpoint, r.at)
    BY <2>1, <2>4 DEF TogglesFlag
  <2>5. QED
    BY <1>4, <2>2, <2>3, <2>4, LateEffect
<1>5. QED
  BY <1>1, <1>2, <1>3, <1>4, PlayKinds

(* Where the picture and the board disagree, the client has given up a      *)
(* request that explains it.                                               *)
THEOREM LossesExplainDifferences == PlaySpec => []PictureDiffersByLosses
<1>1. PlayInit => PictureDiffersByLosses
  BY DEF PlayInit, Init, FreshBoard, PictureDiffersByLosses
<1>2. TInv /\ PictureDiffersByLosses /\ [PlayNext]_playVars => PictureDiffersByLosses'
  <2> SUFFICES ASSUME TInv, PictureDiffersByLosses, [PlayNext]_playVars, NEW c \in Cells
               PROVE  FlagExplained(c)' /\ RevealExplained(c)'
    BY DEF PictureDiffersByLosses, FlagExplained, RevealExplained
  <2>1. FlagExplained(c) /\ RevealExplained(c)
    BY DEF PictureDiffersByLosses, FlagExplained, RevealExplained
  <2>2. QED
    BY <2>1, NextExplained
<1>3. QED
  BY <1>1, <1>2, InitTInv, NextTInv, PTL DEF PlaySpec

-----------------------------------------------------------------------------
(* The end of the game, as the player sees it                              *)

LostChordOrFlag == \E r \in lost : r.endpoint \in {"cell/check", "cell/flag"}

(* What holds as long as nothing, or no chord and no flag, has been lost.   *)
EndInv ==
    /\ lost = {} => boomed = FALSE \/ popup = "boom"
    /\ popup = "boom" => pc = "over"
    /\ popup = "lose" => LostChordOrFlag
    /\ ~LostChordOrFlag /\ pc # "over" => board.mines \cap board.revealed = {}
    /\ ~LostChordOrFlag /\ pc = "board/check" => Solved

SolvedSeen ==
    lost = {} /\ Solved => pc \in {"flag_bombs", "board/fully_revealed", "board/check", "over"}

LEMMA SolvedIsFinished ==
    ASSUME TypeOK, Solved
    PROVE  FullyRevealed(board) /\ Checkable(board) /\ NoBadMine(board) /\ Enterable(board) = {}
<1>1. Cells \ board.revealed = board.mines
  BY DEF Solved, TypeOK, Boards
<1>2. QED
  BY <1>1 DEF Solved, FullyRevealed, Checkable, NoBadMine, UnrevealedCount, BombsTotal, FlagsCount, Enterable

LEMMA InitEnd == PlayInit => EndInv /\ SolvedSeen
<1> SUFFICES ASSUME PlayInit PROVE EndInv /\ SolvedSeen
  OBVIOUS
<1>1. board.flagged = {} /\ board.revealed = {}
  BY DEF PlayInit, Init, FreshBoard
<1>2. <<1, 1>> \in Cells
  BY BoardAssumption DEF Cells
<1>3. ~Solved
  BY <1>1, <1>2 DEF Solved
<1>4. QED
  BY <1>1, <1>3 DEF PlayInit, Init, EndInv, SolvedSeen

LEMMA NextEnd == TInv /\ EndInv /\ SolvedSeen /\ [PlayNext]_playVars => EndInv' /\ SolvedSeen'
<1> SUFFICES ASSUME TInv, EndInv, SolvedSeen, [PlayNext]_playVars PROVE EndInv' /\ SolvedSeen'
  OBVIOUS
<1> USE DEF EndInv, SolvedSeen, LostChordOrFlag
<1>1. TypeOK /\ FlagDiscipline
  BY DEF TInv, ClientTypeOK
<1>2. CASE UNCHANGED playVars
  BY <1>2 DEF playVars, vars, clientVars, Solved
<1>3. ASSUME NEW d \in Arrows, MoveCursor(d) PROVE EndInv' /\ SolvedSeen'
  BY <1>3 DEF MoveCursor, vars, Solved
<1>4. ASSUME NEW e \in CellRequests, Press(e) PROVE EndInv' /\ SolvedSeen'
  BY <1>4 DEF Press, vars, Solved, CellRequests
<1>5. CASE Quit \/ SessionStarted \/ BombsAnswered
  BY <1>5 DEF Quit, SessionStarted, BombsAnswered, vars, Solved
<1>6. CASE GiveUp
  <2> DEFINE request == [nr |-> Cardinality(lost) + 1, endpoint |-> pc, at |-> cursor]
  <2>1. lost' = lost \cup {request} /\ pc # "over" /\ UNCHANGED <<board, boomed, popup>>
    BY <1>6 DEF GiveUp, vars, Asking, CellRequests
  <2>2. pc' # "board/check"
    BY <1>6 DEF GiveUp, AfterFailure
  <2>3. request \in lost' /\ lost \subseteq lost'
    BY <2>1
  <2> HIDE DEF request
  <2>4. QED
    BY <2>1, <2>2, <2>3 DEF Solved
<1>7. CASE CellsAnswered
  <2>1. lost' = lost /\ pc \in {"cell/reveal", "cell/check"}
    BY <1>7 DEF CellsAnswered
  <2>2. CASE Refuses /\ pc' = "idle" /\ popup' = popup
    BY <2>1, <2>2 DEF Refuses, Solved
  <2>3. CASE popup' = "boom" /\ pc' = "over"
    BY <2>1, <2>3
  <2>4. CASE Opens(pc) /\ reply'.outcome = "ok" /\ pc' = "board/fully_revealed" /\ popup' = popup
    <3>1. /\ board'.mines \cap board'.revealed = board.mines \cap board.revealed
          /\ boomed' = boomed
      BY <2>4 DEF Opens
    <3>2. QED
      BY <2>1, <2>4, <3>1
  <2>5. QED
    BY <1>7, <2>2, <2>3, <2>4, CellsAnsweredEffect DEF CellsEffect
<1>8. CASE FlagAnswered
  <2>1. lost' = lost /\ popup' = popup /\ pc = "cell/flag"
    BY <1>8, FlagAnsweredEffect
  <2>2. CASE Refuses /\ pc' = "idle"
    BY <2>1, <2>2 DEF Refuses, Solved
  <2>3. CASE TogglesFlag("cell/flag", cursor) /\ pc' = "flag_bombs"
    BY <2>1, <2>3 DEF TogglesFlag
  <2>4. QED
    BY <1>8, <2>2, <2>3, FlagAnsweredEffect DEF FlagEffect
<1>9. CASE FullyRevealedAnswered
  <2>1. /\ UNCHANGED <<board, boomed, popup, lost>> /\ pc = "board/fully_revealed"
        /\ pc' = IF FullyRevealed(board) THEN "board/check" ELSE "idle"
    BY <1>9 DEF FullyRevealedAnswered, BoardFullyRevealed, AnswerOnly, Answer
  <2>2. FullyRevealedMeansSolved
    BY <1>1, FullyRevealedIsSolved
  <2>3. Solved => FullyRevealed(board)
    BY <1>1, SolvedIsFinished
  <2>4. QED
    BY <2>1, <2>2, <2>3 DEF FullyRevealedMeansSolved, Solved
<1>10. CASE CheckAnswered
  <2>1. /\ UNCHANGED <<board, boomed, lost>> /\ pc = "board/check"
        /\ IF Checkable(board)
           THEN reply'.outcome = IF NoBadMine(board) THEN "win" ELSE "lose"
           ELSE reply'.outcome = "unrevealed_left"
        /\ Refused \/ VerdictShown
    BY <1>10 DEF CheckAnswered, BoardCheck, AnswerOnly, Answer
  <2>2. Solved => Checkable(board) /\ NoBadMine(board)
    BY <1>1, SolvedIsFinished
  <2>3. CASE Refused
    BY <2>1, <2>2, <2>3 DEF Refused, Refusals, Solved
  <2>4. CASE VerdictShown
    BY <2>1, <2>2, <2>4 DEF VerdictShown
  <2>5. QED
    BY <2>1, <2>3, <2>4
<1>11. ASSUME NEW r \in late, LateArrives(r) PROVE EndInv' /\ SolvedSeen'
  <2>1. r \in lost /\ UNCHANGED <<lost, pc, popup>>
    BY <1>11, LateEffect
  <2>2. CASE Refuses \/ BoomsUnopened(r.at)
    BY <2>1, <2>2 DEF Refuses, BoomsUnopened, Solved
  <2>3. CASE Opens(r.endpoint) /\ r.endpoint = "cell/check"
    BY <2>1, <2>3
  <2>4. CASE Opens(r.endpoint) /\ r.endpoint = "cell/reveal"
    <3>1. board'.mines \cap board'.revealed = board.mines \cap board.revealed
      BY <2>4 DEF Opens
    <3>2. Solved => Solved'
      BY <1>1, <2>4, SolvedIsFinished DEF Opens, Solved
    <3>3. QED
      BY <2>1, <3>1, <3>2
  <2>5. CASE TogglesFlag(r.endpoint, r.at)
    BY <2>1, <2>5 DEF TogglesFlag
  <2>6. QED
    BY <1>11, <2>2, <2>3, <2>4, <2>5, LateEffect DEF Opens
<1>12. QED
  BY <1>2, <1>3, <1>4, <1>5, <1>6, <1>7, <1>8, <1>9, <1>10, <1>11 DEF PlayNext

LEMMA EndInvariance == PlaySpec => []EndInv /\ []SolvedSeen
BY InitEnd, NextEnd, InitTInv, NextTInv, PTL DEF PlaySpec

(* A player who has lost nothing and is shown a win has boomed no mine: the *)
(* client keeps the promise of server_api.md that the server alone does not. *)
THEOREM WinsShownAreClean == PlaySpec => []WinShownMeansNoBoom
<1>1. EndInv => WinShownMeansNoBoom
  BY DEF EndInv, WinShownMeansNoBoom
<1>2. QED
  BY <1>1, EndInvariance, PTL

(* The verdict "lose" of board/check reaches only a player who has given up *)
(* a chord or a flag.                                                      *)
THEOREM LosesShownAreLosses == PlaySpec => []LoseShownAfterLossOnly
<1>1. EndInv => LoseShownAfterLossOnly
  BY DEF EndInv, LostChordOrFlag, LoseShownAfterLossOnly
<1>2. QED
  BY <1>1, EndInvariance, PTL

(* A player who has lost nothing never sits before a solved board without  *)
(* knowing.                                                                *)
THEOREM EndsAreNoticed == PlaySpec => []EndIsNoticed
<1>1. SolvedSeen => EndIsNoticed
  BY DEF SolvedSeen, EndIsNoticed
<1>2. QED
  BY <1>1, EndInvariance, PTL
=============================================================================
