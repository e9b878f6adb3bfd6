------------------------- MODULE HandlerStepsProofs ------------------------
(* Theorems about HandlerSteps.tla: for a board of any size and any number *)
(* of workers, what survives two requests at a time.                       *)
EXTENDS HandlerSteps, BoardProofs, SequenceTheorems

-----------------------------------------------------------------------------
(* Sequences of cells, and the cells in them                               *)

LEMMA HeadAndTail ==
    ASSUME NEW S, NEW s \in Seq(S), s # <<>>
    PROVE  /\ Head(s) \in S
           /\ Tail(s) \in Seq(S)
           /\ Range(s) = {Head(s)} \cup Range(Tail(s))
<1>1. Head(s) \in S /\ Tail(s) \in Seq(S)
  BY HeadTailProperties
<1>2. /\ Len(s) \in Nat \ {0} /\ Head(s) = s[1]
      /\ Len(Tail(s)) = Len(s) - 1
      /\ \A i \in 1..Len(Tail(s)) : Tail(s)[i] = s[i + 1]
  BY EmptySeq, HeadTailProperties
<1>3. /\ Range(s) = {s[i] : i \in 1..Len(s)}
      /\ Range(Tail(s)) = {Tail(s)[i] : i \in 1..Len(Tail(s))}
  BY <1>1, RangeEquality
<1>4. Range(s) \subseteq {Head(s)} \cup Range(Tail(s))
  <2>1. SUFFICES ASSUME NEW i \in 1..Len(s), i # 1
                 PROVE  s[i] \in Range(Tail(s))
    BY <1>2, <1>3
  <2>2. i - 1 \in 1..Len(Tail(s)) /\ Tail(s)[i - 1] = s[i]
    BY <1>2, <2>1
  <2>3. QED
    BY <1>3, <2>2
<1>5. {Head(s)} \cup Range(Tail(s)) \subseteq Range(s)
  <2>1. ASSUME NEW i \in 1..Len(Tail(s))
        PROVE  Tail(s)[i] \in Range(s)
    <3>1. i + 1 \in 1..Len(s)
      BY <1>2
    <3>2. QED
      BY <1>2, <1>3, <3>1
  <2>2. QED
    BY <1>2, <1>3, <2>1
<1>6. QED
  BY <1>1, <1>4, <1>5

LEMMA OneCell ==
    ASSUME NEW S, NEW e \in S
    PROVE  <<e>> \in Seq(S) /\ <<e>> # <<>> /\ Range(<<e>>) = {e}
<1>1. <<e>> \in Seq(S) /\ Len(<<e>>) = 1 /\ <<e>>[1] = e
  OBVIOUS
<1>2. Range(<<e>>) = {<<e>>[i] : i \in 1..1}
  BY <1>1, RangeEquality
<1>3. QED
  BY <1>1, <1>2

LEMMA NoCell ==
    ASSUME NEW S
    PROVE  <<>> \in Seq(S) /\ Range(<<>>) = {}
<1>1. <<>> \in Seq(S) /\ Len(<<>>) = 0
  BY EmptySeq
<1>2. Range(<<>>) = {<<>>[i] : i \in 1..0}
  BY <1>1, RangeEquality
<1>3. QED
  BY <1>1, <1>2

LEMMA OneMore ==
    ASSUME NEW S, NEW s \in Seq(S), NEW e \in S
    PROVE  Append(s, e) \in Seq(S) /\ Range(Append(s, e)) = Range(s) \cup {e}
<1>1. Append(s, e) \in Seq(S) /\ Append(s, e) = s \o <<e>>
  BY AppendProperties, AppendIsConcat
<1>2. <<e>> \in Seq(S) /\ Range(<<e>>) = {e}
  BY OneCell
<1>3. Range(s \o <<e>>) = Range(s) \cup Range(<<e>>)
  BY <1>2, RangeConcatenation
<1>4. QED
  BY <1>1, <1>2, <1>3

-----------------------------------------------------------------------------
(* board_t::neighbors                                                      *)

LEMMA UnlessCells ==
    ASSUME NEW x \in Int, NEW y \in Int, NEW visited
    PROVE  /\ Unless(x, y, visited) \in Seq(Cells)
           /\ Range(Unless(x, y, visited)) = {n \in Cells : n = <<x, y>>} \ visited
<1>1. CASE IsValid(x, y) /\ <<x, y>> \notin visited
  BY <1>1, OneCell DEF Unless, IsValid
<1>2. CASE ~(IsValid(x, y) /\ <<x, y>> \notin visited)
  <2>1. Unless(x, y, visited) = <<>>
    BY <1>2 DEF Unless
  <2>2. {n \in Cells : n = <<x, y>>} \ visited = {}
    BY <1>2 DEF IsValid
  <2>3. QED
    BY <2>1, <2>2, NoCell
<1>3. QED
  BY <1>1, <1>2

LEMMA Joined ==
    ASSUME NEW s \in Seq(Cells), NEW t \in Seq(Cells)
    PROVE  s \o t \in Seq(Cells) /\ Range(s \o t) = Range(s) \cup Range(t)
BY ConcatProperties, RangeConcatenation

(* The eight differences of a cell and its neighbour.                      *)
LEMMA NeighborsAreEight ==
    ASSUME NEW c \in Cells, NEW n \in Cells
    PROVE  n \in Neighbors[c] <=>
               \/ n = <<c[1] - 1, c[2] - 1>> \/ n = <<c[1], c[2] - 1>> \/ n = <<c[1] + 1, c[2] - 1>>
               \/ n = <<c[1] - 1, c[2]>> \/ n = <<c[1] + 1, c[2]>>
               \/ n = <<c[1] - 1, c[2] + 1>> \/ n = <<c[1], c[2] + 1>> \/ n = <<c[1] + 1, c[2] + 1>>
<1>1. /\ c[1] \in Int /\ c[2] \in Int /\ c = <<c[1], c[2]>>
      /\ n[1] \in Int /\ n[2] \in Int /\ n = <<n[1], n[2]>>
  BY BoardAssumption DEF Cells
<1>2. n \in Neighbors[c] <=> n # c /\ n[1] - c[1] \in -1..1 /\ n[2] - c[2] \in -1..1
  BY DEF Neighbors
<1>3. n # c <=> n[1] # c[1] \/ n[2] # c[2]
  BY <1>1
<1>4. ASSUME NEW x \in Int, NEW y \in Int
      PROVE  n = <<x, y>> <=> n[1] = x /\ n[2] = y
  BY <1>1
<1>5. n \in Neighbors[c] <=>
          \/ n[1] = c[1] - 1 /\ n[2] = c[2] - 1
          \/ n[1] = c[1] /\ n[2] = c[2] - 1
          \/ n[1] = c[1] + 1 /\ n[2] = c[2] - 1
          \/ n[1] = c[1] - 1 /\ n[2] = c[2]
          \/ n[1] = c[1] + 1 /\ n[2] = c[2]
          \/ n[1] = c[1] - 1 /\ n[2] = c[2] + 1
          \/ n[1] = c[1] /\ n[2] = c[2] + 1
          \/ n[1] = c[1] + 1 /\ n[2] = c[2] + 1
  BY <1>1, <1>2, <1>3
<1>6. c[1] - 1 \in Int /\ c[1] + 1 \in Int /\ c[2] - 1 \in Int /\ c[2] + 1 \in Int
  BY <1>1
<1>7. /\ n = <<c[1] - 1, c[2] - 1>> <=> n[1] = c[1] - 1 /\ n[2] = c[2] - 1
      /\ n = <<c[1], c[2] - 1>> <=> n[1] = c[1] /\ n[2] = c[2] - 1
      /\ n = <<c[1] + 1, c[2] - 1>> <=> n[1] = c[1] + 1 /\ n[2] = c[2] - 1
      /\ n = <<c[1] - 1, c[2]>> <=> n[1] = c[1] - 1 /\ n[2] = c[2]
      /\ n = <<c[1] + 1, c[2]>> <=> n[1] = c[1] + 1 /\ n[2] = c[2]
      /\ n = <<c[1] - 1, c[2] + 1>> <=> n[1] = c[1] - 1 /\ n[2] = c[2] + 1
      /\ n = <<c[1], c[2] + 1>> <=> n[1] = c[1] /\ n[2] = c[2] + 1
      /\ n = <<c[1] + 1, c[2] + 1>> <=> n[1] = c[1] + 1 /\ n[2] = c[2] + 1
  BY <1>1, <1>6, <1>4
<1>8. QED
  BY <1>5, <1>7

(* The list that the flood fill goes on with holds the unvisited neighbours *)
(* of the cell and nothing else.                                           *)
LEMMA NeighborsExceptVisited ==
    ASSUME NEW c \in Cells, NEW visited
    PROVE  /\ NeighborsExcept(c, visited) \in Seq(Cells)
           /\ Range(NeighborsExcept(c, visited)) = Neighbors[c] \ visited
<1> DEFINE U(x, y) == Unless(x, y, visited)
           R(x, y) == {n \in Cells : n = <<x, y>>} \ visited
<1>1. /\ c[1] \in Int /\ c[2] \in Int
      /\ c[1] - 1 \in Int /\ c[1] + 1 \in Int /\ c[2] - 1 \in Int /\ c[2] + 1 \in Int
  BY BoardAssumption DEF Cells
<1>2. \A x \in Int, y \in Int : U(x, y) \in Seq(Cells) /\ Range(U(x, y)) = R(x, y)
  BY UnlessCells
<1> HIDE DEF U
<1> DEFINE s1 == U(c[1] - 1, c[2] - 1)
           s2 == s1 \o U(c[1], c[2] - 1)
           s3 == s2 \o U(c[1] + 1, c[2] - 1)
           s4 == s3 \o U(c[1] - 1, c[2])
           s5 == s4 \o U(c[1] + 1, c[2])
           s6 == s5 \o U(c[1] - 1, c[2] + 1)
           s7 == s6 \o U(c[1], c[2] + 1)
           s8 == s7 \o U(c[1] + 1, c[2] + 1)
<1>3. s1 \in Seq(Cells) /\ Range(s1) = R(c[1] - 1, c[2] - 1)
  BY <1>1, <1>2
<1>4. s2 \in Seq(Cells) /\ Range(s2) = Range(s1) \cup R(c[1], c[2] - 1)
  <2>1. U(c[1], c[2] - 1) \in Seq(Cells) /\ Range(U(c[1], c[2] - 1)) = R(c[1], c[2] - 1)
    BY <1>1, <1>2
  <2> HIDE DEF s1, R
  <2>2. QED
    BY <1>3, <2>1, Joined
<1>5. s3 \in Seq(Cells) /\ Range(s3) = Range(s2) \cup R(c[1] + 1, c[2] - 1)
  <2>1. U(c[1] + 1, c[2] - 1) \in Seq(Cells) /\ Range(U(c[1] + 1, c[2] - 1)) = R(c[1] + 1, c[2] - 1)
    BY <1>1, <1>2
  <2> HIDE DEF s2, R
  <2>2. QED
    BY <1>4, <2>1, Joined
<1>6. s4 \in Seq(Cells) /\ Range(s4) = Range(s3) \cup R(c[1] - 1, c[2])
  <2>1. U(c[1] - 1, c[2]) \in Seq(Cells) /\ Range(U(c[1] - 1, c[2])) = R(c[1] - 1, c[2])
    BY <1>1, <1>2
  <2> HIDE DEF s3, R
  <2>2. QED
    BY <1>5, <2>1, Joined
<1>7. s5 \in Seq(Cells) /\ Range(s5) = Range(s4) \cup R(c[1] + 1, c[2])
  <2>1. U(c[1] + 1, c[2]) \in Seq(Cells) /\ Range(U(c[1] + 1, c[2])) = R(c[1] + 1, c[2])
    BY <1>1, <1>2
  <2> HIDE DEF s4, R
  <2>2. QED
    BY <1>6, <2>1, Joined
<1>8. s6 \in Seq(Cells) /\ Range(s6) = Range(s5) \cup R(c[1] - 1, c[2] + 1)
  <2>1. U(c[1] - 1, c[2] + 1) \in Seq(Cells) /\ Range(U(c[1] - 1, c[2] + 1)) = R(c[1] - 1, c[2] + 1)
    BY <1>1, <1>2
  <2> HIDE DEF s5, R
  <2>2. QED
    BY <1>7, <2>1, Joined
<1>9. s7 \in Seq(Cells) /\ Range(s7) = Range(s6) \cup R(c[1], c[2] + 1)
  <2>1. U(c[1], c[2] + 1) \in Seq(Cells) /\ Range(U(c[1], c[2] + 1)) = R(c[1], c[2] + 1)
    BY <1>1, <1>2
  <2> HIDE DEF s6, R
  <2>2. QED
    BY <1>8, <2>1, Joined
<1>10. s8 \in Seq(Cells) /\ Range(s8) = Range(s7) \cup R(c[1] + 1, c[2] + 1)
  <2>1. U(c[1] + 1, c[2] + 1) \in Seq(Cells) /\ Range(U(c[1] + 1, c[2] + 1)) = R(c[1] + 1, c[2] + 1)
    BY <1>1, <1>2
  <2> HIDE DEF s7, R
  <2>2. QED
    BY <1>9, <2>1, Joined
<1>11. NeighborsExcept(c, visited) = s8
  BY DEF NeighborsExcept, U
<1>12. Range(s8) = Neighbors[c] \ visited
  <2> HIDE DEF s1, s2, s3, s4, s5, s6, s7, s8
  <2>1. Range(s8) = UNION {R(c[1] - 1, c[2] - 1), R(c[1], c[2] - 1), R(c[1] + 1, c[2] - 1),
                           R(c[1] - 1, c[2]), R(c[1] + 1, c[2]),
                           R(c[1] - 1, c[2] + 1), R(c[1], c[2] + 1), R(c[1] + 1, c[2] + 1)}
    <3> HIDE DEF R
    <3>1. QED
      BY <1>3, <1>4, <1>5, <1>6, <1>7, <1>8, <1>9, <1>10
  <2>2. QED
    BY <2>1, NeighborsAreEight, NeighborCells
<1>13. QED
  BY <1>10, <1>11, <1>12

-----------------------------------------------------------------------------
(* What a worker's local variables are like at each point of a handler     *)

FloodLabels == {"flood: is_flag", "flood: is_revealed", "flood: set_revealed"}
ChordLabels == {"check: neighbor is_revealed", "check: neighbor is_flag"}
CheckLabels == {"check: is_revealed", "check: neighbor_flags_count"} \cup ChordLabels

Labels == {"idle", "reveal: is_flag",
           "flag: is_revealed", "flag: is_flag", "flag: flags_count",
           "toggle_flag: load", "toggle_flag: store", "flag: answer",
           "board/check: unrevealed_count", "board/check: is_flag", "board/check: is_revealed",
           "fully_revealed: unrevealed_count", "fully_revealed: flags_count"}
              \cup CheckLabels \cup FloodLabels

Endpoints == {"session/new", "cell/reveal", "cell/flag", "cell/check",
              "board/check", "board/fully_revealed"}

Locals == [pc : Labels, endpoint : Endpoints, c : Cells, k : Nat, tally : Nat, old : BOOLEAN,
           seeds : Seq(Cells), todo : Seq(Cells), queue : Seq(Cells),
           visited : SUBSET Cells, found : SUBSET Cells]

JobOK(j) ==
    /\ j.pc \in CheckLabels => j.endpoint = "cell/check"
    /\ j.pc \in {"flood: is_revealed", "flood: set_revealed"} => j.todo # <<>>
    /\ j.pc = "check: neighbor is_flag" => j.seeds # <<>>
    /\ j.pc \notin FloodLabels => j.todo = <<>> /\ j.queue = <<>>
    /\ j.pc \notin FloodLabels \cup ChordLabels => j.found = {}

Typed ==
    /\ board \in Boards
    /\ job \in [Workers -> Locals]
    /\ told \in SUBSET Cells
    /\ everFlagged \in SUBSET Cells
    /\ boomed \in BOOLEAN

JobsOK == \A w \in Workers : JobOK(job[w])

(* The seven kinds of steps: worker w goes on with the locals l ...         *)
Becomes(w, l) ==
    /\ w \in Workers
    /\ l \in Locals
    /\ JobOK(l)
    /\ job' = [job EXCEPT ![w] = l]

SameFlood(w, l) ==
    /\ l.found = job[w].found
    /\ l.endpoint = job[w].endpoint
    /\ l.visited = job[w].visited
    /\ job[w].pc \in FloodLabels

(* ... with no access that matters to the others, ...                       *)
Locally(w, l) ==
    /\ Becomes(w, l)
    /\ UNCHANGED <<board, told, boomed, everFlagged>>
    /\ l.found = job[w].found /\ l.todo = job[w].todo /\ l.queue = job[w].queue
    /\ l.endpoint = job[w].endpoint \/ (l.found = {} /\ l.todo = <<>>)
    /\ l.pc \in FloodLabels => job[w].pc \in FloodLabels /\ l.visited = job[w].visited

(* ... into reveal_cells, ...                                               *)
Starts(w, l) ==
    /\ Becomes(w, l)
    /\ UNCHANGED <<board, told, boomed, everFlagged>>
    /\ job[w].todo = <<>> /\ job[w].queue = <<>> /\ l.queue = <<>>
    /\ l.found = job[w].found /\ l.endpoint = job[w].endpoint
    /\ \E c \in Cells : /\ l.todo = <<c>> /\ l.visited = {c}
                        /\ c \in board.mines => l.endpoint = "cell/check"

(* ... past a cell that is not entered, ...                                 *)
Skips(w, l) ==
    /\ Becomes(w, l)
    /\ UNCHANGED <<board, told, boomed, everFlagged>>
    /\ SameFlood(w, l)
    /\ job[w].todo # <<>> /\ l.todo = Tail(job[w].todo) /\ l.queue = job[w].queue
    /\ Head(job[w].todo) \in board.flagged \cup board.revealed

(* ... after it has revealed a cell, ...                                    *)
Reveals(w, l) ==
    LET n == Head(job[w].todo) IN
    /\ Becomes(w, l)
    /\ board' = RevealAll(board, {n})
    /\ everFlagged' = everFlagged \ {n}
    /\ UNCHANGED <<told, boomed>>
    /\ l.endpoint = job[w].endpoint /\ l.visited = job[w].visited
    /\ job[w].pc \in FloodLabels
    /\ job[w].todo # <<>> /\ l.todo = Tail(job[w].todo)
    /\ l.found = job[w].found \cup {n}
    /\ l.queue = IF NeighborBombsCount(board, n) = 0 THEN Append(job[w].queue, n) ELSE job[w].queue

(* ... to the neighbours of the cell at the head of its queue, ...          *)
Pops(w, l) ==
    LET z == Head(job[w].queue) IN
    /\ Becomes(w, l)
    /\ UNCHANGED <<board, told, boomed, everFlagged>>
    /\ l.found = job[w].found /\ l.endpoint = job[w].endpoint
    /\ job[w].pc \in FloodLabels
    /\ job[w].todo = <<>> /\ job[w].queue # <<>>
    /\ l.todo = NeighborsExcept(z, job[w].visited) /\ l.queue = Tail(job[w].queue)
    /\ l.visited = job[w].visited \cup Neighbors[z]

(* ... to its next request, with an answer that tells what it has found, ... *)
Answers(w, l) ==
    /\ Becomes(w, l)
    /\ l = Idle
    /\ job[w].todo = <<>> /\ job[w].queue = <<>>
    /\ told' = IF KeepHistory THEN told \cup job[w].found ELSE told
    /\ boomed' \in BOOLEAN
    /\ boomed \/ job[w].found \cap board.mines # {} => boomed'
    /\ UNCHANGED <<board, everFlagged>>

(* ... or after the store of toggle_flag.                                   *)
Toggles(w, l) ==
    /\ Becomes(w, l)
    /\ l.found = job[w].found /\ l.todo = job[w].todo /\ l.queue = job[w].queue
    /\ l.endpoint = job[w].endpoint /\ l.pc \notin FloodLabels
    /\ board' \in Boards
    /\ board'.mines = board.mines /\ board'.revealed = board.revealed
    /\ everFlagged' = IF KeepHistory THEN everFlagged \cup (board'.flagged \ board.revealed)
                                     ELSE everFlagged
    /\ UNCHANGED <<told, boomed>>

Moves(w, l) ==
    \/ Locally(w, l) \/ Starts(w, l) \/ Skips(w, l) \/ Reveals(w, l)
    \/ Pops(w, l) \/ Answers(w, l) \/ Toggles(w, l)

Moved == \E w \in Workers, l \in Locals : Moves(w, l)

LEMMA IdleIsLocal == Idle \in Locals /\ JobOK(Idle)
<1>1. <<1, 1>> \in Cells
  BY BoardAssumption DEF Cells
<1>2. <<>> \in Seq(Cells)
  BY NoCell
<1>3. Idle \in Locals
  <2>1. ASSUME NEW p \in Labels, NEW e \in Endpoints, NEW c \in Cells, NEW k \in Nat, NEW t \in Nat,
               NEW o \in BOOLEAN, NEW s \in Seq(Cells), NEW v \in SUBSET Cells
        PROVE  [pc |-> p, endpoint |-> e, c |-> c, k |-> k, tally |-> t, old |-> o,
                seeds |-> s, todo |-> s, queue |-> s, visited |-> v, found |-> v] \in Locals
    BY DEF Locals
  <2>2. 1 \in Nat /\ 0 \in Nat /\ {} \in SUBSET Cells /\ FALSE \in BOOLEAN
    OBVIOUS
  <2>3. "idle" \in Labels /\ "session/new" \in Endpoints
    BY DEF Labels, Endpoints
  <2>4. QED
    BY <1>1, <1>2, <2>1, <2>2, <2>3, Zenon DEF Idle
<1>4. /\ Idle.pc = "idle" /\ Idle.todo = <<>> /\ Idle.queue = <<>> /\ Idle.found = {}
      /\ "idle" \notin CheckLabels \cup FloodLabels
  BY DEF Idle, FloodLabels, ChordLabels, CheckLabels
<1>5. JobOK(Idle)
  BY <1>4 DEF JobOK, FloodLabels, ChordLabels, CheckLabels
<1>6. QED
  BY <1>3, <1>5

LEMMA SendMoves ==
    ASSUME Typed, JobsOK, NEW w \in Workers, NEW outcome, NEW cells,
           job[w].todo = <<>>, job[w].queue = <<>>, UNCHANGED board,
           Send(w, outcome, cells, job[w].found),
           job[w].found \cap board.mines # {} => outcome = "boom"
    PROVE  Moved
<1>1. Becomes(w, Idle)
  BY IdleIsLocal DEF Send, Becomes
<1>2. boomed' \in BOOLEAN /\ (boomed \/ job[w].found \cap board.mines # {} => boomed')
  BY DEF Send, Typed
<1>3. Answers(w, Idle)
  BY <1>1, <1>2 DEF Answers, Send
<1>4. QED
  BY <1>3, IdleIsLocal DEF Moved, Moves

LEMMA RefuseMoves ==
    ASSUME Typed, JobsOK, NEW w \in Workers, NEW outcome, NEW cells,
           job[w].pc \notin FloodLabels \cup ChordLabels, UNCHANGED board,
           Send(w, outcome, cells, {})
    PROVE  Moved
<1>1. job[w].todo = <<>> /\ job[w].queue = <<>> /\ job[w].found = {}
  BY DEF JobsOK, JobOK
<1>2. QED
  BY <1>1, SendMoves

(* A step that changes pc, the loop's variables or `old` only, outside of   *)
(* reveal_cells.                                                           *)
LEMMA LocalMoves ==
    ASSUME Typed, JobsOK, NEW w \in Workers, NEW l \in Locals,
           UNCHANGED board, Continue(w, l),
           JobOK(l), l.endpoint = job[w].endpoint,
           l.found = job[w].found, l.todo = job[w].todo, l.queue = job[w].queue,
           l.pc \in FloodLabels => job[w].pc \in FloodLabels /\ l.visited = job[w].visited
    PROVE  Moved
<1>1. Locally(w, l)
  BY DEF Locally, Becomes, Continue
<1>2. QED
  BY <1>1 DEF Moved, Moves

LEMMA GotoMoves ==
    ASSUME Typed, JobsOK, NEW w \in Workers, NEW label \in Labels,
           job[w].pc \notin FloodLabels \cup ChordLabels,
           label \notin FloodLabels \cup ChordLabels,
           label \in CheckLabels => job[w].pc \in CheckLabels,
           UNCHANGED board, Goto(w, label)
    PROVE  Moved
<1> DEFINE l == [job[w] EXCEPT !.pc = label, !.k = 1, !.tally = 0]
<1>1. job[w] \in Locals /\ JobOK(job[w])
  BY DEF Typed, JobsOK
<1>2. l \in Locals
  BY <1>1 DEF Locals
<1>3. /\ l.pc = label /\ l.endpoint = job[w].endpoint /\ l.found = job[w].found
      /\ l.todo = job[w].todo /\ l.queue = job[w].queue
  BY <1>1 DEF Locals
<1>4. JobOK(l)
  BY <1>1, <1>3 DEF JobOK, FloodLabels, ChordLabels
<1>5. Continue(w, l)
  BY DEF Goto
<1>6. QED
  BY <1>2, <1>3, <1>4, <1>5, LocalMoves

LEMMA CountMoves ==
    ASSUME Typed, JobsOK, NEW w \in Workers, NEW label, NEW order, NEW counted,
           label \notin FloodLabels \cup ChordLabels,
           Count(w, label, order, counted)
    PROVE  Moved
<1> DEFINE l == [job[w] EXCEPT !.k = @ + 1,
                               !.tally = @ + IF order[job[w].k] \in counted THEN 1 ELSE 0]
<1>1. job[w] \in Locals /\ JobOK(job[w])
  BY DEF Typed, JobsOK
<1>2. l \in Locals
  <2>1. job[w].k + 1 \in Nat /\ job[w].tally + 0 \in Nat /\ job[w].tally + 1 \in Nat
    BY <1>1 DEF Locals
  <2>2. job[w].tally + (IF order[job[w].k] \in counted THEN 1 ELSE 0) \in Nat
    BY <2>1
  <2>3. QED
    BY <1>1, <2>1, <2>2 DEF Locals
<1>3. /\ l.pc = job[w].pc /\ l.endpoint = job[w].endpoint /\ l.found = job[w].found
      /\ l.todo = job[w].todo /\ l.queue = job[w].queue
  BY <1>1 DEF Locals
<1>4. JobOK(l)
  BY <1>1, <1>3 DEF JobOK, Count, FloodLabels, ChordLabels
<1>5. Continue(w, l) /\ UNCHANGED board /\ job[w].pc = label
  BY DEF Count
<1>6. QED
  BY <1>2, <1>3, <1>4, <1>5, LocalMoves

-----------------------------------------------------------------------------
(* Every step of a handler is of one of the seven kinds.                   *)

LEMMA TakeMoves ==
    ASSUME Typed, JobsOK, NEW w \in Workers, Take(w)
    PROVE  Moved
<1>1. job[w] \in Locals /\ JobOK(job[w]) /\ job[w].pc = "idle"
  BY DEF Typed, JobsOK, Take
<1>2. job[w].todo = <<>> /\ job[w].queue = <<>> /\ job[w].found = {}
  BY <1>1 DEF JobOK, FloodLabels, ChordLabels
<1>3. ASSUME NEW e \in Requested, NEW c \in Cells, UNCHANGED board,
             Continue(w, [Idle EXCEPT !.pc = FirstRead[e], !.endpoint = e, !.c = c])
      PROVE  Moved
  <2> DEFINE l == [Idle EXCEPT !.pc = FirstRead[e], !.endpoint = e, !.c = c]
  <2>1. /\ FirstRead[e] \in Labels \ (FloodLabels \cup ChordLabels) /\ e \in Endpoints
        /\ FirstRead[e] \in CheckLabels => e = "cell/check"
    BY RequestsAssumption DEF FirstRead, Labels, Endpoints, FloodLabels, ChordLabels, CheckLabels
  <2>2. l \in Locals
    BY <2>1, IdleIsLocal DEF Locals
  <2>3. /\ l.pc = FirstRead[e] /\ l.endpoint = e
        /\ l.todo = <<>> /\ l.queue = <<>> /\ l.found = {}
    BY IdleIsLocal DEF Locals, Idle
  <2>4. JobOK(l)
    BY <2>1, <2>3 DEF JobOK, FloodLabels, ChordLabels
  <2>5. Locally(w, l)
    BY <1>2, <1>3, <2>1, <2>2, <2>3, <2>4 DEF Locally, Becomes, Continue
  <2>6. QED
    BY <2>2, <2>5 DEF Moved, Moves
<1>4. ASSUME NEW e \in Requested, UNCHANGED board,
             Continue(w, [Idle EXCEPT !.pc = FirstRead[e], !.endpoint = e])
      PROVE  Moved
  <2>1. [Idle EXCEPT !.pc = FirstRead[e], !.endpoint = e]
            = [Idle EXCEPT !.pc = FirstRead[e], !.endpoint = e, !.c = Idle.c]
    BY IdleIsLocal DEF Locals
  <2>2. Idle.c \in Cells
    BY IdleIsLocal DEF Locals
  <2>3. QED
    BY <1>3, <1>4, <2>1, <2>2
<1>5. ASSUME UNCHANGED <<board, job, told, boomed, everFlagged>>
      PROVE  Moved
  <2>1. job' = [job EXCEPT ![w] = job[w]]
    BY <1>5 DEF Typed
  <2>2. Locally(w, job[w])
    BY <1>1, <1>5, <2>1 DEF Locally, Becomes
  <2>3. QED
    BY <1>1, <2>2 DEF Moved, Moves
<1>6. QED
  BY <1>3, <1>4, <1>5 DEF Take

LEMMA FloodMoves ==
    ASSUME Typed, JobsOK, NEW w \in Workers, Flood(w)
    PROVE  Moved
<1>1. job[w] \in Locals /\ JobOK(job[w])
  BY DEF Typed, JobsOK
<1>2. ASSUME job[w].todo # <<>>, job[w].pc \in FloodLabels, UNCHANGED board,
             Head(job[w].todo) \in board.flagged \cup board.revealed,
             NEW l, l = [job[w] EXCEPT !.pc = "flood: is_flag", !.todo = Tail(@)],
             Continue(w, l)
      PROVE  Moved
  <2>1. Tail(job[w].todo) \in Seq(Cells)
    BY <1>1, <1>2, HeadAndTail DEF Locals
  <2>2. l \in Locals
    BY <1>1, <1>2, <2>1 DEF Locals, Labels, FloodLabels
  <2>3. /\ l.pc = "flood: is_flag" /\ l.todo = Tail(job[w].todo) /\ l.queue = job[w].queue
        /\ l.found = job[w].found /\ l.endpoint = job[w].endpoint /\ l.visited = job[w].visited
    BY <1>1, <1>2 DEF Locals
  <2>4. JobOK(l)
    BY <2>3 DEF JobOK, FloodLabels, ChordLabels, CheckLabels
  <2>5. Skips(w, l)
    BY <1>2, <2>2, <2>3, <2>4 DEF Skips, Becomes, SameFlood, Continue
  <2>6. QED
    BY <2>2, <2>5 DEF Moved, Moves
<1>3. ASSUME NEW label \in FloodLabels, job[w].todo # <<>>, job[w].pc \in FloodLabels,
             UNCHANGED board,
             Continue(w, [job[w] EXCEPT !.pc = label])
      PROVE  Moved
  <2> DEFINE l == [job[w] EXCEPT !.pc = label]
  <2>1. l \in Locals
    BY <1>1 DEF Locals, Labels
  <2>2. /\ l.pc = label /\ l.todo = job[w].todo /\ l.queue = job[w].queue
        /\ l.found = job[w].found /\ l.endpoint = job[w].endpoint /\ l.visited = job[w].visited
    BY <1>1 DEF Locals
  <2>3. JobOK(l)
    BY <1>3, <2>2 DEF JobOK, FloodLabels, ChordLabels, CheckLabels
  <2>4. QED
    BY <1>3, <2>1, <2>2, <2>3, LocalMoves
<1>4. CASE FloodIsFlag(w)
  <2>1. job[w].pc = "flood: is_flag" /\ job[w].todo # <<>> /\ UNCHANGED board
    BY <1>4 DEF FloodIsFlag
  <2>2. CASE Head(job[w].todo) \in board.flagged
    <3>1. [job[w] EXCEPT !.todo = Tail(@)] = [job[w] EXCEPT !.pc = "flood: is_flag", !.todo = Tail(@)]
      BY <1>1, <2>1 DEF Locals
    <3>2. QED
      BY <1>2, <1>4, <2>1, <2>2, <3>1 DEF FloodIsFlag, FloodLabels
  <2>3. CASE Head(job[w].todo) \notin board.flagged
    BY <1>3, <1>4, <2>1, <2>3 DEF FloodIsFlag, FloodLabels
  <2>4. QED
    BY <2>2, <2>3
<1>5. CASE FloodIsRevealed(w)
  <2>1. job[w].pc = "flood: is_revealed" /\ job[w].todo # <<>> /\ UNCHANGED board
    BY <1>1, <1>5 DEF FloodIsRevealed, JobOK
  <2>2. CASE Head(job[w].todo) \in board.revealed
    BY <1>2, <1>5, <2>1, <2>2 DEF FloodIsRevealed, FloodLabels
  <2>3. CASE Head(job[w].todo) \notin board.revealed
    BY <1>3, <1>5, <2>1, <2>3 DEF FloodIsRevealed, FloodLabels
  <2>4. QED
    BY <2>2, <2>3
<1>6. CASE FloodSetRevealed(w)
  <2> DEFINE n == Head(job[w].todo)
             q == IF NeighborBombsCount(board, n) = 0 THEN Append(job[w].queue, n) ELSE job[w].queue
             l == [job[w] EXCEPT !.pc = "flood: is_flag", !.todo = Tail(@),
                                 !.found = @ \cup {n}, !.queue = q]
  <2>1. job[w].pc = "flood: set_revealed" /\ job[w].todo # <<>>
    BY <1>1, <1>6 DEF FloodSetRevealed, JobOK
  <2>2. n \in Cells /\ Tail(job[w].todo) \in Seq(Cells) /\ q \in Seq(Cells)
    BY <1>1, <2>1, HeadAndTail, OneMore DEF Locals
  <2> HIDE DEF n
  <2>3. l \in Locals
    BY <1>1, <2>2 DEF Locals, Labels, FloodLabels
  <2>4. /\ l.pc = "flood: is_flag" /\ l.todo = Tail(job[w].todo) /\ l.queue = q
        /\ l.found = job[w].found \cup {n}
        /\ l.endpoint = job[w].endpoint /\ l.visited = job[w].visited
    BY <1>1 DEF Locals
  <2>5. JobOK(l)
    BY <2>4 DEF JobOK, FloodLabels, ChordLabels, CheckLabels
  <2>6. job' = [job EXCEPT ![w] = l]
    BY <1>6 DEF FloodSetRevealed, n
  <2>7. Reveals(w, l)
    <3> HIDE DEF l
    <3>1. QED
      BY <1>6, <2>1, <2>3, <2>4, <2>5, <2>6 DEF Reveals, Becomes, FloodSetRevealed, FloodLabels, n
  <2>8. QED
    BY <2>3, <2>7 DEF Moved, Moves
<1>7. CASE FloodPop(w)
  <2> DEFINE z == Head(job[w].queue)
             l == [job[w] EXCEPT !.queue = Tail(@), !.todo = NeighborsExcept(z, job[w].visited),
                                 !.visited = @ \cup Neighbors[z]]
  <2>1. /\ job[w].pc = "flood: is_flag" /\ job[w].todo = <<>> /\ job[w].queue # <<>>
        /\ UNCHANGED board /\ Continue(w, l)
    BY <1>7 DEF FloodPop
  <2>2. /\ z \in Cells /\ Tail(job[w].queue) \in Seq(Cells)
        /\ NeighborsExcept(z, job[w].visited) \in Seq(Cells)
        /\ Neighbors[z] \subseteq Cells
    BY <1>1, <2>1, HeadAndTail, NeighborsExceptVisited, NeighborCells DEF Locals
  <2> HIDE DEF z
  <2>3. l \in Locals
    BY <1>1, <2>2 DEF Locals
  <2>4. /\ l.pc = job[w].pc /\ l.queue = Tail(job[w].queue)
        /\ l.todo = NeighborsExcept(z, job[w].visited) /\ l.visited = job[w].visited \cup Neighbors[z]
        /\ l.found = job[w].found /\ l.endpoint = job[w].endpoint
    BY <1>1 DEF Locals
  <2>5. JobOK(l)
    BY <2>1, <2>4 DEF JobOK, FloodLabels, ChordLabels, CheckLabels
  <2>6. Pops(w, l)
    <3> HIDE DEF l
    <3>1. QED
      BY <2>1, <2>3, <2>4, <2>5 DEF Pops, Becomes, Continue, FloodLabels, z
  <2>7. QED
    BY <2>3, <2>6 DEF Moved, Moves
<1>8. CASE FloodReturn(w)
  <2>1. job[w].pc = "flood: is_flag" /\ job[w].todo = <<>> /\ job[w].queue = <<>> /\ UNCHANGED board
    BY <1>8 DEF FloodReturn
  <2>2. CASE SendOpened(w)
    BY <2>1, <2>2, SendMoves DEF SendOpened
  <2>3. CASE /\ job[w].endpoint = "cell/check"
             /\ Continue(w, [job[w] EXCEPT !.pc = "check: neighbor is_revealed", !.visited = {}])
    <3> DEFINE l == [job[w] EXCEPT !.pc = "check: neighbor is_revealed", !.visited = {}]
    <3>1. l \in Locals
      BY <1>1 DEF Locals, Labels, CheckLabels, ChordLabels
    <3>2. /\ l.pc = "check: neighbor is_revealed" /\ l.endpoint = job[w].endpoint
          /\ l.todo = job[w].todo /\ l.queue = job[w].queue /\ l.found = job[w].found
      BY <1>1 DEF Locals
    <3>3. JobOK(l) /\ l.pc \notin FloodLabels
      BY <2>1, <2>3, <3>2 DEF JobOK, FloodLabels, ChordLabels, CheckLabels
    <3>4. QED
      BY <2>1, <2>3, <3>1, <3>2, <3>3, LocalMoves
  <2>4. QED
    BY <1>8, <2>2, <2>3 DEF FloodReturn
<1>9. QED
  BY <1>4, <1>5, <1>6, <1>7, <1>8 DEF Flood

LEMMA RevealMoves ==
    ASSUME Typed, JobsOK, NEW w \in Workers, RevealIsFlag(w)
    PROVE  Moved
<1> DEFINE c == job[w].c
           l == [job[w] EXCEPT !.pc = "flood: is_flag", !.todo = <<c>>, !.queue = <<>>, !.visited = {c}]
<1>1. job[w] \in Locals /\ JobOK(job[w]) /\ job[w].pc = "reveal: is_flag" /\ UNCHANGED board
  BY DEF Typed, JobsOK, RevealIsFlag
<1>2. job[w].pc \notin FloodLabels \cup ChordLabels
  BY <1>1 DEF FloodLabels, ChordLabels
<1>3. CASE c \in board.flagged /\ Refuse(w, "is_flagged")
  BY <1>1, <1>2, <1>3, RefuseMoves DEF Refuse
<1>4. CASE c \in board.mines \ board.flagged /\ Send(w, "boom", {c}, {})
  BY <1>1, <1>2, <1>4, RefuseMoves
<1>5. CASE c \notin board.mines \cup board.flagged /\ StartFlood(w, c)
  <2>1. c \in Cells /\ <<c>> \in Seq(Cells) /\ <<>> \in Seq(Cells)
    BY <1>1, OneCell, NoCell DEF Locals
  <2> HIDE DEF c
  <2>2. l \in Locals
    BY <1>1, <2>1 DEF Locals, Labels, FloodLabels
  <2>3. /\ l.pc = "flood: is_flag" /\ l.todo = <<c>> /\ l.queue = <<>> /\ l.visited = {c}
        /\ l.found = job[w].found /\ l.endpoint = job[w].endpoint
    BY <1>1 DEF Locals
  <2>4. JobOK(l)
    BY <2>3 DEF JobOK, FloodLabels, ChordLabels, CheckLabels
  <2>5. Becomes(w, l) /\ UNCHANGED <<told, boomed, everFlagged>>
    BY <1>5, <2>2, <2>4 DEF Becomes, StartFlood, Continue
  <2>6. job[w].todo = <<>> /\ job[w].queue = <<>>
    BY <1>1, <1>2 DEF JobOK
  <2>7. Starts(w, l)
    <3> HIDE DEF l
    <3>1. QED
      BY <1>1, <1>5, <2>1, <2>3, <2>5, <2>6 DEF Starts
  <2>8. QED
    BY <2>2, <2>7 DEF Moved, Moves
<1>6. QED
  BY <1>3, <1>4, <1>5 DEF RevealIsFlag

LEMMA FlagMoves ==
    ASSUME Typed, JobsOK, NEW w \in Workers, Flag(w)
    PROVE  Moved
<1>1. job[w] \in Locals /\ JobOK(job[w])
  BY DEF Typed, JobsOK
<1> USE DEF FloodLabels, ChordLabels
<1>2. CASE FlagIsRevealed(w)
  <2>1. job[w].pc = "flag: is_revealed" /\ UNCHANGED board
    BY <1>2 DEF FlagIsRevealed
  <2>2. CASE Refuse(w, "is_revealed")
    BY <2>1, <2>2, RefuseMoves DEF Refuse
  <2>3. CASE Goto(w, "flag: is_flag")
    BY <2>1, <2>3, GotoMoves DEF Labels, CheckLabels
  <2>4. QED
    BY <1>2, <2>2, <2>3 DEF FlagIsRevealed
<1>3. CASE FlagIsFlag(w)
  <2>1. job[w].pc = "flag: is_flag" /\ UNCHANGED board
    BY <1>3 DEF FlagIsFlag
  <2>2. CASE Goto(w, "toggle_flag: load")
    BY <2>1, <2>2, GotoMoves DEF Labels, CheckLabels
  <2>3. CASE Goto(w, "flag: flags_count")
    BY <2>1, <2>3, GotoMoves DEF Labels, CheckLabels
  <2>4. QED
    BY <1>3, <2>2, <2>3 DEF FlagIsFlag
<1>4. CASE FlagBombsCount(w)
  <2>1. CASE Count(w, "flag: flags_count", CellOrder, board.flagged)
    BY <2>1, CountMoves
  <2>2. CASE Counted(w, "flag: flags_count", CellOrder) /\ Refuse(w, "no_bombs_left")
    BY <2>2, RefuseMoves DEF Refuse, Counted
  <2>3. CASE Counted(w, "flag: flags_count", CellOrder) /\ Goto(w, "toggle_flag: load")
    BY <2>3, GotoMoves DEF Counted, Labels, CheckLabels
  <2>4. QED
    BY <1>4, <2>1, <2>2, <2>3 DEF FlagBombsCount
<1>5. CASE ToggleLoad(w)
  <2> DEFINE l == [job[w] EXCEPT !.pc = "toggle_flag: store", !.old = job[w].c \in board.flagged]
  <2>1. job[w].pc = "toggle_flag: load" /\ UNCHANGED board /\ Continue(w, l)
    BY <1>5 DEF ToggleLoad
  <2>2. (job[w].c \in board.flagged) \in BOOLEAN
    OBVIOUS
  <2>3. l \in Locals
    BY <1>1, <2>2 DEF Locals, Labels
  <2>4. /\ l.pc = "toggle_flag: store" /\ l.endpoint = job[w].endpoint
        /\ l.todo = job[w].todo /\ l.queue = job[w].queue /\ l.found = job[w].found
    BY <1>1 DEF Locals
  <2>5. JobOK(l)
    BY <1>1, <2>1, <2>4 DEF JobOK, CheckLabels
  <2>6. QED
    BY <2>1, <2>3, <2>4, <2>5, LocalMoves
<1>6. CASE ToggleStore(w)
  <2> DEFINE l == [job[w] EXCEPT !.pc = "flag: answer"]
  <2>1. /\ job[w].pc = "toggle_flag: store" /\ job' = [job EXCEPT ![w] = l]
        /\ UNCHANGED <<told, boomed>>
    BY <1>6 DEF ToggleStore, Typed
  <2>2. l \in Locals
    BY <1>1 DEF Locals, Labels
  <2>3. /\ l.pc = "flag: answer" /\ l.endpoint = job[w].endpoint
        /\ l.todo = job[w].todo /\ l.queue = job[w].queue /\ l.found = job[w].found
    BY <1>1 DEF Locals
  <2>4. JobOK(l)
    BY <1>1, <2>1, <2>3 DEF JobOK, CheckLabels
  <2>5. job[w].c \in Cells
    BY <1>1 DEF Locals
  <2>6. board' \in Boards /\ board'.mines = board.mines /\ board'.revealed = board.revealed
    BY <1>6, <2>5 DEF ToggleStore, Typed, Boards
  <2>7. Toggles(w, l)
    <3> HIDE DEF l
    <3>1. QED
      BY <1>6, <2>1, <2>2, <2>3, <2>4, <2>6 DEF Toggles, Becomes, ToggleStore
  <2>8. QED
    BY <2>2, <2>7 DEF Moved, Moves
<1>7. CASE FlagAnswer(w)
  BY <1>7, RefuseMoves DEF FlagAnswer
<1>8. QED
  BY <1>2, <1>3, <1>4, <1>5, <1>6, <1>7 DEF Flag

LEMMA CheckMoves ==
    ASSUME Typed, JobsOK, NEW w \in Workers, Check(w)
    PROVE  Moved
<1>1. job[w] \in Locals /\ JobOK(job[w])
  BY DEF Typed, JobsOK
<1> USE DEF FloodLabels, ChordLabels
<1>2. CASE CheckIsRevealed(w)
  <2>1. job[w].pc = "check: is_revealed" /\ UNCHANGED board
    BY <1>2 DEF CheckIsRevealed
  <2>2. CASE Refuse(w, "not_revealed") \/ Refuse(w, "is_bomb")
    BY <2>1, <2>2, RefuseMoves DEF Refuse
  <2>3. CASE Goto(w, "check: neighbor_flags_count")
    BY <2>1, <2>3, GotoMoves DEF Labels, CheckLabels
  <2>4. QED
    BY <1>2, <2>2, <2>3 DEF CheckIsRevealed
<1>3. CASE CheckFlagsCount(w)
  <2> DEFINE c == job[w].c
             l == [job[w] EXCEPT !.pc = "check: neighbor is_revealed", !.seeds = NeighborOrder[c]]
  <2>1. CASE Count(w, "check: neighbor_flags_count", NeighborOrder[c], board.flagged)
    BY <2>1, CountMoves
  <2>2. CASE Counted(w, "check: neighbor_flags_count", NeighborOrder[c]) /\ Refuse(w, "flags_mismatch")
    BY <2>2, RefuseMoves DEF Refuse, Counted
  <2>3. CASE Counted(w, "check: neighbor_flags_count", NeighborOrder[c]) /\ Continue(w, l)
    <3>1. job[w].pc = "check: neighbor_flags_count" /\ UNCHANGED board /\ Continue(w, l)
      BY <2>3 DEF Counted
    <3>2. c \in Cells /\ NeighborOrder[c] \in Seq(Cells)
      BY <1>1, NeighborsExceptVisited DEF Locals, NeighborOrder
    <3> HIDE DEF c
    <3>3. l \in Locals
      BY <1>1, <3>2 DEF Locals, Labels, CheckLabels
    <3>4. /\ l.pc = "check: neighbor is_revealed" /\ l.endpoint = job[w].endpoint
          /\ l.todo = job[w].todo /\ l.queue = job[w].queue /\ l.found = job[w].found
      BY <1>1 DEF Locals
    <3>5. JobOK(l)
      BY <1>1, <3>1, <3>4 DEF JobOK, CheckLabels
    <3>6. QED
      BY <3>1, <3>3, <3>4, <3>5, LocalMoves
  <2>4. QED
    BY <1>3, <2>1, <2>2, <2>3 DEF CheckFlagsCount
<1>4. ASSUME NEW label \in ChordLabels, NEW s \in Seq(Cells), NEW l, UNCHANGED board,
             job[w].pc \in ChordLabels, label = "check: neighbor is_flag" => s # <<>>,
             l = [job[w] EXCEPT !.pc = label, !.seeds = s], Continue(w, l)
      PROVE  Moved
  <2>1. l \in Locals
    BY <1>1, <1>4 DEF Locals, Labels, CheckLabels
  <2>2. /\ l.pc = label /\ l.seeds = s /\ l.endpoint = job[w].endpoint
        /\ l.todo = job[w].todo /\ l.queue = job[w].queue /\ l.found = job[w].found
    BY <1>1, <1>4 DEF Locals
  <2>3. JobOK(l)
    BY <1>1, <1>4, <2>2 DEF JobOK, CheckLabels
  <2>4. QED
    BY <1>4, <2>1, <2>2, <2>3, LocalMoves
<1>5. CASE CheckNeighborIsRevealed(w)
  <2>1. job[w].pc = "check: neighbor is_revealed" /\ UNCHANGED board
    BY <1>5 DEF CheckNeighborIsRevealed
  <2>2. CASE job[w].seeds = <<>>
    <3>1. job[w].todo = <<>> /\ job[w].queue = <<>> /\ SendOpened(w)
      BY <1>1, <1>5, <2>1, <2>2 DEF CheckNeighborIsRevealed, JobOK
    <3>2. QED
      BY <2>1, <3>1, SendMoves DEF SendOpened
  <2>3. CASE job[w].seeds # <<>> /\ Head(job[w].seeds) \in board.revealed
    <3>1. Tail(job[w].seeds) \in Seq(Cells)
      BY <1>1, <2>3, HeadAndTail DEF Locals
    <3>2. [job[w] EXCEPT !.seeds = Tail(@)]
              = [job[w] EXCEPT !.pc = "check: neighbor is_revealed", !.seeds = Tail(job[w].seeds)]
      BY <1>1, <2>1 DEF Locals
    <3>3. QED
      BY <1>4, <1>5, <2>1, <2>3, <3>1, <3>2 DEF CheckNeighborIsRevealed
  <2>4. CASE job[w].seeds # <<>> /\ Head(job[w].seeds) \notin board.revealed
    <3>1. [job[w] EXCEPT !.pc = "check: neighbor is_flag"]
              = [job[w] EXCEPT !.pc = "check: neighbor is_flag", !.seeds = job[w].seeds]
      BY <1>1 DEF Locals
    <3>2. job[w].seeds \in Seq(Cells)
      BY <1>1 DEF Locals
    <3>3. QED
      BY <1>4, <1>5, <2>1, <2>4, <3>1, <3>2 DEF CheckNeighborIsRevealed
  <2>5. QED
    BY <2>2, <2>3, <2>4
<1>6. CASE CheckNeighborIsFlag(w)
  <2> DEFINE h == Head(job[w].seeds)
             l == [job[w] EXCEPT !.pc = "flood: is_flag", !.seeds = Tail(@), !.todo = <<h>>,
                                 !.visited = {h}]
  <2>1. /\ job[w].pc = "check: neighbor is_flag" /\ UNCHANGED board /\ job[w].seeds # <<>>
        /\ job[w].todo = <<>> /\ job[w].queue = <<>> /\ job[w].endpoint = "cell/check"
    BY <1>1, <1>6 DEF CheckNeighborIsFlag, JobOK, CheckLabels
  <2>2. h \in Cells /\ Tail(job[w].seeds) \in Seq(Cells)
    BY <1>1, <2>1, HeadAndTail DEF Locals
  <2>3. CASE h \in board.flagged
    <3>1. Continue(w, [job[w] EXCEPT !.pc = "check: neighbor is_revealed", !.seeds = Tail(@)])
      BY <1>6, <2>3 DEF CheckNeighborIsFlag
    <3>2. QED
      BY <1>4, <2>1, <2>2, <3>1
  <2>4. CASE h \notin board.flagged
    <3>1. Continue(w, l)
      BY <1>6, <2>4 DEF CheckNeighborIsFlag
    <3>2. <<h>> \in Seq(Cells)
      BY <2>2, OneCell
    <3> HIDE DEF h
    <3>3. l \in Locals
      BY <1>1, <2>2, <3>2 DEF Locals, Labels
    <3>4. /\ l.pc = "flood: is_flag" /\ l.todo = <<h>> /\ l.queue = job[w].queue /\ l.visited = {h}
          /\ l.found = job[w].found /\ l.endpoint = job[w].endpoint
      BY <1>1 DEF Locals
    <3>5. JobOK(l)
      BY <3>4 DEF JobOK, CheckLabels
    <3>6. Becomes(w, l) /\ UNCHANGED <<told, boomed, everFlagged>>
      BY <3>1, <3>3, <3>5 DEF Becomes, Continue
    <3>7. Starts(w, l)
      <4> HIDE DEF l
      <4>1. QED
        BY <2>1, <2>2, <3>4, <3>6 DEF Starts
    <3>8. QED
      BY <3>3, <3>7 DEF Moved, Moves
  <2>5. QED
    BY <2>3, <2>4
<1>7. QED
  BY <1>2, <1>3, <1>5, <1>6 DEF Check

LEMMA BoardQueryMoves ==
    ASSUME Typed, JobsOK, NEW w \in Workers, BoardQuery(w)
    PROVE  Moved
<1> USE DEF FloodLabels, ChordLabels
<1>1. CASE BoardCheckUnrevealed(w)
  <2>1. CASE Count(w, "board/check: unrevealed_count", CellOrder, Cells \ board.revealed)
    BY <2>1, CountMoves
  <2>2. CASE Counted(w, "board/check: unrevealed_count", CellOrder) /\ Refuse(w, "unrevealed_left")
    BY <2>2, RefuseMoves DEF Refuse, Counted
  <2>3. CASE Counted(w, "board/check: unrevealed_count", CellOrder) /\ Goto(w, "board/check: is_flag")
    BY <2>3, GotoMoves DEF Counted, Labels, CheckLabels
  <2>4. QED
    BY <1>1, <2>1, <2>2, <2>3 DEF BoardCheckUnrevealed
<1>2. CASE BoardCheckIsFlag(w) \/ BoardCheckIsRevealed(w)
  <2>1. UNCHANGED board /\ job[w].pc \in {"board/check: is_flag", "board/check: is_revealed"}
    BY <1>2 DEF BoardCheckIsFlag, BoardCheckIsRevealed
  <2>2. ASSUME NEW o, Refuse(w, o) PROVE Moved
    BY <2>1, <2>2, RefuseMoves DEF Refuse
  <2>3. job[w] \in Locals /\ job[w].k \in Nat /\ job[w].k + 1 \in Nat
    BY DEF Typed, Locals
  <2>4. ASSUME NEW label \in {"board/check: is_flag", "board/check: is_revealed"},
               NEW k \in {job[w].k, job[w].k + 1},
               Continue(w, [job[w] EXCEPT !.pc = label, !.k = k])
        PROVE  Moved
    <3> DEFINE l == [job[w] EXCEPT !.pc = label, !.k = k]
    <3>1. job[w] \in Locals /\ JobOK(job[w])
      BY DEF Typed, JobsOK
    <3>2. label \in Labels
      BY DEF Labels
    <3>3. k \in Nat
      BY <2>4, <2>3, Zenon
    <3>4. /\ l \in Locals
          /\ l.pc = label /\ l.endpoint = job[w].endpoint /\ l.found = job[w].found
          /\ l.todo = job[w].todo /\ l.queue = job[w].queue
      BY <3>1, <3>3, <3>2 DEF Locals
    <3>5. Continue(w, l)
      BY <2>4
    <3> HIDE DEF l
    <3>6. JobOK(l)
      BY <2>1, <3>1, <3>4 DEF JobOK, CheckLabels
    <3>7. QED
      BY <2>1, <3>4, <3>5, <3>6, LocalMoves
  <2>5. CASE BoardCheckIsFlag(w)
    <3>1. CASE Continue(w, [job[w] EXCEPT !.k = @ + 1])
      <4>1. [job[w] EXCEPT !.k = @ + 1] = [job[w] EXCEPT !.pc = "board/check: is_flag", !.k = job[w].k + 1]
        BY <2>3, <2>5 DEF Locals, BoardCheckIsFlag
      <4>2. QED
        BY <2>4, <3>1, <4>1
    <3>2. CASE Continue(w, [job[w] EXCEPT !.pc = "board/check: is_revealed"])
      <4>1. [job[w] EXCEPT !.pc = "board/check: is_revealed"]
                = [job[w] EXCEPT !.pc = "board/check: is_revealed", !.k = job[w].k]
        BY <2>3 DEF Locals
      <4>2. QED
        BY <2>4, <3>2, <4>1
    <3>3. QED
      BY <2>2, <2>5, <3>1, <3>2 DEF BoardCheckIsFlag
  <2>6. CASE BoardCheckIsRevealed(w)
    BY <2>2, <2>4, <2>6 DEF BoardCheckIsRevealed
  <2>7. QED
    BY <1>2, <2>5, <2>6
<1>3. CASE FullyRevealedUnrevealed(w)
  <2>1. CASE Count(w, "fully_revealed: unrevealed_count", CellOrder, Cells \ board.revealed)
    BY <2>1, CountMoves
  <2>2. CASE Counted(w, "fully_revealed: unrevealed_count", CellOrder) /\ Refuse(w, "false")
    BY <2>2, RefuseMoves DEF Refuse, Counted
  <2>3. CASE Counted(w, "fully_revealed: unrevealed_count", CellOrder) /\ Goto(w, "fully_revealed: flags_count")
    BY <2>3, GotoMoves DEF Counted, Labels, CheckLabels
  <2>4. QED
    BY <1>3, <2>1, <2>2, <2>3 DEF FullyRevealedUnrevealed
<1>4. CASE FullyRevealedFlags(w)
  <2>1. CASE Count(w, "fully_revealed: flags_count", CellOrder, board.flagged)
    BY <2>1, CountMoves
  <2>2. ASSUME NEW o, Counted(w, "fully_revealed: flags_count", CellOrder), Refuse(w, o)
        PROVE  Moved
    BY <2>2, RefuseMoves DEF Refuse, Counted
  <2>3. QED
    BY <1>4, <2>1, <2>2 DEF FullyRevealedFlags
<1>5. QED
  BY <1>1, <1>2, <1>3, <1>4 DEF BoardQuery

LEMMA StepKinds ==
    ASSUME Typed, JobsOK, Next
    PROVE  Moved
BY TakeMoves, FloodMoves, RevealMoves, FlagMoves, CheckMoves, BoardQueryMoves DEF Next, Work

-----------------------------------------------------------------------------
(* The invariant                                                           *)

(* A queue holds cells that show 0 ...                                      *)
QueuesHoldZeros ==
    \A w \in Workers : \A z \in Range(job[w].queue) : NeighborBombsCount(board, z) = 0

(* ... so that a flood fill that did not start at a mine never looks at one. *)
MinesInChords ==
    /\ \A w \in Workers : job[w].endpoint # "cell/check"
                              => (Range(job[w].todo) \cup job[w].found) \cap board.mines = {}
    /\ told \cap board.mines # {} => boomed

(* The cells that need no more care around a zero: a cell stays known.      *)
Known == board.revealed \cup everFlagged

FlagsAreKnown == board.flagged \subseteq Known

(* A flood fill does not come back to a cell it has visited: the cell is    *)
(* known, or still to be looked at.                                        *)
VisitedIsKnown ==
    \A w \in Workers : job[w].pc \in FloodLabels
                           => job[w].visited \subseteq Known \cup Range(job[w].todo)

(* A revealed zero is still in the queue of the worker that has revealed it, *)
(* or its neighbours are known or looked at, by any worker.                *)
Queued(z) == \E w \in Workers : z \in Range(job[w].queue)
Attended(n) == n \in Known \/ \E w \in Workers : n \in Range(job[w].todo)

ZerosAreAttended ==
    \A z \in board.revealed : NeighborBombsCount(board, z) = 0
        => Queued(z) \/ \A n \in Neighbors[z] : Attended(n)

IInv ==
    /\ Typed
    /\ JobsOK
    /\ QueuesHoldZeros
    /\ MinesInChords

HistoryInv ==
    /\ NothingOpenedIsLost
    /\ FlagsAreKnown
    /\ VisitedIsKnown
    /\ ZerosAreAttended

-----------------------------------------------------------------------------
(* What every kind of step leaves alone                                    *)

LEMMA JobsAfter ==
    ASSUME Typed, NEW w, NEW l, Becomes(w, l)
    PROVE  /\ job' \in [Workers -> Locals]
           /\ job'[w] = l
           /\ \A v \in Workers : v # w => job'[v] = job[v]
BY DEF Typed, Becomes

LEMMA HeadCells ==
    ASSUME Typed, NEW w \in Workers
    PROVE  /\ job[w].todo # <<>> => Head(job[w].todo) \in Cells
           /\ job[w].queue # <<>> => Head(job[w].queue) \in Cells
BY HeadAndTail DEF Typed, Locals

LEMMA MinesStay ==
    ASSUME Typed, NEW w, NEW l, Moves(w, l)
    PROVE  /\ Becomes(w, l)
           /\ board' \in Boards
           /\ board'.mines = board.mines
           /\ board.revealed \subseteq board'.revealed
           /\ Known \subseteq Known'
<1>1. CASE board' = board /\ everFlagged' = everFlagged
  BY <1>1 DEF Moves, Locally, Starts, Skips, Reveals, Pops, Answers, Toggles, Typed, Known
<1>2. CASE Reveals(w, l)
  <2>1. Head(job[w].todo) \in Cells
    BY <1>2, HeadCells DEF Reveals, Becomes
  <2>2. QED
    BY <1>2, <2>1 DEF Reveals, RevealAll, Typed, Boards, Known
<1>3. CASE Toggles(w, l)
  BY <1>3 DEF Toggles, Known
<1>4. QED
  BY <1>1, <1>2, <1>3 DEF Moves, Locally, Starts, Skips, Pops, Answers

LEMMA CountsStay ==
    ASSUME board'.mines = board.mines, NEW c
    PROVE  NeighborBombsCount(board', c) = NeighborBombsCount(board, c)
BY DEF NeighborBombsCount

-----------------------------------------------------------------------------
(* The types                                                               *)

LEMMA InitTyped ==
    ASSUME Init
    PROVE  Typed /\ JobsOK
<1>1. board \in Boards
  BY StepsAssumption DEF Init, FreshBoard, Boards
<1>2. \A w \in Workers : job[w] = Idle
  BY DEF Init
<1>3. QED
  BY <1>1, <1>2, IdleIsLocal DEF Init, Typed, JobsOK

LEMMA MovesTyped ==
    ASSUME Typed, JobsOK, NEW w, NEW l, Moves(w, l)
    PROVE  Typed' /\ JobsOK'
<1>1. Becomes(w, l) /\ board' \in Boards
  BY MinesStay
<1>2. job' \in [Workers -> Locals] /\ JobsOK'
  BY <1>1, JobsAfter DEF JobsOK, Becomes
<1>3. told' \in SUBSET Cells
  <2>1. job[w].found \in SUBSET Cells
    BY <1>1 DEF Typed, Locals, Becomes
  <2>2. QED
    BY <2>1 DEF Moves, Locally, Starts, Skips, Reveals, Pops, Answers, Toggles, Typed
<1>4. everFlagged' \in SUBSET Cells
  <2>1. board' \in Boards => board'.flagged \subseteq Cells
    BY DEF Boards
  <2>2. QED
    BY <1>1, <2>1 DEF Moves, Locally, Starts, Skips, Reveals, Pops, Answers, Toggles, Typed
<1>5. boomed' \in BOOLEAN
  BY DEF Moves, Locally, Starts, Skips, Reveals, Pops, Answers, Toggles, Typed
<1>6. QED
  BY <1>1, <1>2, <1>3, <1>4, <1>5 DEF Typed

-----------------------------------------------------------------------------
(* The queues and the mines                                                *)

LEMMA QueuesAfter ==
    ASSUME IInv, NEW w, NEW l, Moves(w, l)
    PROVE  QueuesHoldZeros'
<1>1. Becomes(w, l) /\ board'.mines = board.mines /\ Typed /\ w \in Workers
  BY MinesStay DEF IInv, Becomes
<1>2. job[w] \in Locals
  BY <1>1 DEF Typed
<1>3. SUFFICES ASSUME NEW z \in Range(l.queue)
               PROVE  NeighborBombsCount(board, z) = 0
  BY <1>1, JobsAfter, CountsStay DEF QueuesHoldZeros, IInv
<1>4. CASE l.queue = job[w].queue
  BY <1>1, <1>3, <1>4 DEF QueuesHoldZeros, IInv
<1>5. CASE l.queue = <<>>
  BY <1>3, <1>5, NoCell
<1>6. CASE Reveals(w, l) /\ l.queue # job[w].queue
  <2>1. l.queue = Append(job[w].queue, Head(job[w].todo))
        /\ NeighborBombsCount(board, Head(job[w].todo)) = 0
    BY <1>6 DEF Reveals
  <2>2. Head(job[w].todo) \in Cells /\ job[w].queue \in Seq(Cells)
    BY <1>1, <1>2, <1>6, HeadCells DEF Reveals, Locals
  <2>3. z \in Range(job[w].queue) \cup {Head(job[w].todo)}
    BY <1>3, <2>1, <2>2, OneMore
  <2>4. QED
    BY <1>1, <2>1, <2>3 DEF QueuesHoldZeros, IInv
<1>7. CASE Pops(w, l)
  <2>1. l.queue = Tail(job[w].queue) /\ job[w].queue # <<>> /\ job[w].queue \in Seq(Cells)
    BY <1>2, <1>7 DEF Pops, Locals
  <2>2. z \in Range(job[w].queue)
    BY <1>3, <2>1, HeadAndTail
  <2>3. QED
    BY <1>1, <2>2 DEF QueuesHoldZeros, IInv
<1>8. QED
  BY <1>4, <1>5, <1>6, <1>7 DEF Moves, Locally, Starts, Skips, Answers, Toggles, Idle

LEMMA MinesAfter ==
    ASSUME IInv, NEW w, NEW l, Moves(w, l)
    PROVE  MinesInChords'
<1>1. Becomes(w, l) /\ board'.mines = board.mines /\ Typed /\ w \in Workers
  BY MinesStay DEF IInv, Becomes
<1>2. job[w] \in Locals /\ job[w].todo \in Seq(Cells) /\ job[w].queue \in Seq(Cells)
  BY <1>1 DEF Typed, Locals
<1>3. job[w].endpoint # "cell/check"
          => (Range(job[w].todo) \cup job[w].found) \cap board.mines = {}
  BY <1>1 DEF IInv, MinesInChords
<1>4. l.endpoint # "cell/check" => (Range(l.todo) \cup l.found) \cap board.mines = {}
  <2> SUFFICES ASSUME l.endpoint # "cell/check"
               PROVE  (Range(l.todo) \cup l.found) \cap board.mines = {}
    OBVIOUS
  <2>1. CASE Locally(w, l) \/ Toggles(w, l)
    BY <1>3, <2>1, NoCell DEF Locally, Toggles
  <2>2. CASE Starts(w, l)
    <3>1. PICK c \in Cells : l.todo = <<c>> /\ c \notin board.mines
      BY <2>2 DEF Starts
    <3>2. Range(l.todo) = {c}
      BY <3>1, OneCell
    <3>3. QED
      BY <1>3, <2>2, <3>1, <3>2 DEF Starts
  <2>3. CASE Skips(w, l)
    <3>1. Range(l.todo) \subseteq Range(job[w].todo)
      BY <1>2, <2>3, HeadAndTail DEF Skips
    <3>2. QED
      BY <1>3, <2>3, <3>1 DEF Skips, SameFlood
  <2>4. CASE Reveals(w, l)
    <3>1. Range(l.todo) \cup l.found = Range(job[w].todo) \cup job[w].found
      BY <1>2, <2>4, HeadAndTail DEF Reveals
    <3>2. QED
      BY <1>3, <2>4, <3>1 DEF Reveals
  <2>5. CASE Pops(w, l)
    <3> DEFINE z == Head(job[w].queue)
    <3>1. z \in Cells /\ z \in Range(job[w].queue)
      BY <1>2, <2>5, HeadAndTail DEF Pops
    <3>2. NeighborBombsCount(board, z) = 0
      BY <1>1, <3>1 DEF QueuesHoldZeros, IInv
    <3>3. Neighbors[z] \cap board.mines = {}
      BY <1>1, <3>1, <3>2, ZeroHasNoMines DEF Typed
    <3>4. Range(l.todo) \subseteq Neighbors[z]
      BY <2>5, <3>1, NeighborsExceptVisited DEF Pops
    <3>5. QED
      BY <1>3, <2>5, <3>3, <3>4 DEF Pops
  <2>6. CASE Answers(w, l)
    BY <2>6, NoCell DEF Answers, Idle
  <2>7. QED
    BY <2>1, <2>2, <2>3, <2>4, <2>5, <2>6 DEF Moves
<1>5. told' \cap board.mines # {} => boomed'
  <2>1. CASE Answers(w, l)
    <3>1. told' \subseteq told \cup job[w].found
      BY <2>1 DEF Answers
    <3>2. QED
      BY <2>1, <3>1 DEF Answers, IInv, MinesInChords
  <2>2. CASE ~Answers(w, l)
    BY <2>2 DEF Moves, Locally, Starts, Skips, Reveals, Pops, Toggles, IInv, MinesInChords
  <2>3. QED
    BY <2>1, <2>2
<1>6. QED
  BY <1>1, <1>4, <1>5, JobsAfter DEF MinesInChords, IInv

LEMMA Invariance == Spec => []IInv
<1>1. Init => IInv
  <2> SUFFICES ASSUME Init
               PROVE  IInv
    OBVIOUS
  <2>1. Typed /\ JobsOK
    BY InitTyped
  <2>2. \A w \in Workers : job[w].queue = <<>> /\ job[w].todo = <<>> /\ job[w].found = {}
    BY DEF Init, Idle
  <2>3. QED
    BY <2>1, <2>2, NoCell DEF IInv, QueuesHoldZeros, MinesInChords, Init
<1>2. IInv /\ [Next]_vars => IInv'
  <2> SUFFICES ASSUME IInv, [Next]_vars
               PROVE  IInv'
    OBVIOUS
  <2>1. CASE Next
    <3>1. PICK w \in Workers, l \in Locals : Moves(w, l)
      BY <2>1, StepKinds DEF IInv, Moved
    <3>2. QED
      BY <3>1, MovesTyped, QueuesAfter, MinesAfter DEF IInv
  <2>2. CASE UNCHANGED vars
    BY <2>2 DEF vars, IInv, Typed, JobsOK, JobOK, QueuesHoldZeros, MinesInChords
  <2>3. QED
    BY <2>1, <2>2
<1>3. QED
  BY <1>1, <1>2, PTL DEF Spec

-----------------------------------------------------------------------------
(* The history: these need told and everFlagged, which KeepHistory keeps.   *)

LEMMA FoundAfter ==
    ASSUME KeepHistory, IInv, NothingOpenedIsLost, NEW w, NEW l, Moves(w, l)
    PROVE  NothingOpenedIsLost'
<1>1. Becomes(w, l) /\ Typed /\ w \in Workers /\ job[w] \in Locals
  BY MinesStay DEF IInv, Becomes, Typed
<1>2. /\ job'[w] = l /\ \A v \in Workers : v # w => job'[v] = job[v]
  BY <1>1, JobsAfter
<1>3. board.revealed = told \cup UNION {job[v].found : v \in Workers}
  BY DEF NothingOpenedIsLost
<1>4. CASE board'.revealed = board.revealed /\ told' = told /\ l.found = job[w].found
  <2>1. \A v \in Workers : job'[v].found = job[v].found
    BY <1>2, <1>4
  <2>2. QED
    BY <1>3, <1>4, <2>1 DEF NothingOpenedIsLost
<1>5. CASE Reveals(w, l)
  <2> DEFINE n == Head(job[w].todo)
  <2>1. board'.revealed = board.revealed \cup {n} /\ told' = told
    BY <1>1, <1>5 DEF Reveals, RevealAll, Typed, Boards
  <2>2. l.found = job[w].found \cup {n}
    BY <1>5 DEF Reveals
  <2>3. UNION {job'[v].found : v \in Workers} = {n} \cup UNION {job[v].found : v \in Workers}
    BY <1>1, <1>2, <2>2
  <2>4. QED
    BY <1>3, <2>1, <2>3 DEF NothingOpenedIsLost
<1>6. CASE Answers(w, l)
  <2>1. board' = board /\ told' = told \cup job[w].found /\ l.found = {}
    BY <1>6 DEF Answers, Idle
  <2>2. job[w].found \cup UNION {job'[v].found : v \in Workers}
            = UNION {job[v].found : v \in Workers}
    BY <1>1, <1>2, <2>1
  <2>3. QED
    BY <1>3, <2>1, <2>2 DEF NothingOpenedIsLost
<1>7. QED
  BY <1>4, <1>5, <1>6 DEF Moves, Locally, Starts, Skips, Pops, Toggles, SameFlood

LEMMA FlagsAfter ==
    ASSUME KeepHistory, IInv, FlagsAreKnown, NEW w, NEW l, Moves(w, l)
    PROVE  FlagsAreKnown'
<1>1. Known \subseteq Known' /\ Typed /\ w \in Workers
  BY MinesStay DEF IInv, Becomes
<1>2. CASE board'.flagged = board.flagged
  BY <1>1, <1>2 DEF FlagsAreKnown
<1>3. CASE Toggles(w, l)
  BY <1>3 DEF Toggles, FlagsAreKnown, Known
<1>4. CASE Reveals(w, l)
  BY <1>1, <1>2, <1>4 DEF Reveals, RevealAll, Typed, Boards
<1>5. QED
  BY <1>2, <1>3, <1>4 DEF Moves, Locally, Starts, Skips, Pops, Answers

(* A cell that is still to be looked at stays so, or becomes known.         *)
LEMMA TodoAfter ==
    ASSUME KeepHistory, IInv, FlagsAreKnown, NEW w, NEW l, Moves(w, l)
    PROVE  Range(job[w].todo) \subseteq Known' \cup Range(l.todo)
<1>1. Becomes(w, l) /\ Known \subseteq Known' /\ Typed /\ w \in Workers
  BY MinesStay DEF IInv, Becomes
<1>2. job[w].todo \in Seq(Cells)
  BY <1>1 DEF Typed, Locals
<1>3. CASE job[w].todo = <<>>
  BY <1>3, NoCell
<1>4. CASE l.todo = job[w].todo
  BY <1>4
<1>5. CASE job[w].todo # <<>> /\ l.todo = Tail(job[w].todo) /\ Head(job[w].todo) \in Known'
  BY <1>2, <1>5, HeadAndTail
<1>6. CASE Skips(w, l)
  BY <1>1, <1>5, <1>6 DEF Skips, FlagsAreKnown, Known
<1>7. CASE Reveals(w, l)
  <2>1. Head(job[w].todo) \in board'.revealed
    BY <1>1, <1>7 DEF Reveals, RevealAll, Typed, Boards
  <2>2. QED
    BY <1>5, <1>7, <2>1 DEF Reveals, Known
<1>8. QED
  BY <1>3, <1>4, <1>6, <1>7 DEF Moves, Locally, Starts, Pops, Answers, Toggles

LEMMA VisitedAfter ==
    ASSUME KeepHistory, IInv, FlagsAreKnown, VisitedIsKnown, NEW w, NEW l, Moves(w, l)
    PROVE  VisitedIsKnown'
<1>1. Becomes(w, l) /\ Known \subseteq Known' /\ Typed /\ w \in Workers
  BY MinesStay DEF IInv, Becomes
<1>2. job[w].pc \in FloodLabels => job[w].visited \subseteq Known \cup Range(job[w].todo)
  BY <1>1 DEF VisitedIsKnown
<1>3. l.pc \in FloodLabels => l.visited \subseteq Known' \cup Range(l.todo)
  <2> SUFFICES ASSUME l.pc \in FloodLabels
               PROVE  l.visited \subseteq Known' \cup Range(l.todo)
    OBVIOUS
  <2>1. CASE job[w].pc \in FloodLabels /\ l.visited = job[w].visited
    BY <1>1, <1>2, <2>1, TodoAfter
  <2>2. CASE Starts(w, l)
    <3>1. PICK c \in Cells : l.todo = <<c>> /\ l.visited = {c}
      BY <2>2 DEF Starts
    <3>2. QED
      BY <3>1, OneCell
  <2>3. CASE Pops(w, l)
    <3> DEFINE z == Head(job[w].queue)
    <3>1. z \in Cells
      BY <1>1, <2>3, HeadCells DEF Pops
    <3>2. Range(l.todo) = Neighbors[z] \ job[w].visited
      BY <2>3, <3>1, NeighborsExceptVisited DEF Pops
    <3>3. job[w].visited \subseteq Known
      BY <1>2, <2>3, NoCell DEF Pops
    <3>4. QED
      BY <1>1, <2>3, <3>2, <3>3 DEF Pops
  <2>4. CASE Answers(w, l)
    BY <2>4 DEF Answers, Idle, FloodLabels
  <2>5. QED
    BY <2>1, <2>2, <2>3, <2>4 DEF Moves, Locally, Skips, Reveals, Toggles, SameFlood
<1>4. QED
  BY <1>1, <1>3, JobsAfter DEF VisitedIsKnown

LEMMA AttendedAfter ==
    ASSUME KeepHistory, IInv, FlagsAreKnown, NEW w, NEW l, Moves(w, l), NEW n, Attended(n)
    PROVE  Attended(n)'
<1>1. Becomes(w, l) /\ Known \subseteq Known' /\ Typed /\ w \in Workers
  BY MinesStay DEF IInv, Becomes
<1>2. CASE n \in Known
  BY <1>1, <1>2 DEF Attended
<1>3. ASSUME NEW v \in Workers, n \in Range(job[v].todo)
      PROVE  n \in Known' \/ n \in Range(job'[v].todo)
  <2>1. CASE v = w
    BY <1>1, <1>3, <2>1, TodoAfter, JobsAfter
  <2>2. CASE v # w
    BY <1>1, <1>3, <2>2, JobsAfter
  <2>3. QED
    BY <2>1, <2>2
<1>4. QED
  BY <1>2, <1>3 DEF Attended

LEMMA ZerosAfter ==
    ASSUME KeepHistory, IInv, FlagsAreKnown, VisitedIsKnown, ZerosAreAttended,
           NEW w, NEW l, Moves(w, l)
    PROVE  ZerosAreAttended'
<1>1. Becomes(w, l) /\ board'.mines = board.mines /\ Typed /\ w \in Workers /\ job[w] \in Locals
  BY MinesStay DEF IInv, Becomes, Typed
<1>2. /\ job'[w] = l /\ \A v \in Workers : v # w => job'[v] = job[v]
  BY <1>1, JobsAfter
<1>3. SUFFICES ASSUME NEW z \in board'.revealed, NeighborBombsCount(board, z) = 0
               PROVE  Queued(z)' \/ \A n \in Neighbors[z] : Attended(n)'
  BY <1>1, CountsStay DEF ZerosAreAttended
<1>4. CASE z \in board.revealed /\ \A n \in Neighbors[z] : Attended(n)
  BY <1>4, AttendedAfter
<1>5. ASSUME NEW v \in Workers, z \in Range(job[v].queue)
      PROVE  Queued(z)' \/ \A n \in Neighbors[z] : Attended(n)'
  <2>1. CASE v # w
    BY <1>2, <1>5, <2>1 DEF Queued
  <2>2. CASE v = w /\ z \in Range(l.queue)
    BY <1>1, <1>2, <2>2 DEF Queued
  <2>3. CASE v = w /\ l.queue = job[w].queue
    BY <1>1, <1>2, <1>5, <2>3 DEF Queued
  <2>4. CASE v = w /\ job[w].queue = <<>>
    BY <1>5, <2>4, NoCell
  <2>5. CASE v = w /\ Reveals(w, l)
    <3>1. Head(job[w].todo) \in Cells /\ job[w].queue \in Seq(Cells)
      BY <1>1, <2>5, HeadCells DEF Reveals, Locals
    <3>2. Range(job[w].queue) \subseteq Range(l.queue)
      BY <2>5, <3>1, OneMore DEF Reveals
    <3>3. QED
      BY <1>5, <2>2, <2>5, <3>2
  <2>6. CASE v = w /\ Pops(w, l)
    <3>1. job[w].queue \in Seq(Cells) /\ job[w].queue # <<>> /\ l.queue = Tail(job[w].queue)
      BY <1>1, <2>6 DEF Pops, Locals
    <3>2. z \in Range(l.queue) \/ z = Head(job[w].queue)
      BY <1>5, <2>6, <3>1, HeadAndTail
    <3>3. CASE z = Head(job[w].queue)
      <4>1. z \in Cells
        BY <1>1, <3>1, <3>3, HeadCells
      <4>2. Range(l.todo) = Neighbors[z] \ job[w].visited
        BY <2>6, <3>3, <4>1, NeighborsExceptVisited DEF Pops
      <4>3. job[w].visited \subseteq Known
        BY <1>1, <2>6, NoCell DEF VisitedIsKnown, Pops
      <4>4. Known \subseteq Known'
        BY MinesStay, <1>1
      <4>5. QED
        BY <1>1, <1>2, <4>2, <4>3, <4>4 DEF Attended
    <3>4. QED
      BY <2>2, <2>6, <3>2, <3>3
  <2>7. QED
    BY <2>1, <2>3, <2>4, <2>5, <2>6 DEF Moves, Locally, Starts, Skips, Answers, Toggles
<1>6. CASE z \notin board.revealed
  <2>1. Reveals(w, l) /\ z = Head(job[w].todo)
    <3>1. Reveals(w, l)
      BY <1>3, <1>6 DEF Moves, Locally, Starts, Skips, Pops, Answers, Toggles
    <3>2. QED
      BY <1>1, <1>3, <1>6, <3>1 DEF Reveals, RevealAll, Typed, Boards
  <2>2. l.queue = Append(job[w].queue, z) /\ z \in Cells /\ job[w].queue \in Seq(Cells)
    BY <1>1, <1>3, <2>1, HeadCells DEF Reveals, Locals
  <2>3. z \in Range(l.queue)
    BY <2>2, OneMore
  <2>4. QED
    BY <1>1, <1>2, <2>3 DEF Queued
<1>7. CASE z \in board.revealed
  <2>1. Queued(z) \/ \A n \in Neighbors[z] : Attended(n)
    BY <1>3, <1>7 DEF ZerosAreAttended
  <2>2. QED
    BY <1>4, <1>5, <1>7, <2>1 DEF Queued
<1>8. QED
  BY <1>6, <1>7

LEMMA HistoryIsKept ==
    ASSUME KeepHistory
    PROVE  Spec => []HistoryInv
<1>1. Init => HistoryInv
  <2> SUFFICES ASSUME Init
               PROVE  HistoryInv
    OBVIOUS
  <2>1. /\ board.revealed = {} /\ board.flagged = {} /\ told = {}
        /\ \A w \in Workers : job[w].found = {} /\ job[w].pc = "idle"
    BY DEF Init, Idle, FreshBoard
  <2>2. NothingOpenedIsLost
    BY <2>1 DEF NothingOpenedIsLost
  <2>3. FlagsAreKnown /\ VisitedIsKnown /\ ZerosAreAttended
    BY <2>1 DEF FlagsAreKnown, VisitedIsKnown, ZerosAreAttended, FloodLabels
  <2>4. QED
    BY <2>2, <2>3 DEF HistoryInv
<1>2. IInv /\ HistoryInv /\ [Next]_vars => HistoryInv'
  <2> SUFFICES ASSUME IInv, HistoryInv, [Next]_vars
               PROVE  HistoryInv'
    OBVIOUS
  <2>1. CASE Next
    <3>1. PICK w \in Workers, l \in Locals : Moves(w, l)
      BY <2>1, StepKinds DEF IInv, Moved
    <3>2. QED
      BY <3>1, FoundAfter, FlagsAfter, VisitedAfter, ZerosAfter DEF HistoryInv
  <2>2. CASE UNCHANGED vars
    BY <2>2 DEF vars, HistoryInv, NothingOpenedIsLost, FlagsAreKnown, VisitedIsKnown,
                ZerosAreAttended, Queued, Attended, Known
  <2>3. QED
    BY <2>1, <2>2
<1>3. QED
  BY <1>1, <1>2, Invariance, PTL DEF Spec

-----------------------------------------------------------------------------
(* Theorems                                                                *)

(* The workers' variables and the board keep their types: no handler ever   *)
(* works on a cell off the board.                                          *)
THEOREM TypeCorrect == Spec => []TypeOK
<1>1. IInv => TypeOK
  BY DEF IInv, Typed, Locals, TypeOK
<1>2. QED
  BY <1>1, Invariance, PTL

(* However many requests run at a time, cell/reveal opens no mine, and a    *)
(* mine that an answer shows was announced as a boom.                       *)
THEOREM MinesAreOpenedByChordsOnly == Spec => []MinesAreOpenedByChords
<1>1. IInv => MinesAreOpenedByChords
  BY DEF IInv, MinesInChords, MinesAreOpenedByChords
<1>2. QED
  BY <1>1, Invariance, PTL

(* However many workers reveal cells at a time, every cell that is revealed *)
(* on the board is in an answer or in the result of a handler that runs.    *)
THEOREM OpenedCellsAreTold ==
    ASSUME KeepHistory
    PROVE  Spec => []NothingOpenedIsLost
<1>1. HistoryInv => NothingOpenedIsLost
  BY DEF HistoryInv
<1>2. QED
  BY <1>1, HistoryIsKept, PTL

(* When no request is in progress, nothing is left covered around a         *)
(* revealed zero that has never had a flag, however many flood fills have   *)
(* met: one that stops at a revealed cell leaves it to the queue of the     *)
(* worker that has revealed it.                                            *)
THEOREM FloodFillsLeaveNoGap ==
    ASSUME KeepHistory
    PROVE  Spec => []QuietZerosAreOpenedAround
<1>1. IInv /\ HistoryInv => QuietZerosAreOpenedAround
  <2> SUFFICES ASSUME IInv, HistoryInv, Quiet, NEW c \in board.revealed,
                      NeighborBombsCount(board, c) = 0
               PROVE  Neighbors[c] \subseteq board.revealed \cup everFlagged
    BY DEF QuietZerosAreOpenedAround
  <2>1. \A w \in Workers : job[w].todo = <<>> /\ job[w].queue = <<>>
    BY DEF Quiet, IInv, JobsOK, JobOK, FloodLabels
  <2>2. \A w \in Workers : Range(job[w].todo) = {} /\ Range(job[w].queue) = {}
    BY <2>1, NoCell
  <2>3. ~Queued(c) /\ \A n : Attended(n) => n \in Known
    BY <2>2 DEF Queued, Attended
  <2>4. QED
    BY <2>3 DEF HistoryInv, ZerosAreAttended, Known
<1>2. QED
  BY <1>1, Invariance, HistoryIsKept, PTL

-----------------------------------------------------------------------------
(* One worker plays the game.  First: the loops list each cell once.       *)

Injective(s) == \A i, k \in 1..Len(s) : s[i] = s[k] => i = k

LEMMA Quotient ==
    ASSUME NEW w \in Nat \ {0}, NEW q \in Nat, NEW r \in 0..(w - 1)
    PROVE  (w * q + r) \div w = q /\ (w * q + r) % w = r
<1> DEFINE n == w * q + r
           d == n \div w
           m == n % w
<1>1. n \in Nat
  OBVIOUS
<1>2. d \in Int /\ m \in 0..(w - 1) /\ n = w * d + m
  BY <1>1
<1>3. d = q
  <2>1. CASE d < q
    <3>1. d + 1 <= q /\ w * (d + 1) <= w * q
      BY <1>2, <2>1
    <3>2. w * (d + 1) = w * d + w
      BY <1>2
    <3>3. QED
      BY <1>2, <3>1, <3>2
  <2>2. CASE d > q
    <3>1. q + 1 <= d /\ w * (q + 1) <= w * d
      BY <1>2, <2>2
    <3>2. w * (q + 1) = w * q + w
      OBVIOUS
    <3>3. QED
      BY <1>2, <3>1, <3>2
  <2>3. QED
    BY <1>2, <2>1, <2>2
<1>4. QED
  BY <1>2, <1>3

(* data_ row by row: k - 1 divided by the width, with the remainder.       *)
LEMMA CellOrderListsCells ==
    CellOrder \in Seq(Cells) /\ Range(CellOrder) = Cells /\ Injective(CellOrder)
<1> DEFINE N == Width * Height
           At(k) == <<((k - 1) % Width) + 1, ((k - 1) \div Width) + 1>>
<1>1. N \in Nat /\ Width \in Nat \ {0} /\ Height \in Nat \ {0}
  BY BoardAssumption
<1>2. ASSUME NEW k \in 1..N
      PROVE  /\ At(k) \in Cells
             /\ k = Width * (At(k)[2] - 1) + At(k)[1]
  <2> DEFINE q == (k - 1) \div Width
             r == (k - 1) % Width
  <2>1. k - 1 \in Nat
    BY <1>1
  <2>2. q \in Nat /\ r \in 0..(Width - 1) /\ k - 1 = Width * q + r
    BY <2>1, <1>1
  <2>3. q < Height
    <3>1. SUFFICES ASSUME q >= Height PROVE FALSE
      BY <2>2, <1>1
    <3>2. Width * q >= Width * Height
      BY <2>2, <3>1, <1>1
    <3>3. QED
      BY <3>2, <2>2, <1>1
  <2>4. QED
    BY <2>2, <2>3, <1>1 DEF Cells
<1>3. CellOrder = [k \in 1..N |-> At(k)]
  BY DEF CellOrder
<1> HIDE DEF N, At
<1>4. CellOrder \in Seq(Cells) /\ Len(CellOrder) = N
  <2>1. CellOrder \in [1..N -> Cells]
    BY <1>2, <1>3
  <2>2. QED
    BY <2>1, <1>1
<1>5. \A k \in 1..N : CellOrder[k] = At(k)
  BY <1>3
<1>6. Cells \subseteq Range(CellOrder)
  <2> SUFFICES ASSUME NEW c \in Cells
               PROVE  \E k \in 1..N : CellOrder[k] = c
    BY <1>4, RangeEquality
  <2> DEFINE k == Width * (c[2] - 1) + (c[1] - 1) + 1
  <2>1. c[1] \in 1..Width /\ c[2] \in 1..Height /\ c = <<c[1], c[2]>>
    BY <1>1 DEF Cells
  <2>2. c[2] - 1 \in Nat /\ c[1] - 1 \in 0..(Width - 1)
    BY <2>1, <1>1
  <2>3. (k - 1) \div Width = c[2] - 1 /\ (k - 1) % Width = c[1] - 1
    <3>1. Width * (c[2] - 1) \in Int
      BY <2>2, <1>1
    <3>2. k - 1 = Width * (c[2] - 1) + (c[1] - 1)
      BY <3>1, <2>2
    <3>3. /\ (Width * (c[2] - 1) + (c[1] - 1)) \div Width = c[2] - 1
          /\ (Width * (c[2] - 1) + (c[1] - 1)) % Width = c[1] - 1
      BY <2>2, <1>1, Quotient
    <3>4. QED
      BY <3>2, <3>3
  <2>4. k \in 1..N
    <3>1. Width * (c[2] - 1) <= Width * (Height - 1)
      BY <2>1, <1>1
    <3>2. Width * (Height - 1) = N - Width
      BY <1>1 DEF N
    <3>3. Width * (c[2] - 1) \in Nat
      BY <2>2, <1>1
    <3>4. QED
      BY <3>1, <3>2, <3>3, <2>1, <1>1
  <2>5. At(k) = c
    BY <2>1, <2>3 DEF At
  <2>6. QED
    BY <2>4, <2>5, <1>5
<1>7. Injective(CellOrder)
  <2>1. ASSUME NEW i \in 1..N, NEW k \in 1..N, At(i) = At(k)
        PROVE  i = k
    BY <1>2, <2>1, Zenon
  <2>2. QED
    BY <1>4, <1>5, <2>1 DEF Injective
<1>8. QED
  BY <1>4, <1>6, <1>7, RangeOfSeq

LEMMA JoinedInjective ==
    ASSUME NEW s \in Seq(Cells), NEW t \in Seq(Cells), Injective(s), Injective(t),
           Range(s) \cap Range(t) = {}
    PROVE  Injective(s \o t)
<1>1. /\ Len(s) \in Nat /\ Len(t) \in Nat
      /\ Len(s \o t) = Len(s) + Len(t)
      /\ \A i \in 1..(Len(s) + Len(t)) : (s \o t)[i] = IF i <= Len(s) THEN s[i] ELSE t[i - Len(s)]
  BY ConcatProperties, LenProperties
<1>2. \A i \in 1..Len(s) : s[i] \in Range(s)
  BY RangeEquality
<1>3. \A i \in 1..Len(t) : t[i] \in Range(t)
  BY RangeEquality
<1> SUFFICES ASSUME NEW i \in 1..(Len(s) + Len(t)), NEW k \in 1..(Len(s) + Len(t)),
                    (s \o t)[i] = (s \o t)[k]
             PROVE  i = k
  BY <1>1 DEF Injective
<1>4. CASE i <= Len(s) /\ k <= Len(s)
  BY <1>1, <1>4 DEF Injective
<1>5. CASE i > Len(s) /\ k > Len(s)
  <2>1. i - Len(s) \in 1..Len(t) /\ k - Len(s) \in 1..Len(t)
    BY <1>1, <1>5
  <2>2. t[i - Len(s)] = t[k - Len(s)]
    BY <1>1, <1>5
  <2>3. i - Len(s) = k - Len(s)
    BY <2>1, <2>2 DEF Injective
  <2>4. QED
    BY <2>3, <1>1
<1>6. CASE i <= Len(s) /\ k > Len(s)
  <2>1. i \in 1..Len(s) /\ k - Len(s) \in 1..Len(t)
    BY <1>1, <1>6
  <2>2. s[i] = t[k - Len(s)]
    BY <1>1, <1>6
  <2>3. QED
    BY <2>1, <2>2, <1>2, <1>3
<1>7. CASE i > Len(s) /\ k <= Len(s)
  <2>1. k \in 1..Len(s) /\ i - Len(s) \in 1..Len(t)
    BY <1>1, <1>7
  <2>2. s[k] = t[i - Len(s)]
    BY <1>1, <1>7
  <2>3. QED
    BY <2>1, <2>2, <1>2, <1>3
<1>8. QED
  BY <1>1, <1>4, <1>5, <1>6, <1>7

LEMMA UnlessInjective ==
    ASSUME NEW x \in Int, NEW y \in Int, NEW visited
    PROVE  Injective(Unless(x, y, visited))
<1>1. Len(Unless(x, y, visited)) \in 0..1
  BY DEF Unless
<1>2. QED
  BY <1>1 DEF Injective

(* The eight lists of at most one cell are disjoint.                       *)
LEMMA NeighborOrderListsNeighbors ==
    ASSUME NEW c \in Cells
    PROVE  /\ NeighborOrder[c] \in Seq(Cells)
           /\ Range(NeighborOrder[c]) = Neighbors[c]
           /\ Injective(NeighborOrder[c])
<1>1. c[1] \in Int /\ c[2] \in Int
  BY BoardAssumption DEF Cells
<1>2. NeighborOrder[c] = NeighborsExcept(c, {})
  BY DEF NeighborOrder
<1> DEFINE Rank(n) == 3 * (n[2] - c[2]) + (n[1] - c[1])
           Upto(s, r) == s \in Seq(Cells) /\ Injective(s) /\ \A n \in Range(s) : Rank(n) <= r
<1>3. ASSUME NEW s, NEW r \in Int, Upto(s, r),
             NEW x \in Int, NEW y \in Int, r < Rank(<<x, y>>)
      PROVE  Upto(s \o Unless(x, y, {}), Rank(<<x, y>>))
  <2>1. /\ Unless(x, y, {}) \in Seq(Cells) /\ Injective(Unless(x, y, {}))
        /\ Range(Unless(x, y, {})) = {n \in Cells : n = <<x, y>>}
    BY UnlessCells, UnlessInjective
  <2>2. \A n \in Range(s) : n # <<x, y>>
    BY <1>1, <1>3
  <2>3. Range(s) \cap Range(Unless(x, y, {})) = {}
    BY <2>1, <2>2
  <2>4. s \o Unless(x, y, {}) \in Seq(Cells) /\ Injective(s \o Unless(x, y, {}))
    BY <1>3, <2>1, <2>3, JoinedInjective, ConcatProperties
  <2>5. Range(s \o Unless(x, y, {})) = Range(s) \cup Range(Unless(x, y, {}))
    BY <1>3, <2>1, RangeConcatenation
  <2>6. \A n \in Range(s) : n \in Cells /\ n[1] \in Int /\ n[2] \in Int
    BY <1>3, RangeOfSeq, BoardAssumption DEF Cells
  <2>7. \A n \in Range(s \o Unless(x, y, {})) : Rank(n) <= Rank(<<x, y>>)
    <3>1. ASSUME NEW n \in Range(s)
          PROVE  Rank(n) <= Rank(<<x, y>>)
      <4>1. Rank(n) <= r
        BY <1>3
      <4>2. Rank(n) \in Int /\ Rank(<<x, y>>) \in Int
        BY <1>1, <2>6
      <4>3. QED
        BY <1>3, <4>1, <4>2
    <3>2. ASSUME NEW n \in Range(Unless(x, y, {}))
          PROVE  Rank(n) <= Rank(<<x, y>>)
      BY <1>1, <2>1
    <3>3. QED
      BY <2>5, <3>1, <3>2
  <2>8. QED
    BY <2>4, <2>7
<1> DEFINE s1 == Unless(c[1] - 1, c[2] - 1, {})
           s2 == s1 \o Unless(c[1], c[2] - 1, {})
           s3 == s2 \o Unless(c[1] + 1, c[2] - 1, {})
           s4 == s3 \o Unless(c[1] - 1, c[2], {})
           s5 == s4 \o Unless(c[1] + 1, c[2], {})
           s6 == s5 \o Unless(c[1] - 1, c[2] + 1, {})
           s7 == s6 \o Unless(c[1], c[2] + 1, {})
           s8 == s7 \o Unless(c[1] + 1, c[2] + 1, {})
<1>4. /\ Rank(<<c[1] - 1, c[2] - 1>>) = -4 /\ Rank(<<c[1], c[2] - 1>>) = -3
      /\ Rank(<<c[1] + 1, c[2] - 1>>) = -2 /\ Rank(<<c[1] - 1, c[2]>>) = -1
      /\ Rank(<<c[1] + 1, c[2]>>) = 1 /\ Rank(<<c[1] - 1, c[2] + 1>>) = 2
      /\ Rank(<<c[1], c[2] + 1>>) = 3 /\ Rank(<<c[1] + 1, c[2] + 1>>) = 4
  BY <1>1
<1>5. /\ c[1] - 1 \in Int /\ c[1] + 1 \in Int /\ c[2] - 1 \in Int /\ c[2] + 1 \in Int
  BY <1>1
<1>6. Upto(s1, -4)
  <2>1. s1 \in Seq(Cells) /\ Injective(s1) /\ Range(s1) = {n \in Cells : n = <<c[1] - 1, c[2] - 1>>}
    BY <1>5, UnlessCells, UnlessInjective
  <2>2. QED
    BY <2>1, <1>4
<1> HIDE DEF Upto, Rank
<1>7. Upto(s2, -3)
  BY <1>1, <1>3, <1>4, <1>5, <1>6
<1>8. Upto(s3, -2)
  BY <1>1, <1>3, <1>4, <1>5, <1>7
<1>9. Upto(s4, -1)
  BY <1>1, <1>3, <1>4, <1>5, <1>8
<1>10. Upto(s5, 1)
  BY <1>1, <1>3, <1>4, <1>5, <1>9
<1>11. Upto(s6, 2)
  BY <1>1, <1>3, <1>4, <1>5, <1>10
<1>12. Upto(s7, 3)
  BY <1>1, <1>3, <1>4, <1>5, <1>11
<1>13. Upto(s8, 4)
  BY <1>1, <1>3, <1>4, <1>5, <1>12
<1>14. NeighborOrder[c] = s8
  BY <1>2 DEF NeighborsExcept
<1>15. NeighborsExcept(c, {}) \in Seq(Cells) /\ Range(NeighborsExcept(c, {})) = Neighbors[c]
  <2>1. Neighbors[c] \ {} = Neighbors[c]
    OBVIOUS
  <2>2. QED
    BY <2>1, NeighborsExceptVisited
<1>16. Injective(NeighborOrder[c])
  BY <1>13, <1>14 DEF Upto
<1>17. QED
  BY <1>2, <1>15, <1>16

-----------------------------------------------------------------------------
(* The invariant of the refinement                                         *)

(* With a single worker, the locals say what is left to do of the request. *)
FlagLabels == {"flag: is_flag", "flag: flags_count", "toggle_flag: load", "toggle_flag: store",
               "flag: answer"}

(* A loop has counted the cells before the k-th that are in `counted`.     *)
Seen(order, k) == {order[i] : i \in 1..(k - 1)}

Counts(j, order, counted) ==
    /\ j.k \in 1..(Len(order) + 1)
    /\ j.tally = Cardinality(Seen(order, j.k) \cap counted)

(* The mines before the k-th cell are not bad.                             *)
ScanLabels == {"board/check: is_flag", "board/check: is_revealed"}

USE DEF ScanLabels

Scanned(b, k) ==
    /\ k \in 1..(Len(CellOrder) + 1)
    /\ Seen(CellOrder, k) \cap b.mines \subseteq b.flagged \ b.revealed

(* Which loop counts what.                                                 *)
Counting(b, j) ==
    /\ j.pc \in {"flag: flags_count", "fully_revealed: flags_count"} => Counts(j, CellOrder, b.flagged)
    /\ j.pc \in {"board/check: unrevealed_count", "fully_revealed: unrevealed_count"}
           => Counts(j, CellOrder, Cells \ b.revealed)
    /\ j.pc \in ScanLabels => Scanned(b, j.k)
    /\ j.pc = "check: neighbor_flags_count" => Counts(j, NeighborOrder[j.c], b.flagged)

(* Which request is in progress.                                           *)
Asked(b, j) ==
    LET s == View(b, j) IN
    /\ j.pc = "reveal: is_flag" => j.endpoint = "cell/reveal"
    /\ j.pc \in FlagLabels \cup {"flag: is_revealed"} => j.endpoint = "cell/flag"
    /\ j.pc \in {"board/check: unrevealed_count"} \cup ScanLabels => j.endpoint = "board/check"
    /\ j.pc \in {"fully_revealed: unrevealed_count", "fully_revealed: flags_count"}
           => j.endpoint = "board/fully_revealed"
    /\ j.pc \in FloodLabels => j.endpoint \in {"cell/reveal", "cell/check"}

(* What the reads of the request so far have settled.                      *)
Settled(b, j) ==
    LET s == View(b, j) IN
    /\ j.pc \in FlagLabels => j.c \notin s.revealed
    /\ j.pc = "flag: flags_count" => j.c \notin s.flagged
    /\ j.pc \in {"toggle_flag: load", "toggle_flag: store", "flag: answer"}
           => j.c \in s.flagged \/ BombsCount(s) # 0
    /\ j.pc \in {"toggle_flag: store", "flag: answer"} => (j.old <=> j.c \in s.flagged)
    /\ j.pc = "flag: answer" => (j.c \in b.flagged <=> ~j.old)
    /\ j.pc = "check: neighbor_flags_count" => j.c \in s.revealed \ s.mines
    /\ j.pc \in {"fully_revealed: flags_count"} \cup ScanLabels => Checkable(s)
    /\ j.pc = "board/check: is_revealed" => j.k <= Len(CellOrder) /\ CellOrder[j.k] \in b.mines \cap b.flagged
    /\ j.pc = "reveal: is_flag" => j.seeds = <<>>
    /\ j.pc = "check: neighbor is_flag" => Head(j.seeds) \notin b.revealed
    /\ j.pc \in {"flood: is_revealed", "flood: set_revealed"} => Head(j.todo) \notin b.flagged
    /\ j.pc = "flood: set_revealed" => Head(j.todo) \notin b.revealed

(* The cells that the request calls reveal_cells for, and all that it should*)
(* open.                                                                   *)
StartCells(j) == IF j.endpoint = "cell/check" THEN Neighbors[j.c] ELSE {j.c}

Target(s, j) == UNION {Opened(s, n) : n \in StartCells(j)}

(* The request has passed the checks of its handler.                       *)
Admitted(s, j) ==
    \/ j.endpoint = "cell/reveal" /\ j.c \notin s.mines \cup s.flagged /\ j.seeds = <<>>
    \/ /\ j.endpoint = "cell/check" /\ j.c \in s.revealed \ s.mines
       /\ NeighborFlagsCount(s, j.c) = NeighborBombsCount(s, j.c)

(* The flood fill opens only what it should ...                            *)
Sound(s, j) ==
    /\ j.found \subseteq Target(s, j)
    /\ Range(j.todo) \cap Enterable(s) \subseteq Target(s, j)
    /\ Range(j.queue) \subseteq j.found
    /\ \A z \in Range(j.queue) : NeighborBombsCount(s, z) = 0
    /\ Range(j.seeds) \subseteq StartCells(j)

(* ... and that it has not left out any.                                   *)
Reached(j) == j.found \cup Range(j.todo)

Complete(s, j) ==
    /\ (StartCells(j) \ Range(j.seeds)) \cap Enterable(s) \subseteq Reached(j)
    /\ j.pc \in FloodLabels => j.visited \cap Enterable(s) \subseteq Reached(j)
    /\ \A z \in j.found \ Range(j.queue) :
           NeighborBombsCount(s, z) = 0 => Neighbors[z] \cap Enterable(s) \subseteq Reached(j)

(* In reveal_cells, or in the loop of cell/check around it.                *)
Exploring(b, j) ==
    /\ j.found \subseteq b.revealed
    /\ Admitted(View(b, j), j)
    /\ Sound(View(b, j), j)
    /\ Complete(View(b, j), j)

Explained(b, j) ==
    /\ Counting(b, j)
    /\ Asked(b, j)
    /\ Settled(b, j)
    /\ j.pc \in FloodLabels \cup ChordLabels => Exploring(b, j)

RInv == \A w \in Workers : Explained(board, job[w])

-----------------------------------------------------------------------------
(* The steps of Game, on the board shown                                   *)

Before == Shown(CHOOSE w \in Workers : TRUE)

(* The instance of Board under G has the operators of Board: they do not   *)
(* look at the variables.                                                  *)
LEMMA GameOperators ==
    /\ G!Coordinates = Coordinates
    /\ \A x, y : G!IsValid(x, y) <=> IsValid(x, y)
    /\ \A mines : G!FreshBoard(mines) = FreshBoard(mines)
    /\ \A b : /\ G!BombsCount(b) = BombsCount(b)
              /\ G!Checkable(b) = Checkable(b)
              /\ G!NoBadMine(b) = NoBadMine(b)
              /\ G!FullyRevealed(b) = FullyRevealed(b)
    /\ \A b, c : /\ G!Opened(b, c) = Opened(b, c)
                 /\ G!OpenedAround(b, c) = OpenedAround(b, c)
                 /\ G!NeighborBombsCount(b, c) = NeighborBombsCount(b, c)
                 /\ G!NeighborFlagsCount(b, c) = NeighborFlagsCount(b, c)
                 /\ G!RevealAll(b, c) = RevealAll(b, c)
                 /\ G!ToggleFlag(b, c) = ToggleFlag(b, c)
<1>. \A S : G!Cardinality(S) = Cardinality(S)
  BY Zenon DEF G!Cardinality, Cardinality
<1>1. G!Cells = Cells
  BY DEF G!Cells, Cells
<1>2. G!Neighbors = Neighbors
  BY <1>1 DEF G!Neighbors, Neighbors
<1>3. \A b, c : G!NeighborBombsCount(b, c) = NeighborBombsCount(b, c)
  <2> SUFFICES ASSUME NEW b, NEW c
               PROVE  G!NeighborBombsCount(b, c) = NeighborBombsCount(b, c)
    OBVIOUS
  <2>1. Cardinality(G!Neighbors[c] \cap b.mines) = Cardinality(Neighbors[c] \cap b.mines)
    BY <1>2
  <2>2. QED
    BY <2>1 DEF G!NeighborBombsCount, NeighborBombsCount
<1>4. \A b : G!Enterable(b) = Enterable(b)
  BY <1>1, Zenon DEF G!Enterable, Enterable
<1>5. \A b : G!Zeros(b) = Zeros(b)
  BY <1>3, <1>4 DEF G!Zeros, Zeros
<1>6. \A zeros, c : G!ZeroRegions(zeros, c) = ZeroRegions(zeros, c)
  BY <1>2 DEF G!ZeroRegions, ZeroRegions
<1>7. \A b, c : G!Flooded(b, c) = Flooded(b, c)
  BY <1>5, <1>6 DEF G!Flooded, Flooded
<1>8. \A b, c : G!Opened(b, c) = Opened(b, c)
  BY <1>2, <1>4, <1>7, Zenon DEF G!Opened, Opened
<1>9. \A b, c : G!OpenedAround(b, c) = OpenedAround(b, c)
  BY <1>2, <1>8, Zenon DEF G!OpenedAround, OpenedAround
<1>10. G!Coordinates = Coordinates /\ \A x, y : G!IsValid(x, y) <=> IsValid(x, y)
  BY <1>1, Zenon DEF G!Coordinates, Coordinates, G!IsValid, IsValid
<1>11. \A b : /\ G!BombsTotal(b) = BombsTotal(b)
              /\ G!FlagsCount(b) = FlagsCount(b)
              /\ G!UnrevealedCount(b) = UnrevealedCount(b)
  <2> SUFFICES ASSUME NEW b
               PROVE  /\ G!BombsTotal(b) = BombsTotal(b)
                      /\ G!FlagsCount(b) = FlagsCount(b)
                      /\ G!UnrevealedCount(b) = UnrevealedCount(b)
    OBVIOUS
  <2>1. G!BombsTotal(b) = BombsTotal(b)
    BY DEF G!BombsTotal, BombsTotal
  <2>2. G!FlagsCount(b) = FlagsCount(b)
    BY DEF G!FlagsCount, FlagsCount
  <2>3. G!UnrevealedCount(b) = UnrevealedCount(b)
    BY <1>1 DEF G!UnrevealedCount, UnrevealedCount
  <2>4. QED
    BY <2>1, <2>2, <2>3
<1>12. \A b : /\ G!BombsCount(b) = BombsCount(b)
              /\ G!Checkable(b) = Checkable(b)
              /\ G!FullyRevealed(b) = FullyRevealed(b)
  BY <1>11 DEF G!BombsCount, BombsCount, G!Checkable, Checkable, G!FullyRevealed, FullyRevealed
<1>13. \A b : G!NoBadMine(b) = NoBadMine(b)
  BY DEF G!NoBadMine, NoBadMine
<1>14. \A b, c : G!NeighborFlagsCount(b, c) = NeighborFlagsCount(b, c)
  <2> SUFFICES ASSUME NEW b, NEW c
               PROVE  G!NeighborFlagsCount(b, c) = NeighborFlagsCount(b, c)
    OBVIOUS
  <2>1. QED
    BY <1>2 DEF G!NeighborFlagsCount, NeighborFlagsCount
<1>15. \A b, c : G!RevealAll(b, c) = RevealAll(b, c) /\ G!ToggleFlag(b, c) = ToggleFlag(b, c)
  BY DEF G!RevealAll, RevealAll, G!ToggleFlag, ToggleFlag
<1>16. \A mines : G!FreshBoard(mines) = FreshBoard(mines)
  BY DEF G!FreshBoard, FreshBoard
<1> QED
  BY <1>3, <1>8, <1>9, <1>10, <1>12, <1>13, <1>14, <1>15, <1>16
(* What Game does in one step, told of the board shown.                    *)
Refuses(e, outcome) ==
    /\ reply' = Answer(e, outcome, {})
    /\ Before' = Before
    /\ boomed' = boomed

Opens(e, opened) ==
    /\ Before' = RevealAll(Before, opened)
    /\ reply' = Answer(e, IF opened \cap Before.mines # {} THEN "boom" ELSE "ok", opened)
    /\ boomed' = (boomed \/ opened \cap Before.mines # {})

(* The other coordinates are refused alike: the answer does not tell which *)
(* one it was.                                                             *)
LEMMA OutOfRange ==
    ASSUME NEW e \in CellEndpoints, Refuses(e, "out_of_range")
    PROVE  G!Next
<1>1. <<0, 1>> \in Coordinates /\ ~IsValid(0, 1)
  BY BoardAssumption DEF Coordinates, IsValid, Cells
<1>2. G!AnswerOnly(e, "out_of_range")
  BY DEF Refuses, Before, G!AnswerOnly, Answer, G!Answer
<1>3. ~G!IsValid(0, 1) /\ <<0, 1>> \in G!Coordinates
  BY <1>1, GameOperators
<1>4. G!CellReveal(0, 1) \/ G!CellFlag(0, 1) \/ G!CellCheck(0, 1)
  BY <1>2, <1>3 DEF G!CellReveal, G!CellFlag, G!CellCheck, CellEndpoints
<1>5. <<0, 1>>[1] = 0 /\ <<0, 1>>[2] = 1
  OBVIOUS
<1>6. QED
  BY <1>3, <1>4, <1>5, Zenon DEF G!Next

LEMMA OnACell ==
    ASSUME NEW c \in Cells
    PROVE  /\ IsValid(c[1], c[2]) /\ <<c[1], c[2]>> = c
           /\ G!CellReveal(c[1], c[2]) \/ G!CellFlag(c[1], c[2]) \/ G!CellCheck(c[1], c[2]) => G!Next
<1>1. c = <<c[1], c[2]>> /\ c \in Coordinates
  BY DEF Cells, Coordinates
<1>2. IsValid(c[1], c[2])
  BY <1>1 DEF IsValid
<1>3. c \in G!Coordinates
  BY <1>1, GameOperators
<1>4. G!CellReveal(c[1], c[2]) \/ G!CellFlag(c[1], c[2]) \/ G!CellCheck(c[1], c[2]) => G!Next
  BY <1>3, Zenon DEF G!Next
<1>5. QED
  BY <1>1, <1>2, <1>4

(* The outcomes of cell/reveal, of cell/flag, of cell/check and of the two *)
(* questions.                                                              *)
LEMMA GameReveals ==
    ASSUME NEW c \in Cells,
           \/ c \in Before.flagged /\ Refuses("cell/reveal", "is_flagged")
           \/ /\ c \in Before.mines \ Before.flagged
              /\ Before' = Before /\ reply' = Answer("cell/reveal", "boom", {c}) /\ boomed' = TRUE
           \/ c \notin Before.mines \cup Before.flagged /\ Opens("cell/reveal", Opened(Before, c))
    PROVE  G!Next
<1>1. IsValid(c[1], c[2]) /\ <<c[1], c[2]>> = c
  BY OnACell
<1>2. G!IsValid(c[1], c[2])
  BY <1>1, GameOperators
<1>3. CASE c \in Before.flagged /\ Refuses("cell/reveal", "is_flagged")
  <2>1. G!AnswerOnly("cell/reveal", "is_flagged")
    BY <1>3 DEF Refuses, Before, G!AnswerOnly, Answer, G!Answer
  <2>2. G!CellReveal(c[1], c[2])
    BY <1>1, <1>2, <1>3, <2>1 DEF Before, G!CellReveal
  <2>3. QED
    BY <2>2, OnACell
<1>4. CASE /\ c \in Before.mines \ Before.flagged
           /\ Before' = Before /\ reply' = Answer("cell/reveal", "boom", {c}) /\ boomed' = TRUE
  <2>2. G!CellReveal(c[1], c[2])
    BY <1>1, <1>2, <1>4 DEF Before, G!CellReveal, Answer, G!Answer
  <2>3. QED
    BY <2>2, OnACell
<1>5. CASE c \notin Before.mines \cup Before.flagged /\ Opens("cell/reveal", Opened(Before, c))
  <2>1. G!AnswerOpened("cell/reveal", G!Opened(Before, c))
    BY <1>5, GameOperators DEF Opens, Before, G!AnswerOpened, Answer, G!Answer
  <2>2. G!CellReveal(c[1], c[2])
    BY <1>1, <1>2, <1>5, <2>1 DEF Before, G!CellReveal
  <2>3. QED
    BY <2>2, OnACell
<1>6. QED
  BY <1>3, <1>4, <1>5

LEMMA GameFlags ==
    ASSUME NEW c \in Cells,
           \/ c \in Before.revealed /\ Refuses("cell/flag", "is_revealed")
           \/ /\ c \notin Before.revealed \cup Before.flagged
              /\ BombsCount(Before) = 0
              /\ Refuses("cell/flag", "no_bombs_left")
           \/ /\ c \notin Before.revealed
              /\ c \in Before.flagged \/ BombsCount(Before) # 0
              /\ Before' = ToggleFlag(Before, c)
              /\ reply' = Answer("cell/flag", IF c \in Before.flagged THEN "unflagged" ELSE "flagged", {})
              /\ boomed' = boomed
    PROVE  G!Next
<1>1. IsValid(c[1], c[2]) /\ <<c[1], c[2]>> = c
  BY OnACell
<1>2. G!IsValid(c[1], c[2])
  BY <1>1, GameOperators
<1>3. /\ G!BombsCount(Before) = BombsCount(Before)
      /\ G!ToggleFlag(Before, c) = ToggleFlag(Before, c)
  BY GameOperators
<1>4. \A outcome : Refuses("cell/flag", outcome) => G!AnswerOnly("cell/flag", outcome)
  BY DEF Refuses, Before, G!AnswerOnly, Answer, G!Answer
<1>5. G!CellFlag(c[1], c[2])
  BY <1>1, <1>2, <1>3, <1>4 DEF Before, G!CellFlag, Answer, G!Answer
<1>6. QED
  BY <1>5, OnACell

LEMMA GameChecks ==
    ASSUME NEW c \in Cells,
           \/ c \notin Before.revealed /\ Refuses("cell/check", "not_revealed")
           \/ c \in Before.revealed \cap Before.mines /\ Refuses("cell/check", "is_bomb")
           \/ /\ c \in Before.revealed \ Before.mines
              /\ NeighborFlagsCount(Before, c) # NeighborBombsCount(Before, c)
              /\ Refuses("cell/check", "flags_mismatch")
           \/ /\ c \in Before.revealed \ Before.mines
              /\ NeighborFlagsCount(Before, c) = NeighborBombsCount(Before, c)
              /\ Opens("cell/check", OpenedAround(Before, c))
    PROVE  G!Next
<1>1. IsValid(c[1], c[2]) /\ <<c[1], c[2]>> = c
  BY OnACell
<1>2. G!IsValid(c[1], c[2])
  BY <1>1, GameOperators
<1>3. /\ G!NeighborFlagsCount(Before, c) = NeighborFlagsCount(Before, c)
      /\ G!NeighborBombsCount(Before, c) = NeighborBombsCount(Before, c)
      /\ G!OpenedAround(Before, c) = OpenedAround(Before, c)
  BY GameOperators
<1>4. \A outcome : Refuses("cell/check", outcome) => G!AnswerOnly("cell/check", outcome)
  BY DEF Refuses, Before, G!AnswerOnly, Answer, G!Answer
<1>5. \A opened : Opens("cell/check", opened) => G!AnswerOpened("cell/check", opened)
  BY GameOperators DEF Opens, Before, G!AnswerOpened, Answer, G!Answer
<1>6. G!CellCheck(c[1], c[2])
  BY <1>1, <1>2, <1>3, <1>4, <1>5 DEF Before, G!CellCheck
<1>7. QED
  BY <1>6, OnACell

LEMMA GameAnswersQueries ==
    ASSUME \/ ~Checkable(Before) /\ Refuses("board/check", "unrevealed_left")
           \/ Checkable(Before) /\ Refuses("board/check", IF NoBadMine(Before) THEN "win" ELSE "lose")
           \/ Refuses("board/fully_revealed", IF FullyRevealed(Before) THEN "true" ELSE "false")
    PROVE  G!Next
<1>1. \A e, outcome : Refuses(e, outcome) => G!AnswerOnly(e, outcome)
  BY DEF Refuses, Before, G!AnswerOnly, Answer, G!Answer
<1>2. /\ G!Checkable(Before) = Checkable(Before)
      /\ G!NoBadMine(Before) = NoBadMine(Before)
      /\ G!FullyRevealed(Before) = FullyRevealed(Before)
  BY GameOperators
<1>3. G!BoardCheck \/ G!BoardFullyRevealed
  BY <1>1, <1>2, Zenon DEF Before, G!BoardCheck, G!BoardFullyRevealed
<1>4. QED
  BY <1>3 DEF G!Next

-----------------------------------------------------------------------------
(* A step of the worker is a step of Game or shows nothing                 *)

(* One worker, which has kept to the code until now.                       *)
Playing(w) ==
    /\ Workers = {w}
    /\ KeepAnswer
    /\ Typed
    /\ JobsOK
    /\ RInv

Plays(w) ==
    /\ Explained(board', job'[w])
    /\ G!Next \/ UNCHANGED <<Before, reply, boomed>>

(* A loop begins with no cell counted, counts one at a time, and ends with *)
(* all of them counted.                                                    *)
LEMMA Counted0 ==
    ASSUME NEW order \in Seq(Cells), NEW counted, NEW j, j.k = 1, j.tally = 0
    PROVE  Counts(j, order, counted)
<1>1. Seen(order, j.k) = {}
  BY DEF Seen
<1>2. Len(order) \in Nat
  BY LenProperties
<1>3. Seen(order, j.k) \cap counted = {}
  BY <1>1
<1>4. Cardinality(Seen(order, j.k) \cap counted) = 0
  BY <1>3, FS_EmptySet
<1>5. QED
  BY <1>2, <1>4 DEF Counts

LEMMA CountedMore ==
    ASSUME NEW order \in Seq(Cells), Injective(order), NEW counted, NEW j \in Locals,
           Counts(j, order, counted), j.k <= Len(order),
           NEW l, l.k = j.k + 1,
           l.tally = j.tally + IF order[j.k] \in counted THEN 1 ELSE 0
    PROVE  Counts(l, order, counted)
<1> DEFINE S == Seen(order, j.k) \cap counted
<1>1. Len(order) \in Nat /\ j.k \in 1..Len(order) /\ \A i \in 1..Len(order) : order[i] \in Cells
  BY LenProperties, ElementOfSeq DEF Counts
<1>2. Seen(order, l.k) = Seen(order, j.k) \cup {order[j.k]}
  <2>1. 1..(l.k - 1) = 1..(j.k - 1) \cup {j.k}
    BY <1>1
  <2>2. QED
    BY <2>1 DEF Seen
<1>3. order[j.k] \notin Seen(order, j.k)
  <2> SUFFICES ASSUME NEW i \in 1..(j.k - 1), order[i] = order[j.k]
               PROVE  FALSE
    BY DEF Seen
  <2>1. i \in 1..Len(order) /\ i # j.k
    BY <1>1
  <2>2. QED
    BY <1>1, <2>1 DEF Injective
<1>4. S \subseteq Cells
  BY <1>1 DEF Seen
<1>5. IsFiniteSet(S) /\ Cardinality(S) \in Nat
  BY <1>4, CellSets
<1>6. l.k \in 1..(Len(order) + 1)
  BY <1>1
<1>7. CASE order[j.k] \in counted
  <2>1. Seen(order, l.k) \cap counted = S \cup {order[j.k]}
    BY <1>2, <1>7
  <2>2. Cardinality(S \cup {order[j.k]}) = Cardinality(S) + 1
    BY <1>3, <1>5, FS_AddElement
  <2>3. l.tally = Cardinality(S) + 1
    BY <1>7 DEF Counts
  <2>4. QED
    BY <1>6, <2>1, <2>2, <2>3 DEF Counts
<1>8. CASE order[j.k] \notin counted
  <2>1. Seen(order, l.k) \cap counted = S
    BY <1>2, <1>8
  <2>2. l.tally = Cardinality(S)
    BY <1>5, <1>8 DEF Counts
  <2>3. QED
    BY <1>6, <2>1, <2>2 DEF Counts
<1>9. QED
  BY <1>7, <1>8

LEMMA CountedAll ==
    ASSUME NEW order \in Seq(Cells), NEW counted, NEW j, Counts(j, order, counted), j.k > Len(order)
    PROVE  j.tally = Cardinality(Range(order) \cap counted)
<1>1. Len(order) \in Nat
  BY LenProperties
<1>2. j.k - 1 = Len(order)
  BY <1>1 DEF Counts
<1>3. Seen(order, j.k) = Range(order)
  BY <1>2, RangeEquality DEF Seen
<1>4. QED
  BY <1>3 DEF Counts

(* What is known before a step.                                            *)
LEMMA Now ==
    ASSUME NEW w, Playing(w)
    PROVE  /\ w \in Workers
           /\ board \in Boards
           /\ job[w] \in Locals
           /\ JobOK(job[w])
           /\ Explained(board, job[w])
           /\ boomed \in BOOLEAN
           /\ Before = View(board, job[w])
           /\ Before' = View(board', job'[w])
<1>1. w \in Workers
  BY DEF Playing
<1>2. (CHOOSE v \in Workers : TRUE) = w
  BY DEF Playing
<1>3. Before = Shown(w) /\ Before' = Shown(w)'
  BY <1>2 DEF Before
<1>4. QED
  BY <1>1, <1>3, Zenon DEF Playing, Typed, JobsOK, RInv, Shown, View

(* The board shown lacks the cells found, and has the flag back.           *)
LEMMA Viewed ==
    ASSUME NEW b \in Boards, NEW j \in Locals
    PROVE  /\ View(b, j) \in Boards
           /\ View(b, j).mines = b.mines
           /\ View(b, j).revealed = b.revealed \ j.found
           /\ j.pc # "flag: answer" => View(b, j).flagged = b.flagged
           /\ j.pc # "flag: answer" /\ j.found = {} => View(b, j) = b
<1>1. /\ b.mines \in SUBSET Cells /\ b.flagged \in SUBSET Cells /\ b.revealed \in SUBSET Cells
      /\ b = [mines |-> b.mines, flagged |-> b.flagged, revealed |-> b.revealed]
      /\ j.c \in Cells
  BY DEF Boards, Locals
<1> DEFINE flagged == IF j.pc # "flag: answer" THEN b.flagged
                      ELSE IF j.old THEN b.flagged \cup {j.c} ELSE b.flagged \ {j.c}
<1> DEFINE revealed == b.revealed \ j.found
<1>2. flagged \in SUBSET Cells /\ (j.pc # "flag: answer" => flagged = b.flagged)
  BY <1>1
<1>3. View(b, j) = [b EXCEPT !.revealed = revealed, !.flagged = flagged]
  BY DEF View
<1> HIDE DEF flagged
<1>4. View(b, j) = [mines |-> b.mines, flagged |-> flagged, revealed |-> revealed]
  BY <1>1, <1>3
<1>5. View(b, j) \in Boards
  <2>1. revealed \in SUBSET Cells
    BY <1>1
  <2>2. b.mines \in SUBSET Cells /\ flagged \in SUBSET Cells
    BY <1>1, <1>2
  <2> HIDE DEF revealed
  <2>3. [mines |-> b.mines, flagged |-> flagged, revealed |-> revealed] \in Boards
    BY <2>1, <2>2 DEF Boards
  <2>4. QED
    BY <1>4, <2>3
<1>6. j.found = {} => revealed = b.revealed
  OBVIOUS
<1>7. j.pc # "flag: answer" /\ j.found = {} => View(b, j) = b
  BY <1>1, <1>2, <1>4, <1>6
<1>8. View(b, j).mines = b.mines /\ View(b, j).revealed = revealed /\ View(b, j).flagged = flagged
  BY <1>4
<1>9. QED
  BY <1>2, <1>5, <1>7, <1>8

LEMMA IdleExplained == \A b : Explained(b, Idle) /\ (b \in Boards => View(b, Idle) = b)
<1>1. Idle.pc = "idle" /\ Idle.found = {}
  BY DEF Idle
<1>2. \A b : Explained(b, Idle)
  BY <1>1 DEF Explained, Counting, Asked, Settled, FlagLabels, FloodLabels, ChordLabels
<1>3. \A b \in Boards : View(b, Idle) = b
  BY <1>1, IdleIsLocal, Viewed
<1>4. QED
  BY <1>2, <1>3

(* A step that shows nothing: the board shown, the answer and the history  *)
(* stay.                                                                   *)
LEMMA Silent ==
    ASSUME NEW w, Playing(w), NEW l,
           job' = [job EXCEPT ![w] = l],
           reply' = reply, boomed' = boomed,
           View(board', l) = View(board, job[w]),
           Explained(board', l)
    PROVE  Plays(w)
<1>1. job'[w] = l
  BY Now DEF Playing, Typed
<1>2. Before' = Before
  BY <1>1, Now
<1>3. QED
  BY <1>1, <1>2 DEF Plays

(* An answer shows the board as it is: the worker is idle again.           *)
LEMMA Sent ==
    ASSUME NEW w, Playing(w), NEW outcome, NEW cells, NEW shown,
           Send(w, outcome, cells, shown), board' = board
    PROVE  /\ Explained(board', job'[w])
           /\ Before' = board
           /\ reply' = Answer(job[w].endpoint, outcome, cells)
           /\ boomed' = (boomed \/ outcome = "boom")
<1>1. job'[w] = Idle
  BY Now DEF Playing, Typed, Send
<1>2. Explained(board', job'[w])
  BY <1>1, IdleExplained
<1>3. Before' = board
  BY <1>1, Now, IdleExplained
<1>4. KeepAnswer
  BY DEF Playing
<1>5. reply' = Answer(job[w].endpoint, outcome, cells) /\ boomed' = (boomed \/ outcome = "boom")
  BY <1>4 DEF Send
<1>6. QED
  BY <1>2, <1>3, <1>5

LEMMA Refused ==
    ASSUME NEW w, Playing(w), NEW outcome,
           Refuse(w, outcome), outcome # "boom", board' = board, View(board, job[w]) = board
    PROVE  /\ Explained(board', job'[w])
           /\ Before = board
           /\ Refuses(job[w].endpoint, outcome)
<1>1. /\ Explained(board', job'[w])
      /\ Before' = board
      /\ reply' = Answer(job[w].endpoint, outcome, {})
      /\ boomed' = (boomed \/ outcome = "boom")
  BY Sent DEF Refuse
<1>2. Before = board /\ boomed \in BOOLEAN
  BY Now
<1>3. boomed' = boomed
  BY <1>1, <1>2
<1>4. QED
  BY <1>1, <1>2, <1>3 DEF Refuses

(* The same for a step that leaves the board alone.                        *)
LEMMA GoesOn ==
    ASSUME NEW w, Playing(w), NEW l,
           Continue(w, l), board' = board,
           View(board, l) = View(board, job[w]),
           Explained(board, l)
    PROVE  Plays(w)
BY Silent DEF Continue

(* Outside reveal_cells and the loop of cell/check.                        *)
Plain(j) == j.pc \notin FloodLabels \cup ChordLabels \cup {"flag: answer"} /\ j.found = {}

LEMMA PlainView ==
    ASSUME NEW b \in Boards, NEW j \in Locals, JobOK(j), j.pc \notin FloodLabels \cup ChordLabels \cup {"flag: answer"}
    PROVE  Plain(j) /\ View(b, j) = b
BY Viewed DEF JobOK, Plain

LEMMA CountFields ==
    ASSUME NEW j \in Locals, NEW n \in {0, 1},
           NEW l, l = [j EXCEPT !.k = @ + 1, !.tally = @ + n]
    PROVE  /\ l \in Locals
           /\ l.pc = j.pc /\ l.k = j.k + 1 /\ l.tally = j.tally + n
           /\ l.endpoint = j.endpoint /\ l.c = j.c /\ l.old = j.old /\ l.found = j.found
           /\ l.seeds = j.seeds
<1>1. j.k + 1 \in Nat /\ j.tally + n \in Nat
  BY DEF Locals
<1>2. l \in Locals
  BY <1>1 DEF Locals
<1>3. QED
  BY <1>2 DEF Locals

(* A read of a counting loop: nothing but the count goes on.               *)
LEMMA CountPlays ==
    ASSUME NEW w, Playing(w), NEW label, NEW order \in Seq(Cells), Injective(order), NEW counted,
           Count(w, label, order, counted),
           label \notin FloodLabels \cup ChordLabels \cup ScanLabels \cup (FlagLabels \ {"flag: flags_count"}),
           Counts(job[w], order, counted),
           \A l : l.pc = label /\ l.c = job[w].c /\ Counts(l, order, counted) => Counting(board, l)
    PROVE  Plays(w)
<1> DEFINE j == job[w]
           n == IF order[j.k] \in counted THEN 1 ELSE 0
           l == [j EXCEPT !.k = @ + 1, !.tally = @ + n]
<1>1. /\ j \in Locals /\ JobOK(j) /\ board \in Boards /\ Explained(board, j)
  BY Now
<1>2. j.pc = label /\ j.k <= Len(order) /\ board' = board /\ Continue(w, l)
  BY DEF Count
<1>3. n \in {0, 1}
  OBVIOUS
<1> HIDE DEF n
<1>4. l = [j EXCEPT !.k = @ + 1, !.tally = @ + n]
  OBVIOUS
<1> HIDE DEF l
<1>5. /\ l \in Locals
      /\ l.pc = j.pc /\ l.k = j.k + 1 /\ l.tally = j.tally + n
      /\ l.endpoint = j.endpoint /\ l.c = j.c /\ l.old = j.old /\ l.found = j.found
      /\ l.seeds = j.seeds
  <2> HIDE DEF j
  <2>1. QED
    BY <1>1, <1>3, <1>4, CountFields, Zenon
<1>6. Counts(l, order, counted)
  BY <1>1, <1>2, <1>5, CountedMore DEF n
<1>7. Counting(board, l)
  BY <1>2, <1>5, <1>6
<1>8. View(board, j) = board /\ View(board, l) = board
  BY <1>1, <1>2, <1>5, PlainView, Viewed DEF Plain, FlagLabels
<1>9. Asked(board, j) /\ Settled(board, j)
  BY <1>1 DEF Explained
<1>10. Asked(board, l)
  BY <1>5, <1>9, Zenon DEF Asked
<1>11. Settled(board, l)
  BY <1>2, <1>5, <1>8, <1>9 DEF Settled, FloodLabels, ChordLabels, FlagLabels
<1>12. Explained(board, l)
  BY <1>2, <1>5, <1>7, <1>10, <1>11 DEF Explained
<1>13. QED
  BY <1>2, <1>8, <1>12, GoesOn

LEMMA FreshCounting ==
    ASSUME NEW b, NEW j \in Locals, j.k = 1, j.tally = 0
    PROVE  Counting(b, j)
<1>1. j.c \in Cells
  BY DEF Locals
<1>2. Scanned(b, 1)
  BY CellOrderListsCells, LenProperties DEF Scanned, Seen
<1>3. QED
  BY <1>1, <1>2, Counted0, CellOrderListsCells, NeighborOrderListsNeighbors DEF Counting

(* The next read of a request that has not changed the board yet.          *)
LEMMA GotoPlays ==
    ASSUME NEW w, Playing(w),
           NEW label \in Labels \ (FloodLabels \cup ChordLabels \cup {"flag: answer", "toggle_flag: store"}),
           Goto(w, label), board' = board,
           job[w].pc \notin FloodLabels \cup ChordLabels \cup {"flag: answer"},
           \A l : l.pc = label /\ l.endpoint = job[w].endpoint => Asked(board, l),
           \A l : l.pc = label /\ l.c = job[w].c /\ View(board, l) = board => Settled(board, l)
    PROVE  Plays(w)
<1> DEFINE j == job[w]
           l == [j EXCEPT !.pc = label, !.k = 1, !.tally = 0]
<1>1. j \in Locals /\ JobOK(j) /\ board \in Boards /\ Continue(w, l)
  BY Now DEF Goto
<1>2. /\ l \in Locals
      /\ l.pc = label /\ l.k = 1 /\ l.tally = 0
      /\ l.endpoint = j.endpoint /\ l.c = j.c /\ l.found = j.found
  <2>1. l \in Locals
    BY <1>1 DEF Locals
  <2>2. QED
    BY <1>1, <2>1 DEF Locals
<1> HIDE DEF l
<1>3. View(board, j) = board /\ View(board, l) = board
  BY <1>1, <1>2, PlainView, Viewed DEF Plain
<1>4. Counting(board, l) /\ Asked(board, l) /\ Settled(board, l)
  BY <1>2, <1>3, FreshCounting
<1>5. Explained(board, l)
  BY <1>2, <1>4 DEF Explained
<1>6. QED
  BY <1>1, <1>3, <1>5, GoesOn

(* The cells that a finished loop has counted.                             *)
LEMMA CountedBoard ==
    ASSUME NEW w, Playing(w), NEW counted, Counts(job[w], CellOrder, counted), job[w].k > Len(CellOrder)
    PROVE  job[w].tally = Cardinality(Cells \cap counted)
BY CountedAll, CellOrderListsCells

LEMMA PlainNow ==
    ASSUME NEW w, Playing(w), job[w].pc \notin FloodLabels \cup ChordLabels \cup {"flag: answer"}
    PROVE  /\ Before = board /\ View(board, job[w]) = board
           /\ job[w] \in Locals /\ job[w].c \in Cells
           /\ board \in Boards
           /\ Counting(board, job[w]) /\ Asked(board, job[w]) /\ Settled(board, job[w])
BY Now, PlainView DEF Explained, Locals

-----------------------------------------------------------------------------
(* cell/flag                                                               *)

LEMMA BoardUpdate ==
    ASSUME NEW b \in Boards, NEW f \in SUBSET Cells, NEW r \in SUBSET Cells
    PROVE  [b EXCEPT !.revealed = r, !.flagged = f] = [mines |-> b.mines, flagged |-> f, revealed |-> r]
<1> DEFINE x == [b EXCEPT !.revealed = r]
<1>1. x = [mines |-> b.mines, flagged |-> b.flagged, revealed |-> r] /\ x \in Boards
  BY DEF Boards
<1>2. [x EXCEPT !.flagged = f] = [mines |-> b.mines, flagged |-> f, revealed |-> r]
  <2> HIDE DEF x
  <2>1. QED
    BY <1>1 DEF Boards
<1>3. QED
  BY <1>2

(* The store of toggle_flag stays unseen until the answer.                 *)
LEMMA FlagPlays ==
    ASSUME NEW w, Playing(w), Flag(w)
    PROVE  Plays(w)
<1> DEFINE j == job[w]
<1> USE DEF FloodLabels, ChordLabels
<1>1. CASE FlagIsRevealed(w)
  <2>1. j.pc = "flag: is_revealed" /\ board' = board
    BY <1>1 DEF FlagIsRevealed
  <2>2. Before = board /\ View(board, j) = board /\ j.c \in Cells /\ j.endpoint = "cell/flag"
    BY <2>1, PlainNow DEF Asked
  <2>3. CASE j.c \in board.revealed
    <3>1. Refuse(w, "is_revealed")
      BY <1>1, <2>3 DEF FlagIsRevealed
    <3>2. Explained(board', job'[w]) /\ Refuses("cell/flag", "is_revealed")
      BY <2>1, <2>2, <3>1, Refused
    <3>3. QED
      BY <2>2, <2>3, <3>2, GameFlags DEF Plays
  <2>4. CASE j.c \notin board.revealed
    <3>1. Goto(w, "flag: is_flag")
      BY <1>1, <2>4 DEF FlagIsRevealed
    <3>2. "flag: is_flag" \in Labels
      BY DEF Labels
    <3>3. \A l : l.pc = "flag: is_flag" /\ l.endpoint = j.endpoint => Asked(board, l)
      BY <2>2 DEF Asked, FlagLabels
    <3>4. \A l : l.pc = "flag: is_flag" /\ l.c = j.c /\ View(board, l) = board => Settled(board, l)
      BY <2>4 DEF Settled, FlagLabels
    <3>5. QED
      BY <2>1, <3>1, <3>2, <3>3, <3>4, GotoPlays
  <2>5. QED
    BY <2>3, <2>4
<1>2. CASE FlagIsFlag(w)
  <2>1. j.pc = "flag: is_flag" /\ board' = board
    BY <1>2 DEF FlagIsFlag
  <2>2. Before = board /\ View(board, j) = board /\ j.c \in Cells /\ j.endpoint = "cell/flag" /\ j.c \notin board.revealed
    BY <2>1, PlainNow DEF Asked, Settled, FlagLabels
  <2>3. \A label \in {"toggle_flag: load", "flag: flags_count"} : \A l :
            l.pc = label /\ l.endpoint = j.endpoint => Asked(board, l)
    BY <2>2 DEF Asked, FlagLabels
  <2>4. {"toggle_flag: load", "flag: flags_count"} \subseteq Labels
    BY DEF Labels
  <2>5. CASE j.c \in board.flagged
    <3>1. Goto(w, "toggle_flag: load")
      BY <1>2, <2>5 DEF FlagIsFlag
    <3>4. \A l : l.pc = "toggle_flag: load" /\ l.c = j.c /\ View(board, l) = board => Settled(board, l)
      BY <2>2, <2>5 DEF Settled, FlagLabels
    <3>5. QED
      BY <2>1, <2>3, <2>4, <3>1, <3>4, GotoPlays
  <2>6. CASE j.c \notin board.flagged
    <3>1. Goto(w, "flag: flags_count")
      BY <1>2, <2>6 DEF FlagIsFlag
    <3>4. \A l : l.pc = "flag: flags_count" /\ l.c = j.c /\ View(board, l) = board => Settled(board, l)
      BY <2>2, <2>6 DEF Settled, FlagLabels
    <3>5. QED
      BY <2>1, <2>3, <2>4, <3>1, <3>4, GotoPlays
  <2>7. QED
    BY <2>5, <2>6
<1>3. CASE FlagBombsCount(w)
  <2>1. j.pc = "flag: flags_count" /\ board' = board
    BY <1>3 DEF FlagBombsCount, Count, Counted
  <2>2. /\ Before = board /\ View(board, j) = board /\ j.c \in Cells /\ j.endpoint = "cell/flag"
        /\ j.c \notin board.revealed /\ j.c \notin board.flagged
        /\ Counts(j, CellOrder, board.flagged)
    BY <2>1, PlainNow DEF Asked, Settled, Counting, FlagLabels
  <2>3. CASE Count(w, "flag: flags_count", CellOrder, board.flagged)
    <3>1. \A l : l.pc = "flag: flags_count" /\ Counts(l, CellOrder, board.flagged) => Counting(board, l)
      BY DEF Counting
    <3>2. QED
      BY <2>2, <2>3, <3>1, CountPlays, CellOrderListsCells
  <2>4. CASE /\ Counted(w, "flag: flags_count", CellOrder)
             /\ IF BombsTotal(board) - j.tally = 0
                THEN Refuse(w, "no_bombs_left") ELSE Goto(w, "toggle_flag: load")
    <3>1. j.tally = FlagsCount(board)
      <4>1. j.tally = Cardinality(Cells \cap board.flagged)
        BY <2>2, <2>4, CountedBoard DEF Counted
      <4>2. Cells \cap board.flagged = board.flagged
        BY Now DEF Boards
      <4>3. QED
        BY <4>1, <4>2 DEF FlagsCount
    <3>2. CASE BombsTotal(board) - j.tally = 0
      <4>1. Refuse(w, "no_bombs_left")
        BY <2>4, <3>2
      <4>2. Explained(board', job'[w]) /\ Refuses("cell/flag", "no_bombs_left")
        BY <2>1, <2>2, <4>1, Refused
      <4>3. BombsCount(Before) = 0
        BY <2>2, <3>1, <3>2 DEF BombsCount
      <4>4. QED
        BY <2>2, <4>2, <4>3, GameFlags DEF Plays
    <3>3. CASE BombsTotal(board) - j.tally # 0
      <4>1. Goto(w, "toggle_flag: load")
        BY <2>4, <3>3
      <4>2. \A l : l.pc = "toggle_flag: load" /\ l.endpoint = j.endpoint => Asked(board, l)
        BY <2>2 DEF Asked, FlagLabels
      <4>3. \A l : l.pc = "toggle_flag: load" /\ l.c = j.c /\ View(board, l) = board => Settled(board, l)
        BY <2>2, <3>1, <3>3 DEF Settled, FlagLabels, BombsCount
      <4>4. "toggle_flag: load" \in Labels
        BY DEF Labels
      <4>5. QED
        BY <2>1, <4>1, <4>2, <4>3, <4>4, GotoPlays
    <3>4. QED
      BY <3>2, <3>3
  <2>5. QED
    BY <1>3, <2>3, <2>4 DEF FlagBombsCount
<1>4. CASE ToggleLoad(w)
  <2> DEFINE l == [j EXCEPT !.pc = "toggle_flag: store", !.old = j.c \in board.flagged]
  <2>1. j.pc = "toggle_flag: load" /\ board' = board /\ Continue(w, l)
    BY <1>4 DEF ToggleLoad
  <2>2. /\ View(board, j) = board /\ j \in Locals /\ board \in Boards /\ j.endpoint = "cell/flag"
        /\ j.c \notin board.revealed
        /\ j.c \in board.flagged \/ BombsCount(board) # 0
    BY <2>1, PlainNow DEF Asked, Settled, FlagLabels
  <2>3. /\ l \in Locals /\ l.pc = "toggle_flag: store" /\ (l.old <=> j.c \in board.flagged)
        /\ l.endpoint = j.endpoint /\ l.c = j.c /\ l.found = j.found
    <3>1. (j.c \in board.flagged) \in BOOLEAN /\ "toggle_flag: store" \in Labels
      BY DEF Labels
    <3>2. l \in Locals
      BY <2>2, <3>1 DEF Locals
    <3>3. QED
      BY <2>2, <3>2 DEF Locals
  <2> HIDE DEF l
  <2>4. View(board, l) = board
    <3>1. JobOK(j)
      BY Now
    <3>2. j.found = {}
      BY <2>1, <3>1 DEF JobOK
    <3>3. QED
      BY <2>2, <2>3, <3>2, Viewed
  <2>5. Explained(board, l)
    BY <2>2, <2>3, <2>4 DEF Explained, Counting, Asked, Settled, FlagLabels
  <2>6. QED
    BY <2>1, <2>2, <2>4, <2>5, GoesOn
<1>5. CASE ToggleStore(w)
  <2> DEFINE l == [j EXCEPT !.pc = "flag: answer"]
  <2>1. /\ j.pc = "toggle_flag: store"
        /\ board' = [board EXCEPT !.flagged = IF j.old THEN @ \ {j.c} ELSE @ \cup {j.c}]
        /\ reply' = reply /\ boomed' = boomed
        /\ job' = [job EXCEPT ![w].pc = "flag: answer"]
    BY <1>5 DEF ToggleStore
  <2>2. /\ View(board, j) = board /\ j \in Locals /\ board \in Boards /\ j.endpoint = "cell/flag"
        /\ j.c \in Cells /\ j.c \notin board.revealed
        /\ j.c \in board.flagged \/ BombsCount(board) # 0
        /\ (j.old <=> j.c \in board.flagged)
    BY <2>1, PlainNow DEF Asked, Settled, FlagLabels
  <2>3. /\ l \in Locals /\ l.pc = "flag: answer" /\ l.old = j.old
        /\ l.endpoint = j.endpoint /\ l.c = j.c /\ l.found = j.found
    <3>1. "flag: answer" \in Labels
      BY DEF Labels
    <3>2. l \in Locals
      BY <2>2, <3>1 DEF Locals
    <3>3. QED
      BY <2>2, <3>2 DEF Locals
  <2>4. job' = [job EXCEPT ![w] = l]
    BY <2>1
  <2> HIDE DEF l
  <2>5. j.found = {}
    <3>1. JobOK(j)
      BY Now
    <3>2. QED
      BY <2>1, <3>1 DEF JobOK
  <2>6. /\ board'.flagged = IF j.c \in board.flagged THEN board.flagged \ {j.c} ELSE board.flagged \cup {j.c}
        /\ board' \in Boards /\ board'.mines = board.mines /\ board'.revealed = board.revealed
    <3>1. CASE j.c \in board.flagged
      BY <2>1, <2>2, <3>1 DEF Boards
    <3>2. CASE j.c \notin board.flagged
      BY <2>1, <2>2, <3>2 DEF Boards
    <3>3. QED
      BY <3>1, <3>2
  <2>7. View(board', l) = board
    <3>1. View(board', l) = [board' EXCEPT !.revealed = board'.revealed,
                                 !.flagged = IF l.old THEN board'.flagged \cup {l.c} ELSE board'.flagged \ {l.c}]
      BY <2>3, <2>5 DEF View
    <3>2. (IF l.old THEN board'.flagged \cup {l.c} ELSE board'.flagged \ {l.c}) = board.flagged
      BY <2>2, <2>3, <2>6
    <3>3. /\ board' = [mines |-> board.mines, flagged |-> board'.flagged, revealed |-> board.revealed]
          /\ board = [mines |-> board.mines, flagged |-> board.flagged, revealed |-> board.revealed]
      BY <2>2, <2>6 DEF Boards
    <3>4. View(board', l) = [mines |-> board.mines, flagged |-> board.flagged, revealed |-> board.revealed]
      <4> DEFINE b == board'
                 f == IF l.old THEN board'.flagged \cup {l.c} ELSE board'.flagged \ {l.c}
      <4>1. View(board', l) = [b EXCEPT !.revealed = b.revealed, !.flagged = f]
        BY <3>1
      <4>2. f = board.flagged /\ b.revealed = board.revealed
        BY <2>6, <3>2
      <4> HIDE DEF f
      <4>3. QED
        BY <2>2, <2>6, <4>1, <4>2, BoardUpdate DEF Boards
    <3>5. QED
      BY <3>3, <3>4
  <2>8. l.c \in board'.flagged <=> ~l.old
    BY <2>2, <2>3, <2>6
  <2>9. Explained(board', l)
    BY <2>2, <2>3, <2>7, <2>8 DEF Explained, Counting, Asked, Settled, FlagLabels
  <2>10. QED
    BY <2>1, <2>2, <2>4, <2>7, <2>9, Silent
<1>6. CASE FlagAnswer(w)
  <2> DEFINE s == View(board, j)
  <2>1. j.pc = "flag: answer" /\ board' = board
    BY <1>6 DEF FlagAnswer
  <2>2. /\ Before = s /\ j \in Locals /\ board \in Boards /\ j.endpoint = "cell/flag"
        /\ j.c \in Cells /\ j.c \notin s.revealed
        /\ j.c \in s.flagged \/ BombsCount(s) # 0
        /\ (j.old <=> j.c \in s.flagged)
        /\ (j.c \in board.flagged <=> ~j.old)
        /\ JobOK(j)
    BY <2>1, Now DEF Explained, Asked, Settled, FlagLabels, Locals
  <2>3. j.found = {}
    BY <2>1, <2>2 DEF JobOK
  <2>4. board = ToggleFlag(s, j.c)
    <3>1. s = [board EXCEPT !.revealed = board.revealed,
                            !.flagged = IF j.old THEN board.flagged \cup {j.c} ELSE board.flagged \ {j.c}]
      BY <2>1, <2>3 DEF View
    <3>2. CASE j.c \in s.flagged
      BY <2>2, <3>1, <3>2 DEF Boards, ToggleFlag
    <3>3. CASE j.c \notin s.flagged
      BY <2>2, <3>1, <3>3 DEF Boards, ToggleFlag
    <3>4. QED
      BY <3>2, <3>3
  <2> DEFINE outcome == IF j.c \in s.flagged THEN "unflagged" ELSE "flagged"
  <2>5. Send(w, outcome, {}, {})
    BY <1>6, <2>2 DEF FlagAnswer
  <2> HIDE DEF outcome
  <2>6. /\ Explained(board', job'[w])
        /\ Before' = board
        /\ reply' = Answer("cell/flag", outcome, {})
        /\ boomed' = (boomed \/ outcome = "boom")
    BY <2>1, <2>2, <2>5, Sent
  <2>7. boomed' = boomed
    BY <2>6, Now DEF outcome
  <2> HIDE DEF s
  <2>8. G!Next
    BY <2>2, <2>4, <2>6, <2>7, GameFlags DEF outcome
  <2>9. QED
    BY <2>6, <2>8 DEF Plays
<1>7. QED
  BY <1>1, <1>2, <1>3, <1>4, <1>5, <1>6 DEF Flag

-----------------------------------------------------------------------------
(* Taking a request, and the questions about the end                       *)

LEMMA TakePlays ==
    ASSUME NEW w, Playing(w), Take(w)
    PROVE  Plays(w)
<1>1. /\ job[w].pc = "idle" /\ board' = board /\ board \in Boards
      /\ View(board, job[w]) = board /\ Explained(board, job[w])
  BY Now, PlainNow DEF Take, FloodLabels, ChordLabels
<1>2. ASSUME NEW e \in Requested, NEW c \in Cells,
             Continue(w, [Idle EXCEPT !.pc = FirstRead[e], !.endpoint = e, !.c = c])
      PROVE  Plays(w)
  <2> DEFINE l == [Idle EXCEPT !.pc = FirstRead[e], !.endpoint = e, !.c = c]
  <2>1. /\ FirstRead[e] \in Labels /\ e \in Endpoints
        /\ \/ e = "cell/reveal" /\ FirstRead[e] = "reveal: is_flag"
           \/ e = "cell/flag" /\ FirstRead[e] = "flag: is_revealed"
           \/ e = "cell/check" /\ FirstRead[e] = "check: is_revealed"
           \/ e = "board/check" /\ FirstRead[e] = "board/check: unrevealed_count"
           \/ e = "board/fully_revealed" /\ FirstRead[e] = "fully_revealed: unrevealed_count"
    BY RequestsAssumption DEF FirstRead, Labels, Endpoints, CheckLabels
  <2>2. l \in Locals
    BY <2>1, IdleIsLocal DEF Locals
  <2>3. /\ l.pc = FirstRead[e] /\ l.endpoint = e /\ l.k = 1 /\ l.tally = 0
        /\ l.seeds = <<>> /\ l.found = {}
    BY IdleIsLocal DEF Locals, Idle
  <2>4. Continue(w, l)
    BY <1>2
  <2> HIDE DEF l
  <2>5. Counting(board, l)
    BY <2>2, <2>3, FreshCounting
  <2>6. Asked(board, l) /\ Settled(board, l)
    BY <2>1, <2>3 DEF Asked, Settled, FlagLabels, FloodLabels, ChordLabels
  <2>7. Explained(board, l) /\ View(board, l) = board
    BY <1>1, <2>1, <2>2, <2>3, <2>5, <2>6, Viewed DEF Explained, FloodLabels, ChordLabels
  <2>8. QED
    BY <1>1, <2>4, <2>7, GoesOn
<1>3. ASSUME NEW e \in Requested, Continue(w, [Idle EXCEPT !.pc = FirstRead[e], !.endpoint = e])
      PROVE  Plays(w)
  <2>1. [Idle EXCEPT !.pc = FirstRead[e], !.endpoint = e]
            = [Idle EXCEPT !.pc = FirstRead[e], !.endpoint = e, !.c = Idle.c]
    BY IdleIsLocal DEF Locals
  <2>2. Idle.c \in Cells
    BY IdleIsLocal DEF Locals
  <2>3. QED
    BY <1>2, <1>3, <2>1, <2>2
<1>4. ASSUME NEW e \in CellEndpoints,
             reply' = IF KeepAnswer THEN Answer(e, "out_of_range", {}) ELSE reply,
             UNCHANGED <<job, told, boomed, everFlagged>>
      PROVE  Plays(w)
  <2>1. Before' = Before
    BY <1>1, <1>4, Now
  <2>2. Refuses(e, "out_of_range")
    BY <1>4, <2>1 DEF Refuses, Playing
  <2>3. G!Next
    BY <2>2, OutOfRange
  <2>4. QED
    BY <1>1, <1>4, <2>3 DEF Plays
<1>5. QED
  BY <1>2, <1>3, <1>4 DEF Take

(* A finished count decides what is answered or asked next.                *)

(* The scan of board/check goes past a mine that is not bad, and has seen   *)
(* all of them at its end.                                                 *)
LEMMA ScannedMore ==
    ASSUME NEW b, NEW k, Scanned(b, k), k <= Len(CellOrder),
           CellOrder[k] \in b.mines => CellOrder[k] \in b.flagged \ b.revealed
    PROVE  Scanned(b, k + 1)
<1>1. Len(CellOrder) \in Nat /\ k \in 1..Len(CellOrder)
  BY CellOrderListsCells, LenProperties DEF Scanned
<1>2. 1..((k + 1) - 1) = 1..(k - 1) \cup {k}
  BY <1>1
<1>3. Seen(CellOrder, k + 1) = Seen(CellOrder, k) \cup {CellOrder[k]}
  BY <1>2 DEF Seen
<1>4. k + 1 \in 1..(Len(CellOrder) + 1)
  BY <1>1
<1>5. QED
  BY <1>3, <1>4 DEF Scanned

LEMMA ScannedAll ==
    ASSUME NEW b \in Boards, NEW k, Scanned(b, k), k > Len(CellOrder)
    PROVE  NoBadMine(b)
<1>1. Len(CellOrder) \in Nat /\ CellOrder \in Seq(Cells)
  BY CellOrderListsCells, LenProperties
<1>2. k - 1 = Len(CellOrder)
  BY <1>1 DEF Scanned
<1>3. Seen(CellOrder, k) = Range(CellOrder)
  BY <1>1, <1>2, RangeEquality DEF Seen
<1>4. Seen(CellOrder, k) = Cells
  BY <1>3, CellOrderListsCells
<1>5. QED
  BY <1>4 DEF Scanned, NoBadMine, Boards

LEMMA ScanPlays ==
    ASSUME NEW w, Playing(w), job[w].pc \in ScanLabels, board' = board,
           NEW pc \in ScanLabels, NEW k \in Nat,
           Continue(w, [job[w] EXCEPT !.pc = pc, !.k = k]),
           Scanned(board, k),
           pc = "board/check: is_revealed"
               => k <= Len(CellOrder) /\ CellOrder[k] \in board.mines \cap board.flagged
    PROVE  Plays(w)
<1> DEFINE j == job[w]
           l == [j EXCEPT !.pc = pc, !.k = k]
<1> USE DEF FloodLabels, ChordLabels, ScanLabels
<1>1. /\ View(board, j) = board /\ j \in Locals /\ board \in Boards
      /\ j.endpoint = "board/check" /\ Checkable(board) /\ j.found = {}
  BY PlainNow, Now DEF Asked, Settled, JobOK
<1>2. /\ l \in Locals
      /\ l.pc = pc /\ l.k = k /\ l.endpoint = "board/check" /\ l.found = {}
  BY <1>1 DEF Locals, Labels
<1>3. Continue(w, l)
  OBVIOUS
<1> HIDE DEF l
<1>4. View(board, l) = board
  BY <1>1, <1>2, Viewed
<1>5. Counting(board, l)
  BY <1>2 DEF Counting
<1>6. Asked(board, l) /\ Settled(board, l)
  BY <1>1, <1>2, <1>4 DEF Asked, Settled, FlagLabels
<1>7. Explained(board, l)
  BY <1>2, <1>5, <1>6 DEF Explained
<1>8. QED
  BY <1>1, <1>3, <1>4, <1>7, GoesOn

LEMMA VerdictPlays ==
    ASSUME NEW w, Playing(w), job[w].pc \in ScanLabels, board' = board,
           NEW outcome, outcome = IF NoBadMine(board) THEN "win" ELSE "lose",
           Refuse(w, outcome)
    PROVE  Plays(w)
<1>1. /\ Before = board /\ View(board, job[w]) = board
      /\ job[w].endpoint = "board/check" /\ Checkable(board)
  BY PlainNow DEF Asked, Settled, ScanLabels, FloodLabels, ChordLabels
<1>2. outcome # "boom"
  OBVIOUS
<1>3. Explained(board', job'[w]) /\ Refuses("board/check", outcome)
  BY <1>1, <1>2, Refused
<1>4. G!Next
  BY <1>1, <1>3, GameAnswersQueries
<1>5. QED
  BY <1>3, <1>4 DEF Plays

LEMMA BoardQueryPlays ==
    ASSUME NEW w, Playing(w), BoardQuery(w)
    PROVE  Plays(w)
<1> DEFINE j == job[w]
<1> USE DEF FloodLabels, ChordLabels
<1>1. CASE BoardCheckUnrevealed(w)
  <2>1. j.pc = "board/check: unrevealed_count" /\ board' = board
    BY <1>1 DEF BoardCheckUnrevealed, Count, Counted
  <2>2. /\ Before = board /\ View(board, j) = board /\ j.endpoint = "board/check"
        /\ Counts(j, CellOrder, Cells \ board.revealed)
    BY <2>1, PlainNow DEF Asked, Counting
  <2>3. CASE Count(w, "board/check: unrevealed_count", CellOrder, Cells \ board.revealed)
    <3>1. \A l : l.pc = "board/check: unrevealed_count" /\ Counts(l, CellOrder, Cells \ board.revealed)
                     => Counting(board, l)
      BY DEF Counting
    <3>2. QED
      BY <2>2, <2>3, <3>1, CountPlays, CellOrderListsCells DEF FlagLabels
  <2>4. CASE /\ Counted(w, "board/check: unrevealed_count", CellOrder)
             /\ IF j.tally # BombsTotal(board)
                THEN Refuse(w, "unrevealed_left") ELSE Goto(w, "board/check: is_flag")
    <3>1. j.tally = UnrevealedCount(board)
      <4>1. j.tally = Cardinality(Cells \cap (Cells \ board.revealed))
        BY <2>2, <2>4, CountedBoard DEF Counted
      <4>2. Cells \cap (Cells \ board.revealed) = Cells \ board.revealed
        OBVIOUS
      <4>3. QED
        BY <4>1, <4>2 DEF UnrevealedCount
    <3>2. CASE ~Checkable(board)
      <4>1. Refuse(w, "unrevealed_left")
        BY <2>4, <3>1, <3>2 DEF Checkable
      <4>2. Explained(board', job'[w]) /\ Refuses("board/check", "unrevealed_left")
        BY <2>1, <2>2, <4>1, Refused
      <4>3. QED
        BY <2>2, <3>2, <4>2, GameAnswersQueries DEF Plays
    <3>3. CASE Checkable(board)
      <4>1. Goto(w, "board/check: is_flag")
        BY <2>4, <3>1, <3>3 DEF Checkable
      <4>2. \A l : l.pc = "board/check: is_flag" /\ l.endpoint = j.endpoint => Asked(board, l)
        BY <2>2 DEF Asked, FlagLabels
      <4>3. \A l : l.pc = "board/check: is_flag" /\ View(board, l) = board => Settled(board, l)
        BY <3>3 DEF Settled, FlagLabels
      <4>4. "board/check: is_flag" \in Labels
        BY DEF Labels
      <4>5. QED
        BY <2>1, <4>1, <4>2, <4>3, <4>4, GotoPlays
    <3>4. QED
      BY <3>2, <3>3
  <2>5. QED
    BY <1>1, <2>3, <2>4 DEF BoardCheckUnrevealed
<1>2. CASE BoardCheckIsFlag(w)
  <2>1. /\ j.pc = "board/check: is_flag" /\ board' = board
        /\ j.pc \in ScanLabels
    BY <1>2 DEF BoardCheckIsFlag, ScanLabels
  <2>2. board \in Boards /\ j \in Locals /\ j.k \in Nat /\ Scanned(board, j.k)
    BY <2>1, PlainNow DEF Counting, Locals
  <2>3. CASE j.k > Len(CellOrder) /\ Refuse(w, "win")
    <3>1. NoBadMine(board)
      BY <2>2, <2>3, ScannedAll
    <3>2. QED
      BY <2>1, <2>3, <3>1, VerdictPlays
  <2>4. CASE /\ j.k <= Len(CellOrder) /\ CellOrder[j.k] \notin board.mines
             /\ Continue(w, [j EXCEPT !.k = @ + 1])
    <3>1. [j EXCEPT !.k = @ + 1] = [j EXCEPT !.pc = "board/check: is_flag", !.k = j.k + 1]
      BY <2>1, <2>2 DEF Locals
    <3>2. Scanned(board, j.k + 1) /\ j.k + 1 \in Nat
      BY <2>2, <2>4, ScannedMore
    <3>3. QED
      BY <2>1, <2>4, <3>1, <3>2, ScanPlays
  <2>5. CASE CellOrder[j.k] \in board.mines \ board.flagged /\ Refuse(w, "lose")
    <3>1. ~NoBadMine(board)
      BY <2>5 DEF NoBadMine
    <3>2. QED
      BY <2>1, <2>5, <3>1, VerdictPlays
  <2>6. CASE /\ j.k <= Len(CellOrder) /\ CellOrder[j.k] \in board.mines \cap board.flagged
             /\ Continue(w, [j EXCEPT !.pc = "board/check: is_revealed"])
    <3>1. [j EXCEPT !.pc = "board/check: is_revealed"]
              = [j EXCEPT !.pc = "board/check: is_revealed", !.k = j.k]
      BY <2>2 DEF Locals
    <3>2. "board/check: is_revealed" \in ScanLabels
      BY DEF ScanLabels
    <3>3. QED
      BY <2>1, <2>2, <2>6, <3>1, <3>2, ScanPlays
  <2>7. Len(CellOrder) \in Nat
    BY CellOrderListsCells, LenProperties
  <2>8. IF j.k > Len(CellOrder) THEN Refuse(w, "win")
        ELSE IF CellOrder[j.k] \notin board.mines THEN Continue(w, [j EXCEPT !.k = @ + 1])
        ELSE IF CellOrder[j.k] \notin board.flagged THEN Refuse(w, "lose")
        ELSE Continue(w, [j EXCEPT !.pc = "board/check: is_revealed"])
    BY <1>2 DEF BoardCheckIsFlag
  <2>9. CASE j.k > Len(CellOrder)
    BY <2>3, <2>8, <2>9
  <2>10. CASE j.k <= Len(CellOrder) /\ CellOrder[j.k] \notin board.mines
    <3>1. Continue(w, [j EXCEPT !.k = @ + 1])
      BY <2>2, <2>7, <2>8, <2>10
    <3>2. QED
      BY <2>4, <2>10, <3>1
  <2>11. CASE j.k <= Len(CellOrder) /\ CellOrder[j.k] \in board.mines \ board.flagged
    <3>1. ~(j.k > Len(CellOrder))
      BY <2>2, <2>7, <2>11
    <3>2. Refuse(w, "lose")
      BY <2>8, <2>11, <3>1, Zenon
    <3>3. QED
      BY <2>5, <2>11, <3>2
  <2>12. CASE j.k <= Len(CellOrder) /\ CellOrder[j.k] \in board.mines \cap board.flagged
    <3>1. ~(j.k > Len(CellOrder))
      BY <2>2, <2>7, <2>12
    <3>2. Continue(w, [j EXCEPT !.pc = "board/check: is_revealed"])
      BY <2>8, <2>12, <3>1, Zenon
    <3>3. QED
      BY <2>6, <2>12, <3>2
  <2>13. j.k > Len(CellOrder) \/ j.k <= Len(CellOrder)
    BY <2>2, <2>7
  <2>14. QED
    BY <2>9, <2>10, <2>11, <2>12, <2>13
<1>3. CASE BoardCheckIsRevealed(w)
  <2>1. /\ j.pc = "board/check: is_revealed" /\ board' = board
        /\ j.pc \in ScanLabels
    BY <1>3 DEF BoardCheckIsRevealed, ScanLabels
  <2>2. /\ board \in Boards /\ j \in Locals /\ j.k \in Nat /\ Scanned(board, j.k)
        /\ j.k <= Len(CellOrder) /\ CellOrder[j.k] \in board.mines \cap board.flagged
    BY <2>1, PlainNow DEF Counting, Settled, Locals
  <2>3. CASE CellOrder[j.k] \in board.revealed /\ Refuse(w, "lose")
    <3>1. ~NoBadMine(board)
      BY <2>2, <2>3 DEF NoBadMine
    <3>2. QED
      BY <2>1, <2>3, <3>1, VerdictPlays
  <2>4. CASE /\ CellOrder[j.k] \notin board.revealed
             /\ Continue(w, [j EXCEPT !.pc = "board/check: is_flag", !.k = @ + 1])
    <3>1. Scanned(board, j.k + 1) /\ j.k + 1 \in Nat
      BY <2>2, <2>4, ScannedMore
    <3>2. "board/check: is_flag" \in ScanLabels
      BY DEF ScanLabels
    <3>3. QED
      BY <2>1, <2>4, <3>1, <3>2, ScanPlays
  <2>5. QED
    BY <1>3, <2>3, <2>4 DEF BoardCheckIsRevealed
<1>4. CASE FullyRevealedUnrevealed(w)
  <2>1. j.pc = "fully_revealed: unrevealed_count" /\ board' = board
    BY <1>4 DEF FullyRevealedUnrevealed, Count, Counted
  <2>2. /\ Before = board /\ View(board, j) = board /\ j.endpoint = "board/fully_revealed"
        /\ Counts(j, CellOrder, Cells \ board.revealed)
    BY <2>1, PlainNow DEF Asked, Counting
  <2>3. CASE Count(w, "fully_revealed: unrevealed_count", CellOrder, Cells \ board.revealed)
    <3>1. \A l : l.pc = "fully_revealed: unrevealed_count" /\ Counts(l, CellOrder, Cells \ board.revealed)
                     => Counting(board, l)
      BY DEF Counting
    <3>2. QED
      BY <2>2, <2>3, <3>1, CountPlays, CellOrderListsCells DEF FlagLabels
  <2>4. CASE /\ Counted(w, "fully_revealed: unrevealed_count", CellOrder)
             /\ IF j.tally # BombsTotal(board)
                THEN Refuse(w, "false") ELSE Goto(w, "fully_revealed: flags_count")
    <3>1. j.tally = UnrevealedCount(board)
      <4>1. j.tally = Cardinality(Cells \cap (Cells \ board.revealed))
        BY <2>2, <2>4, CountedBoard DEF Counted
      <4>2. Cells \cap (Cells \ board.revealed) = Cells \ board.revealed
        OBVIOUS
      <4>3. QED
        BY <4>1, <4>2 DEF UnrevealedCount
    <3>2. CASE ~Checkable(board)
      <4>1. Refuse(w, "false")
        BY <2>4, <3>1, <3>2 DEF Checkable
      <4>2. Explained(board', job'[w]) /\ Refuses("board/fully_revealed", "false")
        BY <2>1, <2>2, <4>1, Refused
      <4>3. ~FullyRevealed(Before)
        BY <2>2, <3>2 DEF FullyRevealed, Checkable
      <4>4. G!Next
        BY <4>2, <4>3, GameAnswersQueries
      <4>5. QED
        BY <4>2, <4>4 DEF Plays
    <3>3. CASE Checkable(board)
      <4>1. Goto(w, "fully_revealed: flags_count")
        BY <2>4, <3>1, <3>3 DEF Checkable
      <4>2. \A l : l.pc = "fully_revealed: flags_count" /\ l.endpoint = j.endpoint => Asked(board, l)
        BY <2>2 DEF Asked, FlagLabels
      <4>3. \A l : l.pc = "fully_revealed: flags_count" /\ View(board, l) = board => Settled(board, l)
        BY <3>3 DEF Settled, FlagLabels
      <4>4. "fully_revealed: flags_count" \in Labels
        BY DEF Labels
      <4>5. QED
        BY <2>1, <4>1, <4>2, <4>3, <4>4, GotoPlays
    <3>4. QED
      BY <3>2, <3>3
  <2>5. QED
    BY <1>4, <2>3, <2>4 DEF FullyRevealedUnrevealed
<1>5. CASE FullyRevealedFlags(w)
  <2>1. j.pc = "fully_revealed: flags_count" /\ board' = board
    BY <1>5 DEF FullyRevealedFlags, Count, Counted
  <2>2. /\ Before = board /\ View(board, j) = board /\ j.endpoint = "board/fully_revealed"
        /\ Checkable(board) /\ board \in Boards
        /\ Counts(j, CellOrder, board.flagged)
    BY <2>1, PlainNow DEF Asked, Counting, Settled
  <2>3. CASE Count(w, "fully_revealed: flags_count", CellOrder, board.flagged)
    <3>1. \A l : l.pc = "fully_revealed: flags_count" /\ Counts(l, CellOrder, board.flagged)
                     => Counting(board, l)
      BY DEF Counting
    <3>2. QED
      BY <2>2, <2>3, <3>1, CountPlays, CellOrderListsCells DEF FlagLabels
  <2>4. CASE /\ Counted(w, "fully_revealed: flags_count", CellOrder)
             /\ Refuse(w, IF j.tally = BombsTotal(board) THEN "true" ELSE "false")
    <3>1. j.tally = FlagsCount(board)
      <4>1. j.tally = Cardinality(Cells \cap board.flagged)
        BY <2>2, <2>4, CountedBoard DEF Counted
      <4>2. Cells \cap board.flagged = board.flagged
        BY <2>2 DEF Boards
      <4>3. QED
        BY <4>1, <4>2 DEF FlagsCount
    <3>2. j.tally = BombsTotal(board) <=> FullyRevealed(board)
      BY <2>2, <3>1 DEF FullyRevealed, Checkable
    <3> DEFINE outcome == IF FullyRevealed(board) THEN "true" ELSE "false"
    <3>3. Refuse(w, outcome)
      BY <2>4, <3>2
    <3>4. outcome # "boom"
      OBVIOUS
    <3> HIDE DEF outcome
    <3>5. Explained(board', job'[w]) /\ Refuses("board/fully_revealed", outcome)
      BY <2>1, <2>2, <3>3, <3>4, Refused
    <3>6. G!Next
      BY <2>2, <3>5, GameAnswersQueries DEF outcome
    <3>7. QED
      BY <3>5, <3>6 DEF Plays
  <2>5. QED
    BY <1>5, <2>3, <2>4 DEF FullyRevealedFlags
<1>6. QED
  BY <1>1, <1>2, <1>4, <1>5, <1>3 DEF BoardQuery

-----------------------------------------------------------------------------
(* What reveal_cells finds                                                 *)

(* The target: it holds the start cells that can be entered, can be entered,*)
(* and is closed around the cells that show 0 ...                          *)
LEMMA StartsAreTargets ==
    ASSUME NEW s \in Boards, NEW j, j.c \in Cells
    PROVE  /\ StartCells(j) \subseteq Cells
           /\ StartCells(j) \cap Enterable(s) \subseteq Target(s, j)
           /\ Target(s, j) \subseteq Enterable(s)
<1>1. StartCells(j) \subseteq Cells
  BY NeighborCells DEF StartCells
<1>2. \A n \in Enterable(s) : n \in Opened(s, n)
  BY DEF Opened
<1>3. \A n : Opened(s, n) \subseteq Enterable(s)
  BY OpenedEnterable
<1>4. QED
  BY <1>1, <1>2, <1>3 DEF Target

LEMMA TargetIsClosed ==
    ASSUME NEW s \in Boards, NEW j, NEW z \in Target(s, j), NeighborBombsCount(s, z) = 0
    PROVE  Neighbors[z] \cap Enterable(s) \subseteq Target(s, j)
<1>1. PICK n \in StartCells(j) : z \in Opened(s, n)
  BY DEF Target
<1>2. Neighbors[z] \cap Enterable(s) \subseteq Opened(s, n)
  BY <1>1, FloodIsComplete
<1>3. QED
  BY <1>1, <1>2 DEF Target

(* ... and is the least such set.                                          *)
LEMMA FloodReachesAll ==
    ASSUME NEW s \in Boards, NEW n, NEW F,
           n \in Enterable(s) => n \in F,
           \A z \in F : NeighborBombsCount(s, z) = 0 => Neighbors[z] \cap Enterable(s) \subseteq F
    PROVE  Opened(s, n) \subseteq F
<1> SUFFICES ASSUME NEW x \in Opened(s, n), x # n
             PROVE  x \in F
  BY DEF Opened
<1>1. n \in F /\ x \in Enterable(s)
  BY DEF Opened
<1>2. PICK z \in Flooded(s, n) : x \in Neighbors[z]
  BY DEF Opened
<1> DEFINE S == F \cap Zeros(s)
<1>3. n \in S
  BY <1>1, <1>2 DEF Flooded
<1>4. \A t \in S : Neighbors[t] \cap Zeros(s) \subseteq S
  BY DEF Zeros
<1>5. S \in ZeroRegions(Zeros(s), n)
  BY <1>3, <1>4 DEF ZeroRegions
<1>6. z \in S
  BY <1>2, <1>5 DEF Flooded
<1>7. QED
  BY <1>1, <1>2, <1>6 DEF Zeros

(* With nothing left to look at, exactly the target has been found.        *)
LEMMA FloodEnds ==
    ASSUME NEW s \in Boards, NEW j \in Locals, Sound(s, j), Complete(s, j),
           j.todo = <<>>, j.queue = <<>>, j.seeds = <<>>
    PROVE  j.found = Target(s, j)
<1>1. Range(j.todo) = {} /\ Range(j.queue) = {} /\ Range(j.seeds) = {}
  BY NoCell
<1>2. Reached(j) = j.found
  BY <1>1 DEF Reached
<1>3. \A n \in StartCells(j) : n \in Enterable(s) => n \in j.found
  BY <1>1, <1>2 DEF Complete
<1>4. \A z \in j.found : NeighborBombsCount(s, z) = 0 => Neighbors[z] \cap Enterable(s) \subseteq j.found
  BY <1>1, <1>2 DEF Complete
<1>5. \A n \in StartCells(j) : Opened(s, n) \subseteq j.found
  BY <1>3, <1>4, FloodReachesAll
<1>6. Target(s, j) \subseteq j.found
  BY <1>5 DEF Target
<1>7. QED
  BY <1>6 DEF Sound

(* Passing a cell by, or starting anew, keeps the fill sound and complete: *)
(* what can be entered stays reached.                                      *)
LEMMA StillExploring ==
    ASSUME NEW s \in Boards, NEW j, NEW l, Admitted(s, j), Sound(s, j), Complete(s, j),
           l.c = j.c, l.endpoint = j.endpoint, l.found = j.found, l.queue = j.queue,
           Range(l.todo) \cap Enterable(s) \subseteq Target(s, j),
           Range(l.seeds) \subseteq Range(j.seeds), j.seeds = <<>> => l.seeds = <<>>,
           Reached(j) \cap Enterable(s) \subseteq Reached(l),
           (Range(j.seeds) \ Range(l.seeds)) \cap Enterable(s) \subseteq Reached(l),
           l.pc \in FloodLabels => l.visited \cap Enterable(s) \subseteq Reached(l)
    PROVE  Admitted(s, l) /\ Sound(s, l) /\ Complete(s, l)
<1>1. StartCells(l) = StartCells(j) /\ Target(s, l) = Target(s, j)
  BY DEF StartCells, Target
<1>2. Admitted(s, l)
  BY DEF Admitted
<1>3. Sound(s, l)
  BY <1>1 DEF Sound
<1>4. (StartCells(l) \ Range(l.seeds)) \cap Enterable(s) \subseteq Reached(l)
  BY <1>1 DEF Complete
<1>5. ASSUME NEW z \in l.found \ Range(l.queue), NeighborBombsCount(s, z) = 0
      PROVE  Neighbors[z] \cap Enterable(s) \subseteq Reached(l)
  BY <1>5 DEF Complete
<1>6. QED
  BY <1>2, <1>3, <1>4, <1>5 DEF Complete

(* So does the head of the queue, whose neighbours come up unless visited  *)
(* ...                                                                     *)
LEMMA PopExplores ==
    ASSUME NEW s \in Boards, NEW j \in Locals, NEW l, Admitted(s, j), Sound(s, j), Complete(s, j),
           j.pc \in FloodLabels, j.todo = <<>>, j.queue # <<>>,
           l.c = j.c, l.endpoint = j.endpoint, l.found = j.found, l.seeds = j.seeds,
           l.queue = Tail(j.queue),
           l.todo = NeighborsExcept(Head(j.queue), j.visited),
           l.visited = j.visited \cup Neighbors[Head(j.queue)]
    PROVE  Admitted(s, l) /\ Sound(s, l) /\ Complete(s, l)
<1> DEFINE h == Head(j.queue)
<1>1. StartCells(l) = StartCells(j) /\ Target(s, l) = Target(s, j)
  BY DEF StartCells, Target
<1>2. h \in Cells /\ Range(j.queue) = {h} \cup Range(l.queue)
  BY HeadAndTail DEF Locals
<1>3. Range(l.todo) = Neighbors[h] \ j.visited
  BY <1>2, NeighborsExceptVisited
<1>4. Reached(j) = j.found
  BY NoCell DEF Reached
<1>5. Reached(l) = j.found \cup (Neighbors[h] \ j.visited)
  BY <1>3 DEF Reached
<1>6. h \in Target(s, j) /\ NeighborBombsCount(s, h) = 0
  BY <1>2 DEF Sound
<1>7. Range(l.todo) \cap Enterable(s) \subseteq Target(s, j)
  BY <1>3, <1>6, TargetIsClosed
<1>8. Neighbors[h] \cap Enterable(s) \subseteq Reached(l) /\ l.visited \cap Enterable(s) \subseteq Reached(l)
  BY <1>4, <1>5 DEF Complete
<1>9. Admitted(s, l)
  BY DEF Admitted
<1>10. Sound(s, l)
  BY <1>1, <1>2, <1>7 DEF Sound
<1>11. ASSUME NEW z \in l.found \ Range(l.queue), NeighborBombsCount(s, z) = 0
       PROVE  Neighbors[z] \cap Enterable(s) \subseteq Reached(l)
  <2>1. CASE z = h
    BY <1>8, <2>1
  <2>2. CASE z # h
    BY <1>2, <1>4, <1>5, <1>11, <2>2 DEF Complete
  <2>3. QED
    BY <2>1, <2>2
<1>12. QED
  BY <1>1, <1>4, <1>5, <1>8, <1>9, <1>10, <1>11 DEF Complete

(* ... and a cell revealed, which is queued when it shows 0.               *)
LEMMA RevealExplores ==
    ASSUME NEW s \in Boards, NEW j \in Locals, NEW l, Admitted(s, j), Sound(s, j), Complete(s, j),
           j.pc \in FloodLabels, j.todo # <<>>, Head(j.todo) \in Enterable(s),
           l.c = j.c, l.endpoint = j.endpoint, l.seeds = j.seeds, l.visited = j.visited,
           l.todo = Tail(j.todo),
           l.found = j.found \cup {Head(j.todo)},
           l.queue = IF NeighborBombsCount(s, Head(j.todo)) = 0
                     THEN Append(j.queue, Head(j.todo)) ELSE j.queue
    PROVE  Admitted(s, l) /\ Sound(s, l) /\ Complete(s, l)
<1> DEFINE n == Head(j.todo)
<1>1. StartCells(l) = StartCells(j) /\ Target(s, l) = Target(s, j)
  BY DEF StartCells, Target
<1>2. n \in Cells /\ Range(j.todo) = {n} \cup Range(l.todo)
  BY HeadAndTail DEF Locals
<1>3. Range(l.queue) = IF NeighborBombsCount(s, n) = 0 THEN Range(j.queue) \cup {n} ELSE Range(j.queue)
  <2>1. j.queue \in Seq(Cells)
    BY DEF Locals
  <2>2. Range(Append(j.queue, n)) = Range(j.queue) \cup {n}
    BY <1>2, <2>1, OneMore
  <2>3. QED
    BY <2>2
<1>4. Reached(l) = Reached(j)
  BY <1>2 DEF Reached
<1>5. n \in Target(s, j)
  BY <1>2 DEF Sound
<1>6. Admitted(s, l)
  BY DEF Admitted
<1>7. Sound(s, l)
  BY <1>1, <1>2, <1>3, <1>5 DEF Sound
<1>8. ASSUME NEW z \in l.found \ Range(l.queue), NeighborBombsCount(s, z) = 0
      PROVE  Neighbors[z] \cap Enterable(s) \subseteq Reached(l)
  BY <1>3, <1>4, <1>8 DEF Complete
<1>9. QED
  BY <1>1, <1>4, <1>6, <1>7, <1>8 DEF Complete

(* How cell/reveal and cell/check start.                                   *)
LEMMA StartExplores ==
    ASSUME NEW s \in Boards, NEW l, Admitted(s, l), l.c \in Cells,
           l.endpoint = "cell/reveal", l.seeds = <<>>, l.todo = << l.c >>, l.queue = <<>>,
           l.visited = {l.c}, l.found = {}
    PROVE  Sound(s, l) /\ Complete(s, l)
<1>1. StartCells(l) = {l.c}
  BY DEF StartCells
<1>2. Range(l.todo) = {l.c} /\ Range(l.queue) = {} /\ Range(l.seeds) = {}
  BY OneCell, NoCell
<1>3. Sound(s, l)
  BY <1>1, <1>2, StartsAreTargets DEF Sound
<1>4. Complete(s, l)
  BY <1>1, <1>2 DEF Complete, Reached
<1>5. QED
  BY <1>3, <1>4

LEMMA ChordExplores ==
    ASSUME NEW s \in Boards, NEW l, l.c \in Cells, l.pc \notin FloodLabels,
           l.endpoint = "cell/check", l.seeds = NeighborOrder[l.c], l.todo = <<>>, l.queue = <<>>,
           l.found = {}
    PROVE  Sound(s, l) /\ Complete(s, l)
<1>1. StartCells(l) = Neighbors[l.c]
  BY DEF StartCells
<1>2. Range(l.todo) = {} /\ Range(l.queue) = {} /\ Range(l.seeds) = Neighbors[l.c]
  BY NoCell, NeighborOrderListsNeighbors
<1>3. Sound(s, l)
  BY <1>1, <1>2 DEF Sound
<1>4. Complete(s, l)
  BY <1>1, <1>2 DEF Complete, Reached
<1>5. QED
  BY <1>3, <1>4

-----------------------------------------------------------------------------
(* The steps of reveal_cells                                               *)

(* A step of reveal_cells, or of the loop of cell/check around it.         *)
LEMMA ExploringExplained ==
    ASSUME NEW b, NEW l, l.pc \in FloodLabels \cup ChordLabels, Exploring(b, l),
           l.pc = "check: neighbor is_flag" => Head(l.seeds) \notin b.revealed,
           l.pc \in {"flood: is_revealed", "flood: set_revealed"} => Head(l.todo) \notin b.flagged,
           l.pc = "flood: set_revealed" => Head(l.todo) \notin b.revealed
    PROVE  Explained(b, l)
<1> USE DEF FloodLabels, ChordLabels
<1>1. Counting(b, l)
  BY DEF Counting
<1>2. Asked(b, l)
  BY DEF Asked, FlagLabels, Exploring, Admitted
<1>3. Settled(b, l)
  BY DEF Settled, FlagLabels
<1>4. QED
  BY <1>1, <1>2, <1>3 DEF Explained

LEMMA ExploringNow ==
    ASSUME NEW w, Playing(w), job[w].pc \in FloodLabels \cup ChordLabels
    PROVE  /\ w \in Workers /\ board \in Boards /\ job[w] \in Locals /\ JobOK(job[w])
           /\ Before = View(board, job[w]) /\ Before \in Boards
           /\ Before.mines = board.mines /\ Before.flagged = board.flagged
           /\ Before.revealed = board.revealed \ job[w].found
           /\ job[w].found \subseteq board.revealed
           /\ Admitted(Before, job[w]) /\ Sound(Before, job[w]) /\ Complete(Before, job[w])
           /\ Settled(board, job[w])
           /\ job[w].c \in Cells
<1>1. /\ w \in Workers /\ board \in Boards /\ job[w] \in Locals /\ JobOK(job[w])
      /\ Before = View(board, job[w]) /\ Explained(board, job[w])
  BY Now
<1>2. job[w].pc # "flag: answer"
  BY DEF FloodLabels, ChordLabels
<1>3. /\ View(board, job[w]) \in Boards
      /\ View(board, job[w]).mines = board.mines /\ View(board, job[w]).flagged = board.flagged
      /\ View(board, job[w]).revealed = board.revealed \ job[w].found
  BY <1>1, <1>2, Viewed
<1>4. job[w].c \in Cells
  BY <1>1 DEF Locals
<1>5. Exploring(board, job[w]) /\ Settled(board, job[w])
  BY <1>1 DEF Explained
<1>6. QED
  BY <1>1, <1>3, <1>4, <1>5 DEF Exploring

LEMMA SameView ==
    ASSUME NEW b, NEW j, NEW l, j.pc # "flag: answer", l.pc # "flag: answer", l.found = j.found
    PROVE  View(b, l) = View(b, j)
BY DEF View

(* A step that has not changed the board goes on exploring.                *)
LEMMA ExploresOn ==
    ASSUME NEW w, Playing(w), job[w].pc \in FloodLabels \cup ChordLabels,
           NEW l, Continue(w, l), board' = board,
           l.pc \in FloodLabels \cup ChordLabels, l.found = job[w].found,
           Admitted(Before, l), Sound(Before, l), Complete(Before, l),
           l.pc = "check: neighbor is_flag" => Head(l.seeds) \notin board.revealed,
           l.pc \in {"flood: is_revealed", "flood: set_revealed"} => Head(l.todo) \notin board.flagged,
           l.pc = "flood: set_revealed" => Head(l.todo) \notin board.revealed
    PROVE  Plays(w)
<1>1. Before = View(board, job[w]) /\ job[w].found \subseteq board.revealed
  BY ExploringNow
<1>2. View(board, l) = View(board, job[w])
  BY SameView DEF FloodLabels, ChordLabels
<1>3. Exploring(board, l)
  BY <1>1, <1>2 DEF Exploring
<1>4. Explained(board, l)
  BY <1>3, ExploringExplained
<1>5. QED
  BY <1>2, <1>4, GoesOn

(* The answer: the cells found are the cells that Game opens in one step.  *)
LEMMA OpenedPlays ==
    ASSUME NEW w, Playing(w), job[w].pc \in FloodLabels \cup ChordLabels,
           job[w].todo = <<>>, job[w].queue = <<>>, job[w].seeds = <<>>,
           SendOpened(w), board' = board
    PROVE  Plays(w)
<1> DEFINE j == job[w]
           outcome == IF j.found \cap board.mines # {} THEN "boom" ELSE "ok"
<1>1. /\ board \in Boards /\ j \in Locals /\ Before = View(board, j) /\ Before \in Boards
      /\ Before.mines = board.mines /\ Before.flagged = board.flagged
      /\ Before.revealed = board.revealed \ j.found /\ j.found \subseteq board.revealed
      /\ Admitted(Before, j) /\ Sound(Before, j) /\ Complete(Before, j)
      /\ j.c \in Cells
  BY ExploringNow
<1>2. j.found = Target(Before, j)
  BY <1>1, FloodEnds
<1>3. RevealAll(Before, j.found) = board
  <2>1. /\ Before = [mines |-> board.mines, flagged |-> board.flagged, revealed |-> board.revealed \ j.found]
        /\ board = [mines |-> board.mines, flagged |-> board.flagged, revealed |-> board.revealed]
    BY <1>1 DEF Boards
  <2>2. (board.revealed \ j.found) \cup j.found = board.revealed
    BY <1>1
  <2>3. QED
    BY <2>1, <2>2 DEF RevealAll
<1>4. Send(w, outcome, j.found, j.found)
  BY DEF SendOpened
<1> HIDE DEF outcome
<1>5. /\ Explained(board', job'[w])
      /\ Before' = board
      /\ reply' = Answer(j.endpoint, outcome, j.found)
      /\ boomed' = (boomed \/ outcome = "boom")
  BY <1>4, Sent
<1>6. boomed \in BOOLEAN
  BY Now
<1>7. outcome = (IF j.found \cap Before.mines # {} THEN "boom" ELSE "ok")
  BY <1>1 DEF outcome
<1>8. (outcome = "boom") = (j.found \cap Before.mines # {})
  BY <1>7
<1>9. Opens(j.endpoint, j.found)
  BY <1>3, <1>5, <1>7, <1>8 DEF Opens
<1>10. CASE j.endpoint = "cell/reveal"
  <2>1. j.c \notin Before.mines \cup Before.flagged
    BY <1>1, <1>10 DEF Admitted
  <2>2. j.found = Opened(Before, j.c)
    BY <1>2, <1>10 DEF Target, StartCells
  <2>3. G!Next
    BY <1>1, <1>9, <1>10, <2>1, <2>2, GameReveals
  <2>4. QED
    BY <1>5, <2>3 DEF Plays
<1>11. CASE j.endpoint = "cell/check"
  <2>1. /\ j.c \in Before.revealed \ Before.mines
        /\ NeighborFlagsCount(Before, j.c) = NeighborBombsCount(Before, j.c)
    BY <1>1, <1>11 DEF Admitted
  <2>2. j.found = OpenedAround(Before, j.c)
    BY <1>2, <1>11 DEF Target, StartCells, OpenedAround
  <2>3. G!Next
    BY <1>1, <1>9, <1>11, <2>1, <2>2, GameChecks
  <2>4. QED
    BY <1>5, <2>3 DEF Plays
<1>12. QED
  BY <1>1, <1>10, <1>11 DEF Admitted

(* A cell that is flagged or revealed is not entered, or has been found.   *)
LEMMA NotEntered ==
    ASSUME NEW w, Playing(w), job[w].pc \in FloodLabels \cup ChordLabels,
           NEW n, n \in board.flagged \cup board.revealed
    PROVE  n \notin Enterable(Before) \/ n \in job[w].found
BY ExploringNow DEF Enterable

LEMMA SkipPlays ==
    ASSUME NEW w, Playing(w), job[w].pc \in FloodLabels, job[w].todo # <<>>,
           Head(job[w].todo) \in board.flagged \cup board.revealed, board' = board,
           NEW l, l = [job[w] EXCEPT !.pc = "flood: is_flag", !.todo = Tail(@)],
           Continue(w, l)
    PROVE  Plays(w)
<1> DEFINE j == job[w]
<1>1. /\ j \in Locals /\ Before \in Boards
      /\ Admitted(Before, j) /\ Sound(Before, j) /\ Complete(Before, j)
  BY ExploringNow
<1>2. /\ l.pc = "flood: is_flag" /\ l.todo = Tail(j.todo) /\ l.c = j.c /\ l.endpoint = j.endpoint
      /\ l.found = j.found /\ l.queue = j.queue /\ l.seeds = j.seeds /\ l.visited = j.visited
  BY <1>1 DEF Locals
<1>3. Range(j.todo) = {Head(j.todo)} \cup Range(l.todo)
  BY <1>1, <1>2, HeadAndTail DEF Locals
<1>4. Reached(j) \cap Enterable(Before) \subseteq Reached(l)
  BY <1>2, <1>3, NotEntered DEF Reached
<1>5. Range(l.todo) \cap Enterable(Before) \subseteq Target(Before, j)
  BY <1>1, <1>3 DEF Sound
<1>6. j.visited \cap Enterable(Before) \subseteq Reached(l)
  BY <1>1, <1>4 DEF Complete
<1>7. Admitted(Before, l) /\ Sound(Before, l) /\ Complete(Before, l)
  BY <1>1, <1>2, <1>4, <1>5, <1>6, StillExploring
<1>8. QED
  BY <1>2, <1>7, ExploresOn DEF FloodLabels

(* A step that only moves pc on.                                           *)
LEMMA LabelPlays ==
    ASSUME NEW w, Playing(w), job[w].pc \in FloodLabels \cup ChordLabels, board' = board,
           NEW label \in FloodLabels \cup ChordLabels,
           label \in FloodLabels => job[w].pc \in FloodLabels,
           Continue(w, [job[w] EXCEPT !.pc = label]),
           label = "check: neighbor is_flag" => Head(job[w].seeds) \notin board.revealed,
           label \in {"flood: is_revealed", "flood: set_revealed"} => Head(job[w].todo) \notin board.flagged,
           label = "flood: set_revealed" => Head(job[w].todo) \notin board.revealed
    PROVE  Plays(w)
<1> DEFINE j == job[w]
           l == [j EXCEPT !.pc = label]
<1>1. /\ j \in Locals /\ Before \in Boards
      /\ Admitted(Before, j) /\ Sound(Before, j) /\ Complete(Before, j)
  BY ExploringNow
<1>2. /\ l.pc = label /\ l.todo = j.todo /\ l.c = j.c /\ l.endpoint = j.endpoint
      /\ l.found = j.found /\ l.queue = j.queue /\ l.seeds = j.seeds /\ l.visited = j.visited
  BY <1>1 DEF Locals
<1>3. Continue(w, l)
  OBVIOUS
<1> HIDE DEF l
<1>4. Reached(l) = Reached(j)
  BY <1>2 DEF Reached
<1>5. Range(l.todo) \cap Enterable(Before) \subseteq Target(Before, j)
  BY <1>1, <1>2 DEF Sound
<1>6. l.pc \in FloodLabels => l.visited \cap Enterable(Before) \subseteq Reached(l)
  BY <1>1, <1>2, <1>4 DEF Complete
<1>7. Admitted(Before, l) /\ Sound(Before, l) /\ Complete(Before, l)
  BY <1>1, <1>2, <1>4, <1>5, <1>6, StillExploring
<1>8. QED
  BY <1>2, <1>3, <1>7, ExploresOn

(* The bit set is not shown: the cell is among those found.                *)
LEMMA SetRevealedPlays ==
    ASSUME NEW w, Playing(w), FloodSetRevealed(w)
    PROVE  Plays(w)
<1> DEFINE j == job[w]
           n == Head(j.todo)
           q == IF NeighborBombsCount(board, n) = 0 THEN Append(j.queue, n) ELSE j.queue
           l == [j EXCEPT !.pc = "flood: is_flag", !.todo = Tail(j.todo),
                          !.found = j.found \cup {n}, !.queue = q]
<1>1. /\ j.pc = "flood: set_revealed" /\ board' = RevealAll(board, {n})
      /\ job' = [job EXCEPT ![w] = l] /\ reply' = reply /\ boomed' = boomed
  BY DEF FloodSetRevealed
<1>2. /\ j \in Locals /\ JobOK(j) /\ board \in Boards /\ Before \in Boards /\ Before = View(board, j)
      /\ Before.mines = board.mines /\ Before.flagged = board.flagged
      /\ Before.revealed = board.revealed \ j.found /\ j.found \subseteq board.revealed
      /\ Admitted(Before, j) /\ Sound(Before, j) /\ Complete(Before, j)
      /\ Settled(board, j)
  BY <1>1, ExploringNow DEF FloodLabels
<1>3. /\ j.todo # <<>> /\ n \in Cells /\ n \notin board.flagged /\ n \notin board.revealed
      /\ Tail(j.todo) \in Seq(Cells)
  BY <1>1, <1>2, HeadAndTail DEF Settled, JobOK, Locals
<1>4. q = IF NeighborBombsCount(Before, n) = 0 THEN Append(j.queue, n) ELSE j.queue
  BY <1>2 DEF NeighborBombsCount
<1>5. q \in Seq(Cells)
  <2>1. j.queue \in Seq(Cells)
    BY <1>2 DEF Locals
  <2>2. Append(j.queue, n) \in Seq(Cells)
    BY <1>3, <2>1, OneMore
  <2>3. QED
    BY <2>1, <2>2
<1> HIDE DEF q, n
<1>6. /\ l.pc = "flood: is_flag" /\ l.todo = Tail(j.todo) /\ l.c = j.c /\ l.endpoint = j.endpoint
      /\ l.found = j.found \cup {n} /\ l.queue = q /\ l.seeds = j.seeds /\ l.visited = j.visited
      /\ l \in Locals
  <2>1. j.found \cup {n} \in SUBSET Cells /\ "flood: is_flag" \in Labels
    BY <1>2, <1>3 DEF Locals, Labels, FloodLabels
  <2>2. l \in Locals
    BY <1>2, <1>3, <1>5, <2>1 DEF Locals
  <2>3. QED
    BY <1>2, <2>2 DEF Locals
<1> HIDE DEF l
<1>7. n \in Enterable(Before)
  BY <1>2, <1>3 DEF Enterable
<1>8. Admitted(Before, l) /\ Sound(Before, l) /\ Complete(Before, l)
  BY <1>1, <1>2, <1>3, <1>4, <1>6, <1>7, RevealExplores DEF n, FloodLabels
<1>9. /\ board' \in Boards /\ board'.mines = board.mines /\ board'.flagged = board.flagged
      /\ board'.revealed = board.revealed \cup {n}
  BY <1>1, <1>2, <1>3 DEF RevealAll, Boards
<1>10. View(board', l) = Before
  <2>1. /\ View(board', l) \in Boards /\ View(board', l).mines = board.mines
        /\ View(board', l).revealed = board'.revealed \ l.found
        /\ View(board', l).flagged = board.flagged
    BY <1>6, <1>9, Viewed
  <2>2. board'.revealed \ l.found = board.revealed \ j.found
    BY <1>3, <1>6, <1>9
  <2>3. QED
    BY <1>2, <2>1, <2>2 DEF Boards
<1>11. Exploring(board', l)
  BY <1>2, <1>6, <1>8, <1>9, <1>10 DEF Exploring
<1>12. Explained(board', l)
  BY <1>6, <1>11, ExploringExplained DEF FloodLabels
<1>13. QED
  BY <1>1, <1>2, <1>10, <1>12, Silent

LEMMA PopPlays ==
    ASSUME NEW w, Playing(w), FloodPop(w)
    PROVE  Plays(w)
<1> DEFINE j == job[w]
           l == [j EXCEPT !.queue = Tail(j.queue), !.todo = NeighborsExcept(Head(j.queue), j.visited),
                          !.visited = j.visited \cup Neighbors[Head(j.queue)]]
<1>1. /\ j.pc = "flood: is_flag" /\ j.todo = <<>> /\ j.queue # <<>>
      /\ board' = board /\ Continue(w, l)
  BY DEF FloodPop
<1>2. /\ j \in Locals /\ Before \in Boards
      /\ Admitted(Before, j) /\ Sound(Before, j) /\ Complete(Before, j)
  BY <1>1, ExploringNow DEF FloodLabels
<1>3. /\ l.pc = j.pc /\ l.c = j.c /\ l.endpoint = j.endpoint /\ l.found = j.found /\ l.seeds = j.seeds
      /\ l.queue = Tail(j.queue) /\ l.todo = NeighborsExcept(Head(j.queue), j.visited)
      /\ l.visited = j.visited \cup Neighbors[Head(j.queue)]
  BY <1>2 DEF Locals
<1> HIDE DEF l
<1>4. Admitted(Before, l) /\ Sound(Before, l) /\ Complete(Before, l)
  BY <1>1, <1>2, <1>3, PopExplores DEF FloodLabels
<1>5. QED
  BY <1>1, <1>3, <1>4, ExploresOn DEF FloodLabels

LEMMA FloodReturnPlays ==
    ASSUME NEW w, Playing(w), FloodReturn(w)
    PROVE  Plays(w)
<1> DEFINE j == job[w]
           l == [j EXCEPT !.pc = "check: neighbor is_revealed", !.visited = {}]
<1>1. /\ j.pc = "flood: is_flag" /\ j.todo = <<>> /\ j.queue = <<>> /\ board' = board
      /\ \/ j.endpoint = "cell/check" /\ Continue(w, l)
         \/ j.endpoint = "cell/reveal" /\ SendOpened(w)
  BY DEF FloodReturn
<1>2. /\ j \in Locals /\ Before \in Boards
      /\ Admitted(Before, j) /\ Sound(Before, j) /\ Complete(Before, j)
  BY <1>1, ExploringNow DEF FloodLabels
<1>3. CASE Continue(w, l)
  <2>1. /\ l.pc = "check: neighbor is_revealed" /\ l.c = j.c /\ l.endpoint = j.endpoint
        /\ l.found = j.found /\ l.seeds = j.seeds /\ l.queue = j.queue /\ l.todo = j.todo
    BY <1>2 DEF Locals
  <2> HIDE DEF l
  <2>2. Reached(l) = Reached(j)
    BY <2>1 DEF Reached
  <2>3. Range(l.todo) \cap Enterable(Before) \subseteq Target(Before, j)
    BY <1>2, <2>1 DEF Sound
  <2>4. Admitted(Before, l) /\ Sound(Before, l) /\ Complete(Before, l)
    BY <1>2, <2>1, <2>2, <2>3, StillExploring DEF FloodLabels
  <2>5. QED
    BY <1>1, <1>3, <2>1, <2>4, ExploresOn DEF FloodLabels, ChordLabels
<1>4. CASE j.endpoint = "cell/reveal" /\ SendOpened(w)
  <2>1. j.seeds = <<>>
    BY <1>2, <1>4 DEF Admitted
  <2>2. QED
    BY <1>1, <1>4, <2>1, OpenedPlays DEF FloodLabels
<1>5. QED
  BY <1>1, <1>3, <1>4

LEMMA FloodPlays ==
    ASSUME NEW w, Playing(w), Flood(w)
    PROVE  Plays(w)
<1>1. CASE FloodIsFlag(w)
  <2>1. job[w].pc = "flood: is_flag" /\ job[w].todo # <<>> /\ board' = board
    BY <1>1 DEF FloodIsFlag
  <2>2. CASE Head(job[w].todo) \in board.flagged
    BY <1>1, <2>1, <2>2, SkipPlays DEF FloodIsFlag, FloodLabels
  <2>3. CASE Head(job[w].todo) \notin board.flagged
    BY <1>1, <2>1, <2>3, LabelPlays DEF FloodIsFlag, FloodLabels
  <2>4. QED
    BY <2>2, <2>3
<1>2. CASE FloodIsRevealed(w)
  <2>1. job[w].pc = "flood: is_revealed" /\ board' = board
    BY <1>2 DEF FloodIsRevealed
  <2>2. job[w].todo # <<>> /\ Head(job[w].todo) \notin board.flagged
    BY <2>1, ExploringNow DEF FloodLabels, JobOK, Settled
  <2>3. CASE Head(job[w].todo) \in board.revealed
    BY <1>2, <2>1, <2>2, <2>3, SkipPlays DEF FloodIsRevealed, FloodLabels
  <2>4. CASE Head(job[w].todo) \notin board.revealed
    BY <1>2, <2>1, <2>2, <2>4, LabelPlays DEF FloodIsRevealed, FloodLabels
  <2>5. QED
    BY <2>3, <2>4
<1>3. QED
  BY <1>1, <1>2, SetRevealedPlays, PopPlays, FloodReturnPlays DEF Flood

-----------------------------------------------------------------------------
(* cell/reveal and cell/check                                              *)

LEMMA RevealPlays ==
    ASSUME NEW w, Playing(w), RevealIsFlag(w)
    PROVE  Plays(w)
<1> DEFINE j == job[w]
<1>1. j.pc = "reveal: is_flag" /\ board' = board
  BY DEF RevealIsFlag
<1>2. /\ Before = board /\ View(board, j) = board /\ j \in Locals /\ j.c \in Cells /\ board \in Boards
      /\ j.endpoint = "cell/reveal" /\ j.seeds = <<>>
  BY <1>1, PlainNow DEF Asked, Settled, FloodLabels, ChordLabels
<1>3. j.found = {} /\ w \in Workers
  BY <1>1, Now DEF JobOK, FloodLabels, ChordLabels
<1>4. CASE j.c \in board.flagged /\ Refuse(w, "is_flagged")
  <2>1. Explained(board', job'[w]) /\ Refuses("cell/reveal", "is_flagged")
    BY <1>1, <1>2, <1>4, Refused
  <2>2. QED
    BY <1>2, <1>4, <2>1, GameReveals DEF Plays
<1>5. CASE j.c \in board.mines \ board.flagged /\ Send(w, "boom", {j.c}, {})
  <2>1. /\ Explained(board', job'[w])
        /\ Before' = board
        /\ reply' = Answer("cell/reveal", "boom", {j.c})
        /\ boomed' = (boomed \/ "boom" = "boom")
    BY <1>1, <1>2, <1>5, Sent
  <2>2. boomed' = TRUE
    BY <2>1
  <2>3. QED
    BY <1>2, <1>5, <2>1, <2>2, GameReveals DEF Plays
<1>6. CASE j.c \notin board.mines \cup board.flagged /\ StartFlood(w, j.c)
  <2> DEFINE l == [j EXCEPT !.pc = "flood: is_flag", !.todo = <<j.c>>, !.queue = <<>>, !.visited = {j.c}]
  <2>1. Continue(w, l)
    BY <1>6 DEF StartFlood
  <2>2. /\ l.pc = "flood: is_flag" /\ l.c = j.c /\ l.endpoint = "cell/reveal" /\ l.found = {}
        /\ l.seeds = <<>> /\ l.todo = << l.c >> /\ l.queue = <<>> /\ l.visited = {l.c}
    BY <1>2, <1>3 DEF Locals
  <2> HIDE DEF l
  <2>3. Admitted(board, l)
    BY <1>6, <2>2 DEF Admitted
  <2>4. Sound(board, l) /\ Complete(board, l)
    BY <1>2, <2>2, <2>3, StartExplores
  <2>5. View(board, l) = board
    BY <1>1, <1>2, <1>3, <2>2, SameView
  <2>6. Explained(board, l)
    BY <2>2, <2>3, <2>4, <2>5, ExploringExplained DEF Exploring, FloodLabels
  <2>7. QED
    BY <1>1, <1>2, <2>1, <2>5, <2>6, GoesOn
<1>7. QED
  BY <1>4, <1>5, <1>6 DEF RevealIsFlag

(* The loop of cell/check passes its next neighbour by.                    *)
LEMMA NextSeedPlays ==
    ASSUME NEW w, Playing(w), job[w].pc \in ChordLabels, job[w].seeds # <<>>,
           Head(job[w].seeds) \in board.flagged \cup board.revealed, board' = board,
           NEW l, l = [job[w] EXCEPT !.pc = "check: neighbor is_revealed", !.seeds = Tail(@)],
           Continue(w, l)
    PROVE  Plays(w)
<1> DEFINE j == job[w]
<1>1. /\ j \in Locals /\ Before \in Boards
      /\ Admitted(Before, j) /\ Sound(Before, j) /\ Complete(Before, j)
  BY ExploringNow
<1>2. /\ l.pc = "check: neighbor is_revealed" /\ l.todo = j.todo /\ l.c = j.c /\ l.endpoint = j.endpoint
      /\ l.found = j.found /\ l.queue = j.queue /\ l.seeds = Tail(j.seeds)
  BY <1>1 DEF Locals
<1>3. Range(j.seeds) = {Head(j.seeds)} \cup Range(l.seeds)
  BY <1>1, <1>2, HeadAndTail DEF Locals
<1>4. Reached(l) = Reached(j)
  BY <1>2 DEF Reached
<1>5. (Range(j.seeds) \ Range(l.seeds)) \cap Enterable(Before) \subseteq Reached(l)
  BY <1>2, <1>3, NotEntered DEF Reached
<1>6. Range(l.todo) \cap Enterable(Before) \subseteq Target(Before, j)
  BY <1>1, <1>2 DEF Sound
<1>7. Admitted(Before, l) /\ Sound(Before, l) /\ Complete(Before, l)
  BY <1>1, <1>2, <1>3, <1>4, <1>5, <1>6, StillExploring DEF FloodLabels
<1>8. QED
  BY <1>2, <1>7, ExploresOn DEF FloodLabels, ChordLabels

(* ... or calls reveal_cells for it.                                       *)
LEMMA NextFloodPlays ==
    ASSUME NEW w, Playing(w), job[w].pc \in ChordLabels, job[w].seeds # <<>>, board' = board,
           NEW l, l = [job[w] EXCEPT !.pc = "flood: is_flag", !.seeds = Tail(@),
                                     !.todo = <<Head(job[w].seeds)>>, !.visited = {Head(job[w].seeds)}],
           Continue(w, l)
    PROVE  Plays(w)
<1> DEFINE j == job[w]
           n == Head(j.seeds)
<1>1. /\ j \in Locals /\ Before \in Boards /\ JobOK(j) /\ j.c \in Cells
      /\ Admitted(Before, j) /\ Sound(Before, j) /\ Complete(Before, j)
  BY ExploringNow
<1>2. /\ l.pc = "flood: is_flag" /\ l.todo = <<n>> /\ l.c = j.c /\ l.endpoint = j.endpoint
      /\ l.found = j.found /\ l.queue = j.queue /\ l.seeds = Tail(j.seeds) /\ l.visited = {n}
  BY <1>1 DEF Locals
<1>3. n \in Cells /\ Range(j.seeds) = {n} \cup Range(l.seeds)
  BY <1>1, <1>2, HeadAndTail DEF Locals
<1> HIDE DEF n
<1>4. Range(l.todo) = {n}
  BY <1>2, <1>3, OneCell
<1>5. Reached(j) = j.found
  <2>1. j.todo = <<>>
    BY <1>1 DEF JobOK, ChordLabels, FloodLabels
  <2>2. QED
    BY <2>1, NoCell DEF Reached
<1>6. Reached(l) = j.found \cup {n}
  BY <1>2, <1>4 DEF Reached
<1>7. n \in Enterable(Before) => n \in Target(Before, j)
  BY <1>1, <1>3, StartsAreTargets DEF Sound
<1>8. Admitted(Before, l) /\ Sound(Before, l) /\ Complete(Before, l)
  BY <1>1, <1>2, <1>3, <1>4, <1>5, <1>6, <1>7, StillExploring
<1>9. QED
  BY <1>2, <1>8, ExploresOn DEF FloodLabels

LEMMA CheckPlays ==
    ASSUME NEW w, Playing(w), Check(w)
    PROVE  Plays(w)
<1> DEFINE j == job[w]
<1>1. CASE CheckIsRevealed(w)
  <2>1. j.pc = "check: is_revealed" /\ board' = board
    BY <1>1 DEF CheckIsRevealed
  <2>2. Before = board /\ View(board, j) = board /\ j.c \in Cells /\ j.endpoint = "cell/check"
    BY <2>1, PlainNow, Now DEF JobOK, CheckLabels, FloodLabels, ChordLabels
  <2>3. CASE j.c \notin board.revealed /\ Refuse(w, "not_revealed")
    <3>1. Explained(board', job'[w]) /\ Refuses("cell/check", "not_revealed")
      BY <2>1, <2>2, <2>3, Refused
    <3>2. QED
      BY <2>2, <2>3, <3>1, GameChecks DEF Plays
  <2>4. CASE j.c \in board.revealed \cap board.mines /\ Refuse(w, "is_bomb")
    <3>1. Explained(board', job'[w]) /\ Refuses("cell/check", "is_bomb")
      BY <2>1, <2>2, <2>4, Refused
    <3>2. QED
      BY <2>2, <2>4, <3>1, GameChecks DEF Plays
  <2>5. CASE j.c \in board.revealed \ board.mines /\ Goto(w, "check: neighbor_flags_count")
    <3>1. \A l : l.pc = "check: neighbor_flags_count" => Asked(board, l)
      BY DEF Asked, FlagLabels, FloodLabels
    <3>2. \A l : l.pc = "check: neighbor_flags_count" /\ l.c = j.c /\ View(board, l) = board
                     => Settled(board, l)
      BY <2>5 DEF Settled, FlagLabels
    <3>3. "check: neighbor_flags_count" \in Labels
      BY DEF Labels, CheckLabels
    <3>4. QED
      BY <2>1, <2>5, <3>1, <3>2, <3>3, GotoPlays DEF FloodLabels, ChordLabels
  <2>6. QED
    BY <1>1, <2>3, <2>4, <2>5 DEF CheckIsRevealed
<1>2. CASE CheckFlagsCount(w)
  <2> DEFINE order == NeighborOrder[j.c]
  <2>1. j.pc = "check: neighbor_flags_count" /\ board' = board
    BY <1>2 DEF CheckFlagsCount, Count, Counted
  <2>2. /\ Before = board /\ View(board, j) = board /\ j.c \in Cells /\ j.endpoint = "cell/check"
        /\ j.c \in board.revealed \ board.mines /\ board \in Boards /\ j \in Locals
        /\ Counts(j, order, board.flagged) /\ JobOK(j) /\ w \in Workers
    BY <2>1, PlainNow, Now DEF JobOK, CheckLabels, FloodLabels, ChordLabels, Settled, Counting
  <2>3. order \in Seq(Cells) /\ Range(order) = Neighbors[j.c] /\ Injective(order)
    BY <2>2, NeighborOrderListsNeighbors
  <2>4. CASE Count(w, "check: neighbor_flags_count", order, board.flagged)
    <3>1. \A l : l.pc = "check: neighbor_flags_count" /\ l.c = j.c /\ Counts(l, order, board.flagged)
                     => Counting(board, l)
      BY DEF Counting
    <3> HIDE DEF order
    <3>2. QED
      BY <2>2, <2>3, <2>4, <3>1, CountPlays DEF FlagLabels, FloodLabels, ChordLabels
  <2>5. CASE /\ Counted(w, "check: neighbor_flags_count", order)
             /\ IF j.tally # NeighborBombsCount(board, j.c)
                THEN Refuse(w, "flags_mismatch")
                ELSE Continue(w, [j EXCEPT !.pc = "check: neighbor is_revealed", !.seeds = order])
    <3>1. j.tally = NeighborFlagsCount(board, j.c)
      <4> HIDE DEF order
      <4>1. j.tally = Cardinality(Range(order) \cap board.flagged)
        BY <2>2, <2>3, <2>5, CountedAll DEF Counted
      <4>2. QED
        BY <2>3, <4>1 DEF NeighborFlagsCount
    <3>2. CASE NeighborFlagsCount(board, j.c) # NeighborBombsCount(board, j.c)
      <4>1. Refuse(w, "flags_mismatch")
        BY <2>5, <3>1, <3>2
      <4>2. Explained(board', job'[w]) /\ Refuses("cell/check", "flags_mismatch")
        BY <2>1, <2>2, <4>1, Refused
      <4>3. QED
        BY <2>2, <3>2, <4>2, GameChecks DEF Plays
    <3>3. CASE NeighborFlagsCount(board, j.c) = NeighborBombsCount(board, j.c)
      <4> DEFINE l == [j EXCEPT !.pc = "check: neighbor is_revealed", !.seeds = order]
      <4>1. Continue(w, l)
        BY <2>5, <3>1, <3>3
      <4>2. /\ l.pc = "check: neighbor is_revealed" /\ l.c = j.c /\ l.endpoint = "cell/check"
            /\ l.found = {} /\ l.seeds = order /\ l.todo = <<>> /\ l.queue = <<>>
        BY <2>1, <2>2 DEF Locals, JobOK, FloodLabels, ChordLabels
      <4> HIDE DEF l
      <4>3. Admitted(board, l)
        BY <2>2, <3>3, <4>2 DEF Admitted
      <4>4. Sound(board, l) /\ Complete(board, l)
        BY <2>2, <4>2, ChordExplores DEF FloodLabels
      <4>5. View(board, l) = board
        BY <2>1, <2>2, <4>2, SameView DEF JobOK, FloodLabels, ChordLabels
      <4>6. Explained(board, l)
        BY <4>2, <4>3, <4>4, <4>5, ExploringExplained DEF Exploring, ChordLabels
      <4>7. QED
        BY <2>1, <2>2, <4>1, <4>5, <4>6, GoesOn
    <3>4. QED
      BY <3>2, <3>3
  <2>6. QED
    BY <1>2, <2>4, <2>5 DEF CheckFlagsCount
<1>3. CASE CheckNeighborIsRevealed(w)
  <2>1. j.pc = "check: neighbor is_revealed" /\ board' = board
    BY <1>3 DEF CheckNeighborIsRevealed
  <2>2. j.todo = <<>> /\ j.queue = <<>>
    BY <2>1, ExploringNow DEF ChordLabels, FloodLabels, JobOK
  <2>3. CASE j.seeds = <<>>
    BY <1>3, <2>1, <2>2, <2>3, OpenedPlays DEF CheckNeighborIsRevealed, ChordLabels
  <2>4. CASE j.seeds # <<>> /\ Head(j.seeds) \in board.revealed
    <3>1. Continue(w, [j EXCEPT !.seeds = Tail(@)])
      BY <1>3, <2>4 DEF CheckNeighborIsRevealed
    <3>2. [j EXCEPT !.seeds = Tail(@)] = [j EXCEPT !.pc = "check: neighbor is_revealed", !.seeds = Tail(@)]
      <4>1. j \in Locals
        BY Now
      <4>2. QED
        BY <2>1, <4>1 DEF Locals
    <3>3. QED
      BY <2>1, <2>4, <3>1, <3>2, NextSeedPlays DEF ChordLabels
  <2>5. CASE j.seeds # <<>> /\ Head(j.seeds) \notin board.revealed
    BY <1>3, <2>1, <2>5, LabelPlays DEF CheckNeighborIsRevealed, ChordLabels, FloodLabels
  <2>6. QED
    BY <2>3, <2>4, <2>5
<1>4. CASE CheckNeighborIsFlag(w)
  <2>1. j.pc = "check: neighbor is_flag" /\ board' = board
    BY <1>4 DEF CheckNeighborIsFlag
  <2>2. j.seeds # <<>>
    BY <2>1, ExploringNow DEF ChordLabels, FloodLabels, JobOK
  <2>3. CASE Head(j.seeds) \in board.flagged
    BY <1>4, <2>1, <2>2, <2>3, NextSeedPlays DEF CheckNeighborIsFlag, ChordLabels
  <2>4. CASE Head(j.seeds) \notin board.flagged
    BY <1>4, <2>1, <2>2, <2>4, NextFloodPlays DEF CheckNeighborIsFlag, ChordLabels
  <2>5. QED
    BY <2>3, <2>4
<1>5. QED
  BY <1>1, <1>2, <1>3, <1>4 DEF Check

-----------------------------------------------------------------------------
(* The refinement                                                          *)

(* Both start with the fresh board, and each step maps to a step or a      *)
(* stutter.                                                                *)
LEMMA InitPlays ==
    ASSUME Init, NEW w, Workers = {w}
    PROVE  RInv /\ G!Init
<1>1. w \in Workers /\ job[w] = Idle
  BY DEF Init
<1>2. PICK mines \in Layouts : board = FreshBoard(mines)
  BY DEF Init
<1>3. board \in Boards
  BY <1>2, StepsAssumption DEF FreshBoard, Boards
<1>4. RInv
  BY <1>1, IdleExplained DEF RInv
<1>5. (CHOOSE v \in Workers : TRUE) = w
  OBVIOUS
<1>6. Before = board
  BY <1>1, <1>3, <1>5, IdleExplained DEF Before, Shown
<1>7. Before = G!FreshBoard(mines)
  BY <1>2, <1>6, GameOperators
<1>8. G!Init
  BY <1>7 DEF Before, Init, G!Init, Answer, G!Answer
<1>9. QED
  BY <1>4, <1>8

LEMMA StepPlays ==
    ASSUME NEW w, Playing(w), [Next]_vars
    PROVE  RInv' /\ [G!Next]_(G!vars)
<1>1. CASE Next
  <2>1. Take(w) \/ Work(w)
    BY <1>1 DEF Next, Playing
  <2>2. Plays(w)
    BY <2>1, TakePlays, RevealPlays, FloodPlays, FlagPlays, CheckPlays, BoardQueryPlays DEF Work
  <2>3. Workers = {w}
    BY DEF Playing
  <2>4. RInv'
    BY <2>2, <2>3 DEF RInv, Plays
  <2>5. QED
    BY <2>2, <2>4 DEF Plays, Before, G!vars
<1>2. CASE UNCHANGED vars
  <2>1. RInv'
    BY <1>2 DEF vars, RInv, Playing
  <2>2. UNCHANGED <<Before, reply, boomed>>
    BY <1>2 DEF vars, Before, Shown
  <2>3. QED
    BY <2>1, <2>2 DEF Before, G!vars
<1>3. QED
  BY <1>1, <1>2

(* With one worker, the loops, the counts and the queue of the code compute*)
(* what Game says in one step: whatever the board and its mines, each      *)
(* request opens the same cells, has the same refusals and gets the same   *)
(* answer.                                                                 *)
THEOREM OneWorkerPlaysTheGame ==
    ASSUME KeepAnswer, \E w \in Workers : Workers = {w}
    PROVE  Spec => ImplementsGame
<1>1. PICK w \in Workers : Workers = {w}
  OBVIOUS
<1>2. Init => RInv /\ G!Init
  BY <1>1, InitPlays
<1>3. IInv /\ RInv /\ [Next]_vars => RInv' /\ [G!Next]_(G!vars)
  BY <1>1, StepPlays DEF IInv, Playing
<1>4. QED
  BY <1>2, <1>3, Invariance, PTL DEF Spec, ImplementsGame, G!Spec
=============================================================================
