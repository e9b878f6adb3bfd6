---------------------------- MODULE HandlerSteps ---------------------------
(***************************************************************************)
(* The handlers of Game.tla as the code runs them: worker threads that     *)
(* read and write the bits of one client's board one at a time.            *)
(*                                                                         *)
(* main() gives the service four workers, and nothing orders two requests   *)
(* that carry the same token: board_for_client() hands both handlers the    *)
(* same board_t, which has no lock.  A step is one access to a bit of a     *)
(* cell (is_flag, is_revealed, toggle_flag's load and store, set_revealed)  *)
(* with the local computation that follows it.  The mine bits and the       *)
(* counts never change, so that reading them is local.                     *)
(*                                                                         *)
(* With one worker the module implements Game (the run steps_refine_game);  *)
(* with two it shows what survives the race and what does not.             *)
(***************************************************************************)
EXTENDS Board, Sequences

CONSTANTS Layouts,    \* the mine layouts of the board templates
          Workers,    \* the worker threads of the service
          Requested,  \* the endpoints that the client calls
          KeepAnswer, \* remember the last answer (to compare with Game) ...
          KeepHistory \* ... or what was told and flagged in the past

ASSUME StepsAssumption ==
    /\ Layouts \subseteq SUBSET Cells
    /\ KeepAnswer \in BOOLEAN /\ KeepHistory \in BOOLEAN

VARIABLES
    board,        \* the client's board, shared by the workers
    job,          \* per worker: its program counter and its local variables
    reply,        \* the last answer sent
    told,         \* history: the cells that answers have shown as revealed
    boomed,       \* history: some answer has reported a "boom"
    everFlagged   \* history: the covered cells that have carried a flag

vars == <<board, job, reply, told, boomed, everFlagged>>

-----------------------------------------------------------------------------
(* board_t::data_, row by row, and the order of board_t::neighbors.        *)

CellOrder == [k \in 1..Width * Height |-> <<((k - 1) % Width) + 1, ((k - 1) \div Width) + 1>>]

(* The neighbour <<x, y>>, if there is one that has not been visited.       *)
Unless(x, y, visited) ==
    IF IsValid(x, y) /\ <<x, y>> \notin visited THEN << <<x, y>> >> ELSE <<>>

(* Mutant: the diagonal neighbours forgotten.                              *)
NeighborsExceptDiagonals(c, visited) ==
    Unless(c[1], c[2] - 1, visited) \o Unless(c[1] - 1, c[2], visited)
        \o Unless(c[1] + 1, c[2], visited) \o Unless(c[1], c[2] + 1, visited)

NeighborsExcept(c, visited) ==
    Unless(c[1] - 1, c[2] - 1, visited)
        \o Unless(c[1], c[2] - 1, visited)
        \o Unless(c[1] + 1, c[2] - 1, visited)
        \o Unless(c[1] - 1, c[2], visited)
        \o Unless(c[1] + 1, c[2], visited)
        \o Unless(c[1] - 1, c[2] + 1, visited)
        \o Unless(c[1], c[2] + 1, visited)
        \o Unless(c[1] + 1, c[2] + 1, visited)

NeighborOrder == [c \in Cells |-> NeighborsExcept(c, {})]

Answer(endpoint, outcome, cells) ==
    [endpoint |-> endpoint, outcome |-> outcome, cells |-> cells]

(* The local variables of a handler: pc; the requested cell; k and tally,   *)
(* the loop of a count; old, the flag that toggle_flag has loaded; seeds,   *)
(* the neighbours cell/check has still to look at; and of reveal_cells      *)
(* todo (the cells the inner loop has still to look at), queue, visited     *)
(* and found (`revealed`, the result).                                     *)
Idle == [pc |-> "idle", endpoint |-> "session/new", c |-> <<1, 1>>, k |-> 1, tally |-> 0,
         old |-> FALSE, seeds |-> <<>>, todo |-> <<>>, queue |-> <<>>,
         visited |-> {}, found |-> {}]

Init ==
    /\ \E mines \in Layouts : board = FreshBoard(mines)
    /\ job = [w \in Workers |-> Idle]
    /\ reply = Answer("session/new", "ok", {})
    /\ told = {}
    /\ boomed = FALSE
    /\ everFlagged = {}

-----------------------------------------------------------------------------
(* The worker's next step, with the local variables it goes on with.       *)
Continue(w, locals) ==
    /\ job' = [job EXCEPT ![w] = locals]
    /\ UNCHANGED <<reply, told, boomed, everFlagged>>

Goto(w, label) == Continue(w, [job[w] EXCEPT !.pc = label, !.k = 1, !.tally = 0])

(* The answer, which ends the request.                                     *)
Send(w, outcome, cells, shown) ==
    /\ reply' = IF KeepAnswer THEN Answer(job[w].endpoint, outcome, cells) ELSE reply
    /\ told' = IF KeepHistory THEN told \cup shown ELSE told
    /\ boomed' = (boomed \/ outcome = "boom")
    /\ job' = [job EXCEPT ![w] = Idle]
    /\ UNCHANGED everFlagged

Refuse(w, outcome) == Send(w, outcome, {}, {})

SendOpened(w) ==
    LET found == job[w].found
    IN  Send(w, IF found \cap board.mines # {} THEN "boom" ELSE "ok", found, found)

(* A loop that counts the cells of `order` that are in `counted`, one read  *)
(* per step; Counted is its end, with the result in tally.                 *)
Count(w, label, order, counted) ==
    LET j == job[w] IN
    /\ j.pc = label
    /\ j.k <= Len(order)
    /\ UNCHANGED board
    /\ Continue(w, [j EXCEPT !.k = @ + 1,
                             !.tally = @ + IF order[j.k] \in counted THEN 1 ELSE 0])

Counted(w, label, order) ==
    /\ job[w].pc = label
    /\ job[w].k > Len(order)
    /\ UNCHANGED board

-----------------------------------------------------------------------------
(* A worker takes a request; coordinates out of range are refused before    *)
(* the board is read.                                                      *)

FirstRead == [e \in {"cell/reveal", "cell/flag", "cell/check", "board/check", "board/fully_revealed"} |->
    CASE e = "cell/reveal"          -> "reveal: is_flag"
      [] e = "cell/flag"            -> "flag: is_revealed"
      [] e = "cell/check"           -> "check: is_revealed"
      [] e = "board/check"          -> "board/check: unrevealed_count"
      [] OTHER                      -> "fully_revealed: unrevealed_count"]

ASSUME RequestsAssumption == Requested \subseteq DOMAIN FirstRead

CellEndpoints == {"cell/reveal", "cell/flag", "cell/check"}

(* Mutant: the handler does not ask coord_t::is_valid.                     *)
TakeUnchecked(w) ==
    /\ job[w].pc = "idle"
    /\ UNCHANGED board
    /\ \E e \in Requested \cap CellEndpoints, c \in Coordinates :
           Continue(w, [Idle EXCEPT !.pc = FirstRead[e], !.endpoint = e, !.c = c])

Take(w) ==
    /\ job[w].pc = "idle"
    /\ UNCHANGED board
    /\ \/ \E e \in Requested \cap CellEndpoints, c \in Cells :
              Continue(w, [Idle EXCEPT !.pc = FirstRead[e], !.endpoint = e, !.c = c])
       \/ \E e \in Requested \ CellEndpoints :
              Continue(w, [Idle EXCEPT !.pc = FirstRead[e], !.endpoint = e])
       \/ \E e \in Requested \cap CellEndpoints :
              /\ reply' = IF KeepAnswer THEN Answer(e, "out_of_range", {}) ELSE reply
              /\ UNCHANGED <<job, told, boomed, everFlagged>>

-----------------------------------------------------------------------------
(* reveal_cells: the same loop body looks at the cell it is called for and  *)
(* at the unvisited neighbours of the cells in its queue.                  *)

StartFlood(w, c) ==
    Continue(w, [job[w] EXCEPT !.pc = "flood: is_flag", !.todo = <<c>>, !.queue = <<>>,
                               !.visited = {c}])

FloodIsFlag(w) ==
    /\ job[w].pc = "flood: is_flag"
    /\ job[w].todo # <<>>
    /\ UNCHANGED board
    /\ IF Head(job[w].todo) \in board.flagged
       THEN Continue(w, [job[w] EXCEPT !.todo = Tail(@)])
       ELSE Continue(w, [job[w] EXCEPT !.pc = "flood: is_revealed"])

FloodIsRevealed(w) ==
    /\ job[w].pc = "flood: is_revealed"
    /\ UNCHANGED board
    /\ IF Head(job[w].todo) \in board.revealed
       THEN Continue(w, [job[w] EXCEPT !.pc = "flood: is_flag", !.todo = Tail(@)])
       ELSE Continue(w, [job[w] EXCEPT !.pc = "flood: set_revealed"])

(* Mutants: the cell's neighbours are never queued; the cell is not put     *)
(* into the result.                                                        *)
FloodSetRevealedNoQueue(w) ==
    LET n == Head(job[w].todo) IN
    /\ job[w].pc = "flood: set_revealed"
    /\ board' = RevealAll(board, {n})
    /\ job' = [job EXCEPT ![w] = [job[w] EXCEPT !.pc = "flood: is_flag",
                                                !.todo = Tail(@),
                                                !.found = @ \cup {n}]]
    /\ everFlagged' = everFlagged \ {n}
    /\ UNCHANGED <<reply, told, boomed>>

FloodSetRevealedNoResult(w) ==
    LET n == Head(job[w].todo) IN
    /\ job[w].pc = "flood: set_revealed"
    /\ board' = RevealAll(board, {n})
    /\ job' = [job EXCEPT ![w] = [job[w] EXCEPT
           !.pc = "flood: is_flag",
           !.todo = Tail(@),
           !.queue = IF NeighborBombsCount(board, n) = 0 THEN Append(@, n) ELSE @]]
    /\ everFlagged' = everFlagged \ {n}
    /\ UNCHANGED <<reply, told, boomed>>

FloodSetRevealed(w) ==
    LET n == Head(job[w].todo) IN
    /\ job[w].pc = "flood: set_revealed"
    /\ board' = RevealAll(board, {n})
    /\ job' = [job EXCEPT ![w] = [job[w] EXCEPT
           !.pc = "flood: is_flag",
           !.todo = Tail(@),
           !.found = @ \cup {n},
           !.queue = IF NeighborBombsCount(board, n) = 0 THEN Append(@, n) ELSE @]]
    /\ everFlagged' = everFlagged \ {n}
    /\ UNCHANGED <<reply, told, boomed>>

(* Mutant: the queue's head is read and not popped.                        *)
FloodPopLeavesHead(w) ==
    LET j == job[w] IN
    /\ j.pc = "flood: is_flag"
    /\ j.todo = <<>>
    /\ j.queue # <<>>
    /\ UNCHANGED board
    /\ Continue(w, [j EXCEPT !.todo = NeighborsExcept(Head(j.queue), j.visited),
                             !.visited = @ \cup Neighbors[Head(j.queue)]])

FloodPop(w) ==
    LET j == job[w] IN
    /\ j.pc = "flood: is_flag"
    /\ j.todo = <<>>
    /\ j.queue # <<>>
    /\ UNCHANGED board
    /\ Continue(w, [j EXCEPT !.queue = Tail(@),
                             !.todo = NeighborsExcept(Head(j.queue), j.visited),
                             !.visited = @ \cup Neighbors[Head(j.queue)]])

(* reveal_cells returns: cell/check goes on with its next neighbour and     *)
(* cell/reveal answers.                                                    *)
FloodReturn(w) ==
    LET j == job[w] IN
    /\ j.pc = "flood: is_flag"
    /\ j.todo = <<>>
    /\ j.queue = <<>>
    /\ UNCHANGED board
    /\ \/ /\ j.endpoint = "cell/check"
          /\ Continue(w, [j EXCEPT !.pc = "check: neighbor is_revealed", !.visited = {}])
       \/ /\ j.endpoint = "cell/reveal"
          /\ SendOpened(w)

Flood(w) == FloodIsFlag(w) \/ FloodIsRevealed(w) \/ FloodSetRevealed(w) \/ FloodPop(w) \/ FloodReturn(w)

-----------------------------------------------------------------------------
(* Mutant: reveal_cells is called without asking for a mine first.         *)
RevealIsFlagMineForgotten(w) ==
    /\ job[w].pc = "reveal: is_flag"
    /\ UNCHANGED board
    /\ IF job[w].c \in board.flagged THEN Refuse(w, "is_flagged") ELSE StartFlood(w, job[w].c)

(* cell_reveal_handler                                                     *)
RevealIsFlag(w) ==
    LET c == job[w].c IN
    /\ job[w].pc = "reveal: is_flag"
    /\ UNCHANGED board
    /\ \/ c \in board.flagged /\ Refuse(w, "is_flagged")
       \/ c \in board.mines \ board.flagged /\ Send(w, "boom", {c}, {})
       \/ c \notin board.mines \cup board.flagged /\ StartFlood(w, c)

(* cell_flag_handler                                                       *)
FlagIsRevealed(w) ==
    /\ job[w].pc = "flag: is_revealed"
    /\ UNCHANGED board
    /\ IF job[w].c \in board.revealed
       THEN Refuse(w, "is_revealed")
       ELSE Goto(w, "flag: is_flag")

FlagIsFlag(w) ==
    /\ job[w].pc = "flag: is_flag"
    /\ UNCHANGED board
    /\ Goto(w, IF job[w].c \in board.flagged THEN "toggle_flag: load" ELSE "flag: flags_count")

FlagBombsCount(w) ==
    \/ Count(w, "flag: flags_count", CellOrder, board.flagged)
    \/ /\ Counted(w, "flag: flags_count", CellOrder)
       /\ IF BombsTotal(board) - job[w].tally = 0
          THEN Refuse(w, "no_bombs_left")
          ELSE Goto(w, "toggle_flag: load")

ToggleLoad(w) ==
    /\ job[w].pc = "toggle_flag: load"
    /\ UNCHANGED board
    /\ Continue(w, [job[w] EXCEPT !.pc = "toggle_flag: store", !.old = job[w].c \in board.flagged])

ToggleStore(w) ==
    LET c == job[w].c IN
    /\ job[w].pc = "toggle_flag: store"
    /\ board' = [board EXCEPT !.flagged = IF job[w].old THEN @ \ {c} ELSE @ \cup {c}]
    /\ job' = [job EXCEPT ![w].pc = "flag: answer"]
    /\ everFlagged' = IF KeepHistory THEN everFlagged \cup (board'.flagged \ board.revealed) ELSE everFlagged
    /\ UNCHANGED <<reply, told, boomed>>

FlagAnswer(w) ==
    /\ job[w].pc = "flag: answer"
    /\ UNCHANGED board
    /\ Send(w, IF job[w].c \in board.flagged THEN "flagged" ELSE "unflagged", {}, {})

Flag(w) ==
    FlagIsRevealed(w) \/ FlagIsFlag(w) \/ FlagBombsCount(w) \/ ToggleLoad(w) \/ ToggleStore(w) \/ FlagAnswer(w)

(* cell_check_handler                                                      *)
CheckIsRevealed(w) ==
    LET c == job[w].c IN
    /\ job[w].pc = "check: is_revealed"
    /\ UNCHANGED board
    /\ \/ c \notin board.revealed /\ Refuse(w, "not_revealed")
       \/ c \in board.revealed \cap board.mines /\ Refuse(w, "is_bomb")
       \/ c \in board.revealed \ board.mines /\ Goto(w, "check: neighbor_flags_count")

CheckFlagsCount(w) ==
    LET c == job[w].c IN
    \/ Count(w, "check: neighbor_flags_count", NeighborOrder[c], board.flagged)
    \/ /\ Counted(w, "check: neighbor_flags_count", NeighborOrder[c])
       /\ IF job[w].tally # NeighborBombsCount(board, c)
          THEN Refuse(w, "flags_mismatch")
          ELSE Continue(w, [job[w] EXCEPT !.pc = "check: neighbor is_revealed",
                                          !.seeds = NeighborOrder[c]])

CheckNeighborIsRevealed(w) ==
    LET j == job[w] IN
    /\ j.pc = "check: neighbor is_revealed"
    /\ UNCHANGED board
    /\ IF j.seeds = <<>> THEN SendOpened(w)
       ELSE IF Head(j.seeds) \in board.revealed
       THEN Continue(w, [j EXCEPT !.seeds = Tail(@)])
       ELSE Continue(w, [j EXCEPT !.pc = "check: neighbor is_flag"])

CheckNeighborIsFlag(w) ==
    LET j == job[w] IN
    /\ j.pc = "check: neighbor is_flag"
    /\ UNCHANGED board
    /\ Continue(w,
           IF Head(j.seeds) \in board.flagged
           THEN [j EXCEPT !.pc = "check: neighbor is_revealed", !.seeds = Tail(@)]
           ELSE [j EXCEPT !.pc = "flood: is_flag", !.seeds = Tail(@), !.todo = <<Head(j.seeds)>>,
                          !.visited = {Head(j.seeds)}])

Check(w) == CheckIsRevealed(w) \/ CheckFlagsCount(w) \/ CheckNeighborIsRevealed(w) \/ CheckNeighborIsFlag(w)

-----------------------------------------------------------------------------
(* board_check_handler: the cells are counted, and then none_of_cell asks   *)
(* each mine for its flag, and for its revealed bit when it is flagged,     *)
(* until one of them is bad.                                               *)
BoardCheckUnrevealed(w) ==
    \/ Count(w, "board/check: unrevealed_count", CellOrder, Cells \ board.revealed)
    \/ /\ Counted(w, "board/check: unrevealed_count", CellOrder)
       /\ IF job[w].tally # BombsTotal(board)
          THEN Refuse(w, "unrevealed_left")
          ELSE Goto(w, "board/check: is_flag")

BoardCheckIsFlag(w) ==
    LET j == job[w] IN
    /\ j.pc = "board/check: is_flag"
    /\ UNCHANGED board
    /\ IF j.k > Len(CellOrder) THEN Refuse(w, "win")
       ELSE IF CellOrder[j.k] \notin board.mines THEN Continue(w, [j EXCEPT !.k = @ + 1])
       ELSE IF CellOrder[j.k] \notin board.flagged THEN Refuse(w, "lose")
       ELSE Continue(w, [j EXCEPT !.pc = "board/check: is_revealed"])

BoardCheckIsRevealed(w) ==
    LET j == job[w] IN
    /\ j.pc = "board/check: is_revealed"
    /\ UNCHANGED board
    /\ IF CellOrder[j.k] \in board.revealed
       THEN Refuse(w, "lose")
       ELSE Continue(w, [j EXCEPT !.pc = "board/check: is_flag", !.k = @ + 1])

(* board_fully_revealed_handler                                            *)
FullyRevealedUnrevealed(w) ==
    \/ Count(w, "fully_revealed: unrevealed_count", CellOrder, Cells \ board.revealed)
    \/ /\ Counted(w, "fully_revealed: unrevealed_count", CellOrder)
       /\ IF job[w].tally # BombsTotal(board)
          THEN Refuse(w, "false")
          ELSE Goto(w, "fully_revealed: flags_count")

FullyRevealedFlags(w) ==
    \/ Count(w, "fully_revealed: flags_count", CellOrder, board.flagged)
    \/ /\ Counted(w, "fully_revealed: flags_count", CellOrder)
       /\ Refuse(w, IF job[w].tally = BombsTotal(board) THEN "true" ELSE "false")

BoardQuery(w) ==
    \/ BoardCheckUnrevealed(w) \/ BoardCheckIsFlag(w) \/ BoardCheckIsRevealed(w)
    \/ FullyRevealedUnrevealed(w) \/ FullyRevealedFlags(w)

-----------------------------------------------------------------------------
Work(w) == RevealIsFlag(w) \/ Flood(w) \/ Flag(w) \/ Check(w) \/ BoardQuery(w)

Next == \E w \in Workers : Take(w) \/ Work(w)

(* A worker that has taken a request is a running thread: it goes on.      *)
Fairness == \A w \in Workers : WF_vars(Work(w))

Spec == Init /\ [][Next]_vars /\ Fairness

-----------------------------------------------------------------------------
(* With one worker the steps of a request add up to the atomic action of    *)
(* Game: until the answer is sent, the board it shows is the one before the *)
(* cells found were revealed and the flag was toggled.                     *)

(* The board that a worker with the locals j shows while the board is b.   *)
View(b, j) ==
    [b EXCEPT !.revealed = @ \ j.found,
              !.flagged  = IF j.pc # "flag: answer" THEN @
                           ELSE IF j.old THEN @ \cup {j.c} ELSE @ \ {j.c}]

Shown(w) == View(board, job[w])

G == INSTANCE Game WITH board <- Shown(CHOOSE w \in Workers : TRUE)

(* The loops and the queue of the code compute what Game says in one step:  *)
(* the same cells opened, the same answer, the same refusals.              *)
ImplementsGame == G!Spec

-----------------------------------------------------------------------------
(* The board's cells and the workers' locals are of their types.           *)
TypeOK ==
    /\ board \in Boards
    /\ \A w \in Workers :
           /\ job[w].c \in Cells
           /\ job[w].found \cup job[w].visited \subseteq Cells
    /\ told \cup everFlagged \subseteq Cells
    /\ boomed \in BOOLEAN

(* Whatever the workers do to the board at the same time, a cell that one   *)
(* of them reveals is in the result of a handler that still runs or in an   *)
(* answer: no revealed cell is unknown to the client.                      *)
NothingOpenedIsLost ==
    board.revealed = told \cup UNION {job[w].found : w \in Workers}

(* A mine is opened by a chord only, and once it is known it was announced  *)
(* as a boom.                                                              *)
MinesAreOpenedByChords ==
    /\ \A w \in Workers : job[w].found \cap board.mines # {} => job[w].endpoint = "cell/check"
    /\ told \cap board.mines # {} => boomed

Quiet == \A w \in Workers : job[w].pc = "idle"

(* Two flood fills that meet leave no gap: one stops at a cell that the     *)
(* other has revealed, and the other one expands it.  When no request is    *)
(* in progress, the cells around a revealed zero are revealed, but for      *)
(* those that had a flag at some time.                                     *)
QuietZerosAreOpenedAround ==
    Quiet => \A c \in board.revealed :
                 NeighborBombsCount(board, c) = 0 => Neighbors[c] \subseteq board.revealed \cup everFlagged

(* Every request is answered: the flood fill and the counts terminate,      *)
(* whatever the other workers do to the board meanwhile.                   *)
EveryRequestIsAnswered ==
    \A w \in Workers : job[w].pc # "idle" ~> job[w].pc = "idle"

-----------------------------------------------------------------------------
(* What the documentation says and two requests at a time break.           *)

(* server_api.md:368: a cell is not flagged when "No bombs are left to      *)
(* flag".  Two workers may both find the last bomb left.                   *)
FlagsNeverExceedMines == Quiet => FlagsCount(board) <= BombsTotal(board)
=============================================================================
