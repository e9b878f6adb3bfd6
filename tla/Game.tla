------------------------------- MODULE Game --------------------------------
(***************************************************************************)
(* One client's game: the handlers of the server that work on a board,     *)
(* one request at a time.                                                  *)
(*                                                                         *)
(*   cell/reveal            cell_reveal_handler           handlers.cxx     *)
(*   cell/flag              cell_flag_handler             handlers.cxx     *)
(*   cell/check             cell_check_handler            cell_check.cxx   *)
(*   board/check            board_check_handler           handlers.cxx     *)
(*   board/fully_revealed   board_fully_revealed_handler  handlers.cxx     *)
(*                                                                         *)
(* A request is one atomic action, which HandlerSteps.tla refines into     *)
(* the reads and writes of the code.                                       *)
(***************************************************************************)
EXTENDS Board

CONSTANT Layouts   \* the mine layouts of the board templates

ASSUME LayoutsAssumption == Layouts \subseteq SUBSET Cells

VARIABLES
    board,        \* the client's own copy of a template
    reply,        \* the answer to the last request
    boomed        \* history: some answer has reported a "boom"

vars == <<board, reply, boomed>>

Endpoints == {"session/new", "cell/reveal", "cell/flag", "cell/check",
              "board/check", "board/fully_revealed"}

Refusals == {"out_of_range", "is_flagged", "is_revealed", "no_bombs_left",
             "not_revealed", "is_bomb", "flags_mismatch", "unrevealed_left"}

Outcomes == Refusals \cup {"ok", "boom", "flagged", "unflagged", "win", "lose", "true", "false"}

Replies == [endpoint : Endpoints, outcome : Outcomes, cells : SUBSET Cells]

Answer(endpoint, outcome, cells) ==
    [endpoint |-> endpoint, outcome |-> outcome, cells |-> cells]

-----------------------------------------------------------------------------
Init ==
    /\ \E mines \in Layouts : board = FreshBoard(mines)
    /\ reply = Answer("session/new", "ok", {})
    /\ boomed = FALSE

(* The board stays as it is and the answer says why, or what it is like.   *)
AnswerOnly(endpoint, outcome) ==
    /\ reply' = Answer(endpoint, outcome, {})
    /\ UNCHANGED <<board, boomed>>

(* Mutant: the answer carries every revealed cell.                         *)
AnswerOpenedAll(endpoint, opened) ==
    /\ board' = RevealAll(board, opened)
    /\ reply' = Answer(endpoint, IF opened \cap board.mines # {} THEN "boom" ELSE "ok", board'.revealed)
    /\ boomed' = (boomed \/ opened \cap board.mines # {})

(* The cells opened, with a "boom" if there is a mine among them.          *)
AnswerOpened(endpoint, opened) ==
    /\ board' = RevealAll(board, opened)
    /\ reply' = Answer(endpoint, IF opened \cap board.mines # {} THEN "boom" ELSE "ok", opened)
    /\ boomed' = (boomed \/ opened \cap board.mines # {})

(* A mine is answered with "boom" before reveal_cells is ever called: its   *)
(* revealed bit stays clear.                                               *)
CellReveal(x, y) ==
    LET c == <<x, y>> IN
    \/ /\ ~IsValid(x, y)
       /\ AnswerOnly("cell/reveal", "out_of_range")
    \/ /\ IsValid(x, y)
       /\ c \in board.flagged
       /\ AnswerOnly("cell/reveal", "is_flagged")
    \/ /\ IsValid(x, y)
       /\ c \in board.mines \ board.flagged
       /\ reply' = Answer("cell/reveal", "boom", {c})
       /\ boomed' = TRUE
       /\ UNCHANGED board
    \/ /\ IsValid(x, y)
       /\ c \notin board.mines \cup board.flagged
       /\ AnswerOpened("cell/reveal", Opened(board, c))

(* A flag can always be taken back; it can be set while bombs_count() has   *)
(* not reached 0.                                                          *)
CellFlag(x, y) ==
    LET c == <<x, y>> IN
    \/ /\ ~IsValid(x, y)
       /\ AnswerOnly("cell/flag", "out_of_range")
    \/ /\ IsValid(x, y)
       /\ c \in board.revealed
       /\ AnswerOnly("cell/flag", "is_revealed")
    \/ /\ IsValid(x, y)
       /\ c \notin board.revealed \cup board.flagged
       /\ BombsCount(board) = 0
       /\ AnswerOnly("cell/flag", "no_bombs_left")
    \/ /\ IsValid(x, y)
       /\ c \notin board.revealed
       /\ c \in board.flagged \/ BombsCount(board) # 0
       /\ board' = ToggleFlag(board, c)
       /\ reply' = Answer("cell/flag", IF c \in board.flagged THEN "unflagged" ELSE "flagged", {})
       /\ UNCHANGED boomed

(* The chord: the neighbours are opened without asking whether they are     *)
(* mines.                                                                  *)
CellCheck(x, y) ==
    LET c == <<x, y>> IN
    \/ /\ ~IsValid(x, y)
       /\ AnswerOnly("cell/check", "out_of_range")
    \/ /\ IsValid(x, y)
       /\ c \notin board.revealed
       /\ AnswerOnly("cell/check", "not_revealed")
    \/ /\ IsValid(x, y)
       /\ c \in board.revealed \cap board.mines
       /\ AnswerOnly("cell/check", "is_bomb")
    \/ /\ IsValid(x, y)
       /\ c \in board.revealed \ board.mines
       /\ NeighborFlagsCount(board, c) # NeighborBombsCount(board, c)
       /\ AnswerOnly("cell/check", "flags_mismatch")
    \/ /\ IsValid(x, y)
       /\ c \in board.revealed \ board.mines
       /\ NeighborFlagsCount(board, c) = NeighborBombsCount(board, c)
       /\ AnswerOpened("cell/check", OpenedAround(board, c))

BoardCheck ==
    \/ /\ ~Checkable(board)
       /\ AnswerOnly("board/check", "unrevealed_left")
    \/ /\ Checkable(board)
       /\ AnswerOnly("board/check", IF NoBadMine(board) THEN "win" ELSE "lose")

BoardFullyRevealed ==
    AnswerOnly("board/fully_revealed", IF FullyRevealed(board) THEN "true" ELSE "false")

Next ==
    \/ \E xy \in Coordinates : CellReveal(xy[1], xy[2])
    \/ \E xy \in Coordinates : CellFlag(xy[1], xy[2])
    \/ \E xy \in Coordinates : CellCheck(xy[1], xy[2])
    \/ BoardCheck
    \/ BoardFullyRevealed

Spec == Init /\ [][Next]_vars

-----------------------------------------------------------------------------
(* Every variable holds a value of its type: a board with its three bits    *)
(* per cell, an answer of one of the endpoints, a flag.                      *)
TypeOK ==
    /\ board \in Boards
    /\ reply \in Replies
    /\ boomed \in BOOLEAN

(* A client never has more flags on the board than there are mines and no   *)
(* revealed cell carries a flag: what cell_flag_handler refuses to flag,    *)
(* and what reveal_cells refuses to reveal, keep it so between them.        *)
FlagDiscipline ==
    /\ FlagsCount(board) <= BombsTotal(board)
    /\ board.flagged \cap board.revealed = {}

(* The flood fill is complete: when a request reveals a cell that shows 0,  *)
(* it leaves no cell around it covered, but for those under a flag.        *)
ZerosAreOpenedAround ==
    [][\A c \in board'.revealed \ board.revealed :
           NeighborBombsCount(board, c) = 0
               => Neighbors[c] \subseteq board'.revealed \cup board'.flagged]_vars

Solved == board.flagged = board.mines /\ board.revealed = Cells \ board.mines

(* board/check answers "win" on a solved board only: every mine flagged,    *)
(* and every other cell (not just as many cells) revealed.                 *)
WinMeansSolved ==
    reply.endpoint = "board/check" /\ reply.outcome = "win" => Solved

(* The two counts that board/fully_revealed compares stand for two sets:    *)
(* when it answers "true", the flags are on the covered cells, on all of    *)
(* them and nowhere else, even where opened mines and flags on safe cells   *)
(* cancel out; and the board is solved when no mine has been opened.       *)
FullyRevealedMeansSolved ==
    FullyRevealed(board)
        => /\ board.flagged = Cells \ board.revealed
           /\ board.mines \cap board.revealed = {} => Solved

(* A mine is opened by cell/check only, never by the flood fill of          *)
(* cell/reveal; the answer says so; and some flag stood on a safe cell: a   *)
(* chord among correct flags is safe.                                      *)
OnlyMisflaggedChordOpensMine ==
    [][board'.revealed \cap board.mines # board.revealed \cap board.mines
         => /\ reply'.endpoint = "cell/check"
            /\ reply'.outcome = "boom"
            /\ board.flagged \ board.mines # {}]_vars

(* Revealed cells stay revealed, and an answer carries exactly the cells    *)
(* its request has revealed, so that a client that reads its answers knows  *)
(* every revealed cell (the mine that cell/reveal boomed is the exception:  *)
(* it is in the answer and stays covered).  A cell that was open before is  *)
(* not in the answer, though the documentation says otherwise: see          *)
(* RevealAnswersACell below.                                               *)
AnswersTellTheDifference ==
    [][/\ board.revealed \subseteq board'.revealed
       /\ board'.revealed \ board.revealed =
              IF reply'.endpoint = "cell/reveal" /\ reply'.outcome = "boom"
              THEN {}
              ELSE reply'.cells]_vars

-----------------------------------------------------------------------------
(* What the documentation says and the code does not do.                   *)

(* server_api.md:242: "A win means none of the mines were boomed and all of *)
(* them are flagged."  A mine boomed by cell/reveal leaves no trace.       *)
WinMeansNoBoom ==
    reply.endpoint = "board/check" /\ reply.outcome = "win" => ~boomed

(* server_api.md:298, on the cells of a successful cell/reveal: "Array of   *)
(* one or more [...] objects" and "For "ok", the array has one element for  *)
(* a plain reveal (1+ neighboring mines, or the cell was already revealed)". *)
(* A cell that is open already is answered with an empty array.            *)
RevealAnswersACell ==
    reply.endpoint = "cell/reveal" /\ reply.outcome = "ok" => reply.cells # {}
=============================================================================
