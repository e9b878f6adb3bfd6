------------------------------- MODULE Client ------------------------------
(***************************************************************************)
(* The terminal client (src/src/client) on top of Game: run_game() turns   *)
(* keys into requests, one at a time, and paints the answers into its own  *)
(* picture of the board.                                                   *)
(*                                                                         *)
(* A request gets its answer (the handler's step and the client's reading  *)
(* of it are then one action), or the client gives up on it: no            *)
(* connection, libcurl's 30 seconds, a lost answer.  The server handles an *)
(* abandoned request at some later time or never.  That the answer was     *)
(* lost is the case in which it handles it at once.                        *)
(*                                                                         *)
(* The cursor does not move while a request is out, so that the program    *)
(* counter and the cursor name the request.                                *)
(***************************************************************************)
EXTENDS Game

CONSTANT MaxLosses   \* bound: how many requests the client may give up on

ASSUME LossesAssumption == MaxLosses \in Nat

VARIABLES
    pc,           \* the request that is out, "idle" at getch(), "over" at the end
    cursor,       \* cursor_x, cursor_y
    picture,      \* ui::board_t: what each cell is drawn as
    bombsLeft,    \* the header: bombs left
    bombsTotal,   \* the header: bombs in all
    popup,        \* the result window on the screen
    lost,         \* history: the requests that were given up
    late          \* those to a cell that the server has yet to handle, if ever

clientVars == <<pc, cursor, picture, bombsLeft, bombsTotal, popup, lost, late>>
playVars == <<vars, clientVars>>

CellRequests == {"cell/reveal", "cell/flag", "cell/check"}

(* main() asks for a session, the size and the bombs; run_game() asks for   *)
(* the bombs again, and once more after each flag.                         *)
Asking == {"session_new", "board_size", "main_bombs", "game_bombs", "flag_bombs",
           "board/fully_revealed", "board/check"} \cup CellRequests

Drawn == [state : {"hidden", "flagged", "revealed", "boom"}, count : 0..8]

LostRequests == [nr : 1..MaxLosses, endpoint : Asking, at : Cells]

PlayInit ==
    /\ Init
    /\ pc = "session_new"
    /\ cursor = <<1, 1>>
    /\ picture = [c \in Cells |-> [state |-> "hidden", count |-> 0]]
    /\ bombsLeft = 0
    /\ bombsTotal = 0
    /\ popup = "none"
    /\ lost = {}
    /\ late = {}

-----------------------------------------------------------------------------
(* Keys                                                                    *)

Arrows == {<<-1, 0>>, <<1, 0>>, <<0, -1>>, <<0, 1>>}

(* Mutant: the edges of the board are forgotten.                           *)
MoveCursorFreely(d) ==
    /\ pc = "idle"
    /\ cursor' = <<cursor[1] + d[1], cursor[2] + d[2]>>
    /\ UNCHANGED <<vars, pc, picture, bombsLeft, bombsTotal, popup, lost, late>>

MoveCursor(d) ==
    /\ pc = "idle"
    /\ IsValid(cursor[1] + d[1], cursor[2] + d[2])
    /\ cursor' = <<cursor[1] + d[1], cursor[2] + d[2]>>
    /\ UNCHANGED <<vars, pc, picture, bombsLeft, bombsTotal, popup, lost, late>>

(* Enter and 'o', backspace and back-tab, space and 'f'.                   *)
Press(endpoint) ==
    /\ pc = "idle"
    /\ pc' = endpoint
    /\ UNCHANGED <<vars, cursor, picture, bombsLeft, bombsTotal, popup, lost, late>>

Quit ==
    /\ pc = "idle"
    /\ pc' = "over"
    /\ UNCHANGED <<vars, cursor, picture, bombsLeft, bombsTotal, popup, lost, late>>

-----------------------------------------------------------------------------
(* Answers                                                                 *)

Paint(cells, drawing) ==
    picture' = [c \in Cells |-> IF c \in cells THEN drawing[c] ELSE picture[c]]

(* What the server does for a request to a cell.                           *)
Served(endpoint, at) ==
    \/ endpoint = "cell/reveal" /\ CellReveal(at[1], at[2])
    \/ endpoint = "cell/flag" /\ CellFlag(at[1], at[2])
    \/ endpoint = "cell/check" /\ CellCheck(at[1], at[2])

SessionStarted ==
    /\ pc \in {"session_new", "board_size"}
    /\ pc' = IF pc = "session_new" THEN "board_size" ELSE "main_bombs"
    /\ UNCHANGED <<vars, cursor, picture, bombsLeft, bombsTotal, popup, lost, late>>

(* main() hands run_game() the total only, which is then what is left.     *)
BombsAnswered ==
    /\ pc \in {"main_bombs", "game_bombs", "flag_bombs"}
    /\ bombsTotal' = BombsTotal(board)
    /\ bombsLeft' = IF pc = "main_bombs" THEN BombsTotal(board) ELSE BombsCount(board)
    /\ \/ pc = "main_bombs" /\ pc' = "game_bombs"
       \/ pc = "game_bombs" /\ pc' = "idle"
       \/ pc = "flag_bombs" /\ pc' = "board/fully_revealed"
    /\ UNCHANGED <<vars, cursor, picture, popup, lost, late>>

(* A 4xx: a message, and back to the keys.                                 *)
Refused ==
    /\ reply'.outcome \in Refusals
    /\ pc' = "idle"
    /\ UNCHANGED <<picture, popup>>

(* Mutant: the game goes on after a boom.                                  *)
BoomShownGameGoesOn ==
    /\ reply'.outcome = "boom"
    /\ Paint(reply'.cells, [c \in Cells |-> [picture[c] EXCEPT !.state = "boom"]])
    /\ pc' = "board/fully_revealed"
    /\ UNCHANGED popup

(* Every cell of the answer is drawn as a boom, the safe ones of a chord   *)
(* too, and the game is over.                                              *)
BoomShown ==
    /\ reply'.outcome = "boom"
    /\ Paint(reply'.cells, [c \in Cells |-> [picture[c] EXCEPT !.state = "boom"]])
    /\ popup' = "boom"
    /\ pc' = "over"

(* Mutant: the answer's status is not looked at.                           *)
CellsShownBoomForgotten ==
    /\ reply'.outcome \in {"ok", "boom"}
    /\ Paint(reply'.cells, [c \in Cells |-> [state |-> "revealed",
                                             count |-> Cardinality(Neighbors[c] \cap board.mines)]])
    /\ pc' = "board/fully_revealed"
    /\ UNCHANGED popup

CellsShown ==
    /\ reply'.outcome = "ok"
    /\ Paint(reply'.cells, [c \in Cells |-> [state |-> "revealed",
                                             count |-> NeighborBombsCount(board, c)]])
    /\ pc' = "board/fully_revealed"
    /\ UNCHANGED popup

CellsAnswered ==
    /\ pc \in {"cell/reveal", "cell/check"}
    /\ Served(pc, cursor)
    /\ Refused \/ BoomShown \/ CellsShown
    /\ UNCHANGED <<cursor, bombsLeft, bombsTotal, lost, late>>

(* Mutant: the end of the game is looked for after a reveal only.          *)
FlagShownNoCheck ==
    /\ reply'.outcome \in {"flagged", "unflagged"}
    /\ Paint({cursor}, [c \in Cells |-> [picture[c] EXCEPT
           !.state = IF reply'.outcome = "flagged" THEN "flagged" ELSE "hidden"]])
    /\ pc' = "game_bombs"
    /\ UNCHANGED popup

(* Mutant: the answer's "flagged" is not read.                             *)
FlagShownAlways ==
    /\ reply'.outcome \in {"flagged", "unflagged"}
    /\ Paint({cursor}, [c \in Cells |-> [picture[c] EXCEPT !.state = "flagged"]])
    /\ pc' = "flag_bombs"
    /\ UNCHANGED popup

FlagShown ==
    /\ reply'.outcome \in {"flagged", "unflagged"}
    /\ Paint({cursor}, [c \in Cells |-> [picture[c] EXCEPT
           !.state = IF reply'.outcome = "flagged" THEN "flagged" ELSE "hidden"]])
    /\ pc' = "flag_bombs"
    /\ UNCHANGED popup

FlagAnswered ==
    /\ pc = "cell/flag"
    /\ Served(pc, cursor)
    /\ Refused \/ FlagShown
    /\ UNCHANGED <<cursor, bombsLeft, bombsTotal, lost, late>>

(* Mutant: the client asks until the answer is yes.                        *)
FullyRevealedPolled ==
    /\ pc = "board/fully_revealed"
    /\ BoardFullyRevealed
    /\ pc' = IF reply'.outcome = "true" THEN "board/check" ELSE "board/fully_revealed"
    /\ UNCHANGED <<cursor, picture, bombsLeft, bombsTotal, popup, lost, late>>

FullyRevealedAnswered ==
    /\ pc = "board/fully_revealed"
    /\ BoardFullyRevealed
    /\ pc' = IF reply'.outcome = "true" THEN "board/check" ELSE "idle"
    /\ UNCHANGED <<cursor, picture, bombsLeft, bombsTotal, popup, lost, late>>

VerdictShown ==
    /\ reply'.outcome \in {"win", "lose"}
    /\ popup' = reply'.outcome
    /\ pc' = "over"
    /\ UNCHANGED picture

CheckAnswered ==
    /\ pc = "board/check"
    /\ BoardCheck
    /\ Refused \/ VerdictShown
    /\ UNCHANGED <<cursor, bombsLeft, bombsTotal, lost, late>>

-----------------------------------------------------------------------------
(* Losses                                                                  *)

(* Where the client goes on when there is no answer: main() gives up, the  *)
(* bombs are optional, everything else goes back to the keys.              *)
AfterFailure(p) ==
    IF p \in {"session_new", "board_size"} THEN "over"
    ELSE IF p = "main_bombs" THEN "game_bombs"
    ELSE IF p = "flag_bombs" THEN "board/fully_revealed"
    ELSE "idle"

GiveUp ==
    LET request == [nr |-> Cardinality(lost) + 1, endpoint |-> pc, at |-> cursor] IN
    /\ pc \in Asking
    /\ Cardinality(lost) < MaxLosses
    /\ pc' = AfterFailure(pc)
    /\ lost' = lost \cup {request}
    /\ late' = IF pc \in CellRequests THEN late \cup {request} ELSE late
    /\ UNCHANGED <<vars, cursor, picture, bombsLeft, bombsTotal, popup>>

LateArrives(request) ==
    /\ Served(request.endpoint, request.at)
    /\ late' = late \ {request}
    /\ UNCHANGED <<pc, cursor, picture, bombsLeft, bombsTotal, popup, lost>>

-----------------------------------------------------------------------------
Exchange ==
    \/ SessionStarted
    \/ BombsAnswered
    \/ CellsAnswered
    \/ FlagAnswered
    \/ FullyRevealedAnswered
    \/ CheckAnswered
    \/ GiveUp

PlayNext ==
    \/ \E d \in Arrows : MoveCursor(d)
    \/ \E endpoint \in CellRequests : Press(endpoint)
    \/ Quit
    \/ SessionStarted
    \/ BombsAnswered
    \/ CellsAnswered
    \/ FlagAnswered
    \/ FullyRevealedAnswered
    \/ CheckAnswered
    \/ GiveUp
    \/ \E request \in late : LateArrives(request)

PlaySpec == PlayInit /\ [][PlayNext]_playVars

(* libcurl ends every request within its timeout, answered or not.         *)
FairPlaySpec == PlaySpec /\ WF_playVars(Exchange)

-----------------------------------------------------------------------------
(* Every variable of the client holds a value of its type; the cursor is on *)
(* the board, which ui::board_t::index() relies on.                        *)
ClientTypeOK ==
    /\ TypeOK
    /\ pc \in Asking \cup {"idle", "over"}
    /\ cursor \in Cells
    /\ picture \in [Cells -> Drawn]
    /\ bombsLeft \in 0..Cardinality(Cells)
    /\ bombsTotal \in 0..Cardinality(Cells)
    /\ popup \in {"none", "boom", "win", "lose"}
    /\ lost \subseteq LostRequests
    /\ late \subseteq lost

(* A cell drawn with a number is revealed on the server, is no mine and has *)
(* that many mines around it, whatever was lost and however late a request  *)
(* of the client's has been handled.                                       *)
PictureIsTrue ==
    \A c \in Cells : picture[c].state = "revealed"
        => /\ c \in board.revealed \ board.mines
           /\ picture[c].count = NeighborBombsCount(board, c)

(* The picture and the board agree, but for what the client gave up on: a   *)
(* flag differs in the cell of a lost cell/flag only, and a revealed cell   *)
(* is missing only after a lost cell/reveal or cell/check, or in the boom   *)
(* that ends the game.                                                     *)
PictureDiffersByLosses ==
    \A c \in Cells :
        /\ (picture[c].state = "flagged") # (c \in board.flagged)
               => \E r \in lost : r.endpoint = "cell/flag" /\ r.at = c
        /\ c \in board.revealed
               => \/ picture[c].state \in {"revealed", "boom"}
                  \/ \E r \in lost : r.endpoint \in {"cell/reveal", "cell/check"}

(* server_api.md:242 says that a win means that no mine was boomed.  The    *)
(* server does not keep that; a player of this client who loses no answer   *)
(* gets it, since a boom ends the client.                                  *)
WinShownMeansNoBoom ==
    popup = "win" /\ lost = {} => ~boomed

(* "You lose" is shown by board/check only when a chord or a flag was lost: *)
(* otherwise the client has noticed the mine, or the flags are right.      *)
LoseShownAfterLossOnly ==
    popup = "lose" => \E r \in lost : r.endpoint \in {"cell/check", "cell/flag"}

(* A client that has lost nothing does not wait for a key on a solved       *)
(* board: it has asked after the request that solved it.                   *)
EndIsNoticed ==
    pc = "idle" /\ Solved => lost # {}

(* The client comes back to the keyboard, or ends, whatever is lost.        *)
KeysAreDealtWith == pc \in Asking ~> pc \in {"idle", "over"}
=============================================================================
