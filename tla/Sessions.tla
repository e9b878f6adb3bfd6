------------------------------ MODULE Sessions ------------------------------
(***************************************************************************)
(* Clients, tokens and boards: what the server keeps for all its clients   *)
(* and how a request finds its board.                                      *)
(*                                                                         *)
(*   plugin_api_t         the board templates and the counter of ids       *)
(*   clients_t            the map of clients, behind its mutex             *)
(*   session_new_handler  creates a client and signs its token             *)
(*   dispatch             verifies the token, finds the client, and calls  *)
(*                        the handler on the client's board                *)
(*                                                                         *)
(* The worker threads interleave at every lock and every atomic operation. *)
(* The server may be killed at any moment and started again: its memory is *)
(* lost, and the RSA keys are read from their files or generated anew.     *)
(*                                                                         *)
(* A board is here the set of moves made on it; Game.tla and               *)
(* HandlerSteps.tla say what a move does.                                  *)
(***************************************************************************)
EXTENDS Integers, FiniteSets

CONSTANTS Workers,     \* the worker threads of the service
          Moves,       \* what a board handler may leave on a board
          FirstBoards, \* the number of templates that main() adds
          MaxBoards,   \* bound: the templates of one run of the server
          MaxClients,  \* bound: the client ids drawn in one run
          MaxRuns,     \* bound: the runs of the server
          KeyFates     \* on a restart the key files are "kept" or "new"

ASSUME SessionsAssumption ==
    /\ MaxBoards \in Nat /\ FirstBoards \in 1..MaxBoards
    /\ MaxClients \in Nat
    /\ MaxRuns \in Nat \ {0}
    /\ KeyFates \subseteq {"kept", "new"}

VARIABLES
    boardsCount,  \* boards_.size(); the ids are 1..boardsCount
    nextClientId, \* next_client_id_
    clients,      \* clients_t::data_: client id -> its template and its board
    moves,        \* the boards in memory: the moves made on each
    job,          \* per worker: its program counter and its local variables
    run,          \* which run of the server this is
    key,          \* the RSA key pair in use, named after the run that made it
    tokens,       \* the tokens that have been sent
    refused       \* history: session/new has failed to create a client

vars == <<boardsCount, nextClientId, clients, moves, job, run, key, tokens, refused>>

-----------------------------------------------------------------------------
BoardIds == 1..MaxBoards
ClientIds == 1..MaxClients

(* The board objects in memory: the templates and the clients' copies.      *)
Template(boardId) == <<"template", boardId>>
Copy(client) == <<"copy", client>>
Objects == ({"template"} \X BoardIds) \cup ({"copy"} \X ClientIds)

(* A token carries the client id, and is signed with a key.  The run and    *)
(* the board it was issued for are history.                                *)
Tokens == [client : 0..MaxClients, key : 0..MaxRuns, run : 0..MaxRuns, board : Objects]

NoToken == [client |-> 0, key |-> 0, run |-> 0, board |-> Template(1)]

(* boardId, client: session_new_handler's; token: the bearer token of a      *)
(* board request; board: the object that board() or find() has returned.    *)
Idle == [pc |-> "idle", boardId |-> 0, client |-> 0, board |-> Template(1), token |-> NoToken]

Labels == {"idle", "add_new_client", "board", "clients.add", "sign", "clients.find", "handle"}

Jobs == [pc : Labels, boardId : 0..MaxBoards, client : 0..MaxClients, board : Objects, token : Tokens]

Clients == UNION {[S -> [boardId : BoardIds, board : Objects]] : S \in SUBSET ClientIds}

Untouched == [o \in Objects |-> {}]

Init ==
    /\ boardsCount = FirstBoards
    /\ nextClientId = 1
    /\ clients = [i \in {} |-> [boardId |-> 1, board |-> Template(1)]]
    /\ moves = Untouched
    /\ job = [w \in Workers |-> Idle]
    /\ run = 1
    /\ key = 1
    /\ tokens = {}
    /\ refused = FALSE

-----------------------------------------------------------------------------
(* plugin_api_t::add_board, open to every plugin while requests are served. *)
AddBoard ==
    /\ boardsCount < MaxBoards
    /\ boardsCount' = boardsCount + 1
    /\ UNCHANGED <<nextClientId, clients, moves, job, run, key, tokens, refused>>

-----------------------------------------------------------------------------
(* session/new.  The id of the template is drawn at random or checked       *)
(* against boards_count(): 0 and the ids above it are answered 403.         *)

(* Mutant: off by one.                                                     *)
InRangeOffByOne(boardId) == boardId # 0 /\ boardId <= boardsCount + 1

InRange(boardId) == boardId # 0 /\ boardId <= boardsCount

(* Bound: a request is taken while there is an id left to draw for it.      *)
IdsLeft == nextClientId + Cardinality({v \in Workers : job[v].pc = "add_new_client"}) <= MaxClients

SessionNew(w, boardId) ==
    /\ job[w].pc = "idle"
    /\ \/ /\ InRange(boardId)
          /\ IdsLeft
          /\ job' = [job EXCEPT ![w] = [Idle EXCEPT !.pc = "add_new_client", !.boardId = boardId]]
       \/ /\ ~InRange(boardId)
          /\ UNCHANGED job
    /\ UNCHANGED <<boardsCount, nextClientId, clients, moves, run, key, tokens, refused>>

(* The worker goes on, or answers and is done.                             *)
GoOn(w, label, client, board) ==
    job' = [job EXCEPT ![w] = [job[w] EXCEPT !.pc = label, !.client = client, !.board = board]]

Done(w) == job' = [job EXCEPT ![w] = Idle]

(* Mutant: the id is read and the counter is not stepped.                  *)
FetchIdNoIncrement(w) ==
    /\ job[w].pc = "add_new_client"
    /\ nextClientId <= MaxClients
    /\ GoOn(w, "board", nextClientId, job[w].board)
    /\ UNCHANGED <<boardsCount, nextClientId, clients, moves, run, key, tokens, refused>>

(* next_client_id_.fetch_add(1)                                            *)
FetchId(w) ==
    /\ job[w].pc = "add_new_client"
    /\ nextClientId <= MaxClients
    /\ GoOn(w, "board", nextClientId, job[w].board)
    /\ nextClientId' = nextClientId + 1
    /\ UNCHANGED <<boardsCount, clients, moves, run, key, tokens, refused>>

(* board(board_id): boards_.at() under its mutex; if it throws the client   *)
(* is not created and the answer is 500.                                   *)
FindTemplate(w) ==
    LET found == job[w].boardId \in 1..boardsCount IN
    /\ job[w].pc = "board"
    /\ IF found
       THEN GoOn(w, "clients.add", job[w].client, Template(job[w].boardId))
       ELSE Done(w)
    /\ refused' = (refused \/ ~found)
    /\ UNCHANGED <<boardsCount, nextClientId, clients, moves, run, key, tokens>>

Register(i, entry) == [n \in DOMAIN clients \cup {i} |-> IF n = i THEN entry ELSE clients[n]]

(* Mutant: the client gets the template itself.                            *)
AddClientNoClone(w) ==
    LET i == job[w].client IN
    /\ job[w].pc = "clients.add"
    /\ clients' = Register(i, [boardId |-> job[w].boardId, board |-> job[w].board])
    /\ GoOn(w, "sign", i, job[w].board)
    /\ UNCHANGED <<boardsCount, nextClientId, moves, run, key, tokens, refused>>

(* clients_t::add: clone() and emplace() under its mutex; an id that is     *)
(* taken is not emplaced and the answer is 500.                            *)
AddClient(w) ==
    LET i     == job[w].client
        taken == i \in DOMAIN clients
    IN  /\ job[w].pc = "clients.add"
        /\ clients' = IF taken THEN clients
                      ELSE Register(i, [boardId |-> job[w].boardId, board |-> Copy(i)])
        /\ moves' = IF taken THEN moves
                    ELSE [moves EXCEPT ![Copy(i)] = moves[job[w].board]]
        /\ IF taken THEN Done(w) ELSE GoOn(w, "sign", i, Copy(i))
        /\ refused' = (refused \/ taken)
        /\ UNCHANGED <<boardsCount, nextClientId, run, key, tokens>>

(* Mutant: the last id that was drawn.                                     *)
TokenForLastId(i, b) == [client |-> nextClientId - 1, key |-> key, run |-> run, board |-> b]

TokenFor(i, b) == [client |-> i, key |-> key, run |-> run, board |-> b]

(* create_jwt_for_client, and the answer; if signing throws the answer is   *)
(* 500 and the client stays, with no token.                                *)
SignToken(w) ==
    /\ job[w].pc = "sign"
    /\ \/ tokens' = tokens \cup {TokenFor(job[w].client, job[w].board)}
       \/ tokens' = tokens
    /\ Done(w)
    /\ UNCHANGED <<boardsCount, nextClientId, clients, moves, run, key, refused>>

-----------------------------------------------------------------------------
(* A request for a board handler.  A token that does not verify is answered *)
(* 401; so is one that has expired, which any of them may have.            *)

(* Mutant: the signature is not verified.                                  *)
VerifiedAnyKey(t) == t \in Tokens

Verified(t) == t.key = key

BoardRequest(w, t) ==
    /\ job[w].pc = "idle"
    /\ \/ /\ Verified(t)
          /\ job' = [job EXCEPT ![w] = [Idle EXCEPT !.pc = "clients.find", !.token = t]]
       \/ UNCHANGED job
    /\ UNCHANGED <<boardsCount, nextClientId, clients, moves, run, key, tokens, refused>>

(* board_for_client; "Client not found." is a 403.                         *)
FindClient(w) ==
    LET i == job[w].token.client IN
    /\ job[w].pc = "clients.find"
    /\ \/ /\ i \in DOMAIN clients
          /\ GoOn(w, "handle", job[w].client, clients[i].board)
       \/ /\ i \notin DOMAIN clients
          /\ Done(w)
    /\ UNCHANGED <<boardsCount, nextClientId, clients, moves, run, key, tokens, refused>>

(* The handler runs, and its result is sent.                               *)
Handle(w) ==
    /\ job[w].pc = "handle"
    /\ \E made \in SUBSET Moves : moves' = [moves EXCEPT ![job[w].board] = @ \cup made]
    /\ Done(w)
    /\ UNCHANGED <<boardsCount, nextClientId, clients, run, key, tokens, refused>>

-----------------------------------------------------------------------------
(* The server is stopped or killed, and started again.                     *)
Restart(fate) ==
    /\ run < MaxRuns
    /\ run' = run + 1
    /\ key' = IF fate = "kept" THEN key ELSE run'
    /\ boardsCount' = FirstBoards
    /\ nextClientId' = 1
    /\ clients' = [i \in {} |-> [boardId |-> 1, board |-> Template(1)]]
    /\ moves' = Untouched
    /\ job' = [w \in Workers |-> Idle]
    /\ UNCHANGED <<tokens, refused>>

Work(w) ==
    \/ \E boardId \in 0..(MaxBoards + 1) : SessionNew(w, boardId)
    \/ FetchId(w)
    \/ FindTemplate(w)
    \/ AddClient(w)
    \/ SignToken(w)
    \/ \E t \in tokens : BoardRequest(w, t)
    \/ FindClient(w)
    \/ Handle(w)

Next ==
    \/ \E w \in Workers : Work(w)
    \/ AddBoard
    \/ \E fate \in KeyFates : Restart(fate)

Spec == Init /\ [][Next]_vars

-----------------------------------------------------------------------------
(* The ids and the objects of every map, job and token exist.               *)
TypeOK ==
    /\ boardsCount \in BoardIds
    /\ nextClientId \in 1..(MaxClients + 1)
    /\ clients \in Clients
    /\ moves \in [Objects -> SUBSET Moves]
    /\ job \in [Workers -> Jobs]
    /\ run \in 1..MaxRuns
    /\ key \in 1..MaxRuns
    /\ tokens \subseteq Tokens
    /\ refused \in BOOLEAN

(* session/new with a board id that boards_count() allows always creates    *)
(* its client: the template is still there when board() looks for it, and   *)
(* the id is new when clients_t::add emplaces it.                          *)
ClientsCanBeCreated == ~refused

(* server_api.md:125: "each client gets its own independent copy": no two   *)
(* clients share a board, and none plays on a template.                    *)
CopiesAreIndependent ==
    \A i \in DOMAIN clients :
        /\ \A j \in DOMAIN clients : clients[i].board = clients[j].board => i = j
        /\ \A boardId \in BoardIds : clients[i].board # Template(boardId)

(* ... of "that board's initial layout": no move ever reaches a template,   *)
(* whose clone every later client starts with.                             *)
TemplatesStayUntouched == \A boardId \in BoardIds : moves[Template(boardId)] = {}

(* As long as the server runs, a token leads to the client it was made for, *)
(* whose board is there and is the one that was cloned for it: the client   *)
(* is registered before its token is sent, under the id that it carries.    *)
TokensReachTheirBoard ==
    \A t \in tokens : t.run = run =>
        /\ t.client \in DOMAIN clients
        /\ clients[t.client].board = t.board

(* A board handler is called with the board that was cloned for the session *)
(* whose token came with the request, as long as that session is one of     *)
(* this run of the server.  A token of an earlier run gets as far as a      *)
(* handler (of whichever client has its id now) only when the key pair was  *)
(* kept by every restart since: one start with new keys ends all of them.   *)
OnlyKeptKeysLetOldTokensIn ==
    \A w \in Workers : job[w].pc = "handle" =>
        /\ job[w].token.run = run => job[w].board = job[w].token.board
        /\ job[w].token.run # run => key <= job[w].token.run

-----------------------------------------------------------------------------
(* What the documentation says and a restart with the same keys breaks.    *)

(* server_plugins.md:170: "a board_handler_t handler is always called with  *)
(* an authenticated caller's own board": the one its session was given.     *)
HandlersGetCallersBoard ==
    \A w \in Workers : job[w].pc = "handle" =>
        /\ job[w].token.run = run
        /\ job[w].board = job[w].token.board
=============================================================================
