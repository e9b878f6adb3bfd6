--------------------------- MODULE SessionsProofs ---------------------------
(* Theorems about Sessions.tla: for any number of workers, templates,       *)
(* clients and runs.                                                       *)
EXTENDS Sessions, TLAPS

(* The ids that are drawn are below the counter, and a client's board is    *)
(* the copy made under its id.                                             *)
ClientsAreDrawn ==
    \A i \in DOMAIN clients : i < nextClientId /\ clients[i].board = Copy(i)

(* An id between fetch_add and emplace is one worker's alone.               *)
Drawing(w) == job[w].pc \in {"board", "clients.add"}

DrawnIdsAreNew ==
    \A w \in Workers : Drawing(w) =>
        /\ job[w].client \in 1..(nextClientId - 1)
        /\ job[w].client \notin DOMAIN clients
        /\ \A v \in Workers \ {w} : Drawing(v) => job[v].client # job[w].client

(* What a worker has found out on its way to the answer.                   *)
JobsKnow ==
    \A w \in Workers :
        /\ job[w].pc \in {"add_new_client", "board", "clients.add"} => job[w].boardId \in 1..boardsCount
        /\ job[w].pc = "clients.add" => job[w].board = Template(job[w].boardId)
        /\ job[w].pc = "sign" => /\ job[w].client \in DOMAIN clients
                                 /\ job[w].board = Copy(job[w].client)
        /\ job[w].pc = "handle" => job[w].board = Copy(job[w].token.client)

TokensAreIssued ==
    \A t \in tokens :
        /\ t.run <= run
        /\ t.board = Copy(t.client)
        /\ t.run = run => t.client \in DOMAIN clients

IInv ==
    /\ TypeOK
    /\ ClientsAreDrawn
    /\ DrawnIdsAreNew
    /\ JobsKnow
    /\ TokensAreIssued
    /\ TemplatesStayUntouched
    /\ ClientsCanBeCreated

(* Keys are named after the run that made them: no token is older than the  *)
(* key it was signed with, and a token that was verified has the key in use. *)
KeysAreNoYounger ==
    /\ key <= run
    /\ \A t \in tokens : t.key <= t.run
    /\ \A w \in Workers : job[w].pc \in {"clients.find", "handle"} =>
           job[w].token \in tokens /\ job[w].token.key = key

-----------------------------------------------------------------------------
LEMMA CopyIsNoTemplate == \A i, b : Copy(i) # Template(b)
BY DEF Copy, Template

LEMMA ObjectsExist ==
    /\ \A b \in BoardIds : Template(b) \in Objects
    /\ \A i \in ClientIds : Copy(i) \in Objects
    /\ BoardIds \subseteq Nat /\ 1 \in BoardIds /\ FirstBoards \in BoardIds
BY SessionsAssumption DEF Template, Copy, Objects, BoardIds, ClientIds

LEMMA IdleIsAJob == NoToken \in Tokens /\ Idle \in Jobs
BY SessionsAssumption, ObjectsExist DEF NoToken, Tokens, Idle, Jobs, Labels

LEMMA NoClients ==
    ASSUME NEW c, c = [i \in {} |-> [boardId |-> 1, board |-> Template(1)]]
    PROVE  c \in Clients /\ DOMAIN c = {}
<1>1. c \in [{} -> [boardId : BoardIds, board : Objects]]
  OBVIOUS
<1>2. QED
  BY <1>1 DEF Clients

LEMMA InitEstablishes == Init => IInv
<1>. SUFFICES ASSUME Init PROVE IInv
  OBVIOUS
<1>. USE DEF Init
<1>1. TypeOK
  <2>1. moves \in [Objects -> SUBSET Moves]
    BY DEF Untouched
  <2>2. job \in [Workers -> Jobs]
    BY IdleIsAJob
  <2>3. clients \in Clients
    BY NoClients
  <2>4. boardsCount \in BoardIds
    BY ObjectsExist
  <2>5. nextClientId \in 1..(MaxClients + 1) /\ run \in 1..MaxRuns /\ key \in 1..MaxRuns
    BY SessionsAssumption
  <2>6. tokens \subseteq Tokens /\ refused \in BOOLEAN
    OBVIOUS
  <2>7. QED
    BY <2>1, <2>2, <2>3, <2>4, <2>5, <2>6 DEF TypeOK
<1>2. \A w \in Workers : job[w].pc = "idle"
  BY DEF Idle
<1>3. DOMAIN clients = {}
  BY NoClients
<1>4. TemplatesStayUntouched
  BY ObjectsExist DEF TemplatesStayUntouched, Untouched
<1>5. QED
  BY <1>1, <1>2, <1>3, <1>4
     DEF IInv, ClientsAreDrawn, DrawnIdsAreNew, Drawing, JobsKnow, TokensAreIssued, ClientsCanBeCreated

-----------------------------------------------------------------------------
(* One lemma per action, the locks and atomic operations of the code.      *)

LEMMA JobFields ==
    ASSUME NEW j \in Jobs
    PROVE  /\ j.pc \in Labels /\ j.boardId \in 0..MaxBoards /\ j.client \in 0..MaxClients
           /\ j.board \in Objects /\ j.token \in Tokens
BY DEF Jobs

(* A worker that goes on: to a label, with an id or a board it has found.   *)
LEMMA JobGoesOn ==
    ASSUME NEW w \in Workers, job \in [Workers -> Jobs],
           NEW label \in Labels, NEW i \in 0..MaxClients, NEW o \in Objects,
           GoOn(w, label, i, o)
    PROVE  /\ job' \in [Workers -> Jobs]
           /\ job'[w].pc = label /\ job'[w].client = i /\ job'[w].board = o
           /\ job'[w].boardId = job[w].boardId /\ job'[w].token = job[w].token
           /\ \A v \in Workers : v # w => job'[v] = job[v]
<1>. DEFINE k == [job[w] EXCEPT !.pc = label, !.client = i, !.board = o]
<1>1. job[w] \in Jobs
  OBVIOUS
<1>2. k \in Jobs
  BY <1>1 DEF Jobs
<1>3. k.pc = label /\ k.client = i /\ k.board = o /\ k.boardId = job[w].boardId /\ k.token = job[w].token
  BY <1>1 DEF Jobs
<1>4. job' = [job EXCEPT ![w] = k]
  BY DEF GoOn
<1>. HIDE DEF k
<1>5. QED
  BY <1>2, <1>3, <1>4

(* A worker that is done.                                                  *)
LEMMA JobIsDone ==
    ASSUME NEW w \in Workers, job \in [Workers -> Jobs], Done(w)
    PROVE  /\ job' \in [Workers -> Jobs]
           /\ job'[w].pc = "idle"
           /\ \A v \in Workers : v # w => job'[v] = job[v]
<1>1. Idle.pc = "idle"
  BY DEF Idle
<1>2. QED
  BY <1>1, IdleIsAJob DEF Done

LEMMA JobStarts ==
    ASSUME NEW b \in 0..MaxBoards, NEW label \in Labels, NEW t \in Tokens
    PROVE  /\ [Idle EXCEPT !.pc = label, !.boardId = b] \in Jobs
           /\ [Idle EXCEPT !.pc = label, !.token = t] \in Jobs
BY IdleIsAJob DEF Jobs

LEMMA AddBoardPreserves == IInv /\ AddBoard => IInv'
<1>. SUFFICES ASSUME IInv, AddBoard PROVE IInv'
  OBVIOUS
<1>. USE DEF IInv, AddBoard
<1>1. TypeOK'
  BY SessionsAssumption DEF TypeOK, BoardIds
<1>2. JobsKnow'
  BY SessionsAssumption DEF TypeOK, JobsKnow, BoardIds
<1>3. QED
  BY <1>1, <1>2 DEF ClientsAreDrawn, DrawnIdsAreNew, Drawing, TokensAreIssued,
     TemplatesStayUntouched, ClientsCanBeCreated

LEMMA SessionNewPreserves ==
    ASSUME IInv, NEW w \in Workers, NEW b \in 0..(MaxBoards + 1), SessionNew(w, b)
    PROVE  IInv'
<1>. USE DEF IInv, SessionNew
<1>1. CASE UNCHANGED job
  BY <1>1 DEF TypeOK, ClientsAreDrawn, DrawnIdsAreNew, Drawing, JobsKnow, TokensAreIssued,
     TemplatesStayUntouched, ClientsCanBeCreated
<1>2. CASE InRange(b) /\ job' = [job EXCEPT ![w] = [Idle EXCEPT !.pc = "add_new_client", !.boardId = b]]
  <2>1. b \in 1..boardsCount
    BY <1>2 DEF InRange, TypeOK, BoardIds
  <2>2. TypeOK'
    <3>1. b \in 0..MaxBoards /\ "add_new_client" \in Labels /\ NoToken \in Tokens
      BY <2>1, IdleIsAJob, SessionsAssumption DEF TypeOK, BoardIds, Labels
    <3>2. [Idle EXCEPT !.pc = "add_new_client", !.boardId = b] \in Jobs
      BY <3>1, JobStarts
    <3>3. QED
      BY <1>2, <3>2 DEF TypeOK
  <2>3. \A v \in Workers : v # w => job'[v] = job[v]
    BY <1>2 DEF TypeOK
  <2>4. job'[w].pc = "add_new_client" /\ job'[w].boardId = b
    BY <1>2 DEF TypeOK, Idle
  <2>5. DrawnIdsAreNew'
    BY <2>3, <2>4 DEF DrawnIdsAreNew, Drawing
  <2>6. JobsKnow'
    BY <2>1, <2>3, <2>4 DEF JobsKnow
  <2>7. QED
    BY <2>2, <2>5, <2>6 DEF ClientsAreDrawn, TokensAreIssued, TemplatesStayUntouched, ClientsCanBeCreated
<1>3. QED
  BY <1>1, <1>2

LEMMA FetchIdPreserves ==
    ASSUME IInv, NEW w \in Workers, FetchId(w)
    PROVE  IInv'
<1>. USE DEF IInv, FetchId
<1>1. /\ nextClientId \in 1..MaxClients
      /\ nextClientId' = nextClientId + 1
      /\ nextClientId \in Nat
  BY SessionsAssumption DEF TypeOK
<1>2. job[w] \in Jobs /\ job \in [Workers -> Jobs] /\ nextClientId \in 0..MaxClients /\ "board" \in Labels
  BY <1>1 DEF TypeOK, Labels
<1>3. GoOn(w, "board", nextClientId, job[w].board)
  OBVIOUS
<1>4. /\ job' \in [Workers -> Jobs]
      /\ job'[w].pc = "board" /\ job'[w].client = nextClientId /\ job'[w].boardId = job[w].boardId
      /\ \A v \in Workers : v # w => job'[v] = job[v]
  <2>1. job[w].board \in Objects
    BY <1>2, JobFields
  <2>. HIDE DEF IInv, FetchId
  <2>2. QED
    BY <1>2, <1>3, <2>1, JobGoesOn
<1>5. TypeOK'
  BY <1>1, <1>4, SessionsAssumption DEF TypeOK
<1>6. DOMAIN clients \subseteq ClientIds
  BY DEF TypeOK, Clients
<1>7. ClientsAreDrawn'
  BY <1>1, <1>6 DEF ClientsAreDrawn, ClientIds
<1>8. DrawnIdsAreNew'
  <2>1. nextClientId \notin DOMAIN clients
    BY <1>1 DEF ClientsAreDrawn
  <2>2. \A v \in Workers : Drawing(v) => job[v].client \in 1..(nextClientId - 1) /\ job[v].client # nextClientId
    BY <1>1 DEF DrawnIdsAreNew
  <2>3. QED
    BY <1>1, <1>4, <2>1, <2>2 DEF DrawnIdsAreNew, Drawing
<1>9. JobsKnow'
  BY <1>4 DEF JobsKnow
<1>10. QED
  BY <1>5, <1>7, <1>8, <1>9 DEF TokensAreIssued, TemplatesStayUntouched, ClientsCanBeCreated

LEMMA FindTemplatePreserves ==
    ASSUME IInv, NEW w \in Workers, FindTemplate(w)
    PROVE  IInv'
<1>. USE DEF IInv, FindTemplate
<1>1. job[w].boardId \in 1..boardsCount /\ job[w].boardId \in BoardIds
  BY SessionsAssumption DEF JobsKnow, TypeOK, BoardIds
<1>2. GoOn(w, "clients.add", job[w].client, Template(job[w].boardId)) /\ refused' = refused
  BY <1>1 DEF TypeOK
<1>3. job[w] \in Jobs /\ job \in [Workers -> Jobs] /\ "clients.add" \in Labels
  BY DEF TypeOK, Labels
<1>5. /\ job' \in [Workers -> Jobs]
      /\ job'[w].pc = "clients.add" /\ job'[w].client = job[w].client
      /\ job'[w].boardId = job[w].boardId /\ job'[w].board = Template(job[w].boardId)
      /\ \A v \in Workers : v # w => job'[v] = job[v]
  <2>1. job[w].client \in 0..MaxClients /\ Template(job[w].boardId) \in Objects
    BY <1>1, <1>3, JobFields, ObjectsExist
  <2>. HIDE DEF IInv, FindTemplate
  <2>2. QED
    BY <1>2, <1>3, <2>1, JobGoesOn
<1>9. TypeOK'
  BY <1>2, <1>5 DEF TypeOK
<1>6. DrawnIdsAreNew'
  BY <1>5 DEF DrawnIdsAreNew, Drawing
<1>7. JobsKnow'
  BY <1>1, <1>5 DEF JobsKnow
<1>8. QED
  BY <1>2, <1>9, <1>6, <1>7 DEF ClientsAreDrawn, TokensAreIssued, TemplatesStayUntouched, ClientsCanBeCreated

LEMMA AddClientPreserves ==
    ASSUME IInv, NEW w \in Workers, AddClient(w)
    PROVE  IInv'
<1>. USE DEF IInv, AddClient
<1>. DEFINE i == job[w].client
            b == job[w].boardId
<1>1. /\ i \notin DOMAIN clients /\ i \in 1..(nextClientId - 1) /\ i \in ClientIds
      /\ b \in BoardIds /\ Copy(i) \in Objects
  BY ObjectsExist, SessionsAssumption DEF DrawnIdsAreNew, Drawing, JobsKnow, TypeOK, BoardIds, ClientIds
<1>2. /\ clients' = Register(i, [boardId |-> b, board |-> Copy(i)])
      /\ moves' = [moves EXCEPT ![Copy(i)] = moves[job[w].board]]
      /\ GoOn(w, "sign", i, Copy(i))
      /\ refused' = refused
  BY <1>1 DEF TypeOK
<1>3. /\ DOMAIN clients' = DOMAIN clients \cup {i}
      /\ clients'[i].board = Copy(i)
      /\ \A n \in DOMAIN clients : clients'[n] = clients[n]
  BY <1>1, <1>2 DEF Register
<1>4. clients' \in Clients
  <2>1. clients \in [DOMAIN clients -> [boardId : BoardIds, board : Objects]] /\ DOMAIN clients \subseteq ClientIds
    BY DEF TypeOK, Clients
  <2>2. clients' \in [DOMAIN clients \cup {i} -> [boardId : BoardIds, board : Objects]]
    BY <1>1, <1>2, <2>1 DEF Register
  <2>3. QED
    BY <1>1, <2>1, <2>2 DEF Clients
<1>5. job[w] \in Jobs /\ job \in [Workers -> Jobs] /\ "sign" \in Labels
  BY DEF TypeOK, Labels
<1>7. /\ job' \in [Workers -> Jobs]
      /\ job'[w].pc = "sign" /\ job'[w].client = i /\ job'[w].board = Copy(i)
      /\ \A v \in Workers : v # w => job'[v] = job[v]
  <2>1. i \in 0..MaxClients /\ Copy(i) \in Objects
    BY <1>1, <1>5, JobFields
  <2>. HIDE DEF IInv, AddClient, i
  <2>2. QED
    BY <1>2, <1>5, <2>1, JobGoesOn
<1>14. TypeOK'
  <2>1. moves' \in [Objects -> SUBSET Moves]
    BY <1>2, <1>1, <1>5, JobFields DEF TypeOK
  <2>2. QED
    BY <1>2, <1>4, <1>7, <2>1 DEF TypeOK
<1>8. ClientsAreDrawn'
  BY <1>1, <1>3 DEF ClientsAreDrawn, TypeOK
<1>9. DrawnIdsAreNew'
  BY <1>1, <1>3, <1>7 DEF DrawnIdsAreNew, Drawing
<1>10. JobsKnow'
  BY <1>3, <1>7 DEF JobsKnow
<1>11. TokensAreIssued'
  BY <1>3 DEF TokensAreIssued
<1>12. TemplatesStayUntouched'
  <2>1. \A n \in BoardIds : Template(n) # Copy(i) /\ Template(n) \in Objects
    BY ObjectsExist, CopyIsNoTemplate
  <2>2. QED
    BY <1>2, <2>1 DEF TemplatesStayUntouched, TypeOK
<1>13. QED
  BY <1>2, <1>14, <1>8, <1>9, <1>10, <1>11, <1>12 DEF ClientsCanBeCreated

LEMMA SignTokenPreserves ==
    ASSUME IInv, NEW w \in Workers, SignToken(w)
    PROVE  IInv'
<1>. USE DEF IInv, SignToken
<1>. DEFINE t == TokenFor(job[w].client, job[w].board)
<1>1. t \in Tokens
  BY JobFields, SessionsAssumption DEF TypeOK, TokenFor, Tokens
<1>2. job \in [Workers -> Jobs]
  BY DEF TypeOK
<1>3. /\ job' \in [Workers -> Jobs] /\ job'[w].pc = "idle"
      /\ \A v \in Workers : v # w => job'[v] = job[v]
  BY <1>2, JobIsDone
<1>4. TypeOK'
  BY <1>1, <1>3 DEF TypeOK
<1>5. DrawnIdsAreNew'
  BY <1>3 DEF DrawnIdsAreNew, Drawing
<1>6. JobsKnow'
  BY <1>3 DEF JobsKnow
<1>7. TokensAreIssued'
  <2>1. t.run = run /\ t.client \in DOMAIN clients /\ t.board = Copy(t.client) /\ run <= run
    BY DEF JobsKnow, TokenFor, TypeOK
  <2>2. QED
    BY <2>1 DEF TokensAreIssued
<1>8. QED
  BY <1>4, <1>5, <1>6, <1>7 DEF ClientsAreDrawn, TemplatesStayUntouched, ClientsCanBeCreated

LEMMA BoardRequestPreserves ==
    ASSUME IInv, NEW w \in Workers, NEW t \in tokens, BoardRequest(w, t)
    PROVE  IInv'
<1>. USE DEF IInv, BoardRequest
<1>1. CASE UNCHANGED job
  BY <1>1 DEF TypeOK, ClientsAreDrawn, DrawnIdsAreNew, Drawing, JobsKnow, TokensAreIssued,
     TemplatesStayUntouched, ClientsCanBeCreated
<1>2. CASE job' = [job EXCEPT ![w] = [Idle EXCEPT !.pc = "clients.find", !.token = t]]
  <2>1. TypeOK'
    BY <1>2, IdleIsAJob DEF TypeOK, Jobs, Labels, Idle
  <2>2. \A v \in Workers : v # w => job'[v] = job[v]
    BY <1>2 DEF TypeOK
  <2>3. job'[w].pc = "clients.find"
    BY <1>2 DEF TypeOK, Idle
  <2>4. QED
    BY <2>1, <2>2, <2>3 DEF ClientsAreDrawn, DrawnIdsAreNew, Drawing, JobsKnow, TokensAreIssued,
       TemplatesStayUntouched, ClientsCanBeCreated
<1>3. QED
  BY <1>1, <1>2

LEMMA FindClientPreserves ==
    ASSUME IInv, NEW w \in Workers, FindClient(w)
    PROVE  IInv'
<1>. USE DEF IInv, FindClient
<1>. DEFINE i == job[w].token.client
<1>0. job \in [Workers -> Jobs] /\ job[w] \in Jobs
  BY DEF TypeOK
<1>1. CASE i \in DOMAIN clients /\ GoOn(w, "handle", job[w].client, clients[i].board)
  <2>1. clients[i].board = Copy(i) /\ clients[i].board \in Objects
    BY <1>1 DEF ClientsAreDrawn, TypeOK, Clients
  <2>2. "handle" \in Labels /\ job[w].client \in 0..MaxClients
    BY <1>0, JobFields DEF Labels
  <2>3. /\ job' \in [Workers -> Jobs]
        /\ job'[w].pc = "handle" /\ job'[w].board = Copy(i) /\ job'[w].token = job[w].token
        /\ \A v \in Workers : v # w => job'[v] = job[v]
    BY <1>0, <1>1, <2>1, <2>2, JobGoesOn
  <2>4. QED
    BY <2>3 DEF TypeOK, ClientsAreDrawn, DrawnIdsAreNew, Drawing, JobsKnow, TokensAreIssued,
       TemplatesStayUntouched, ClientsCanBeCreated
<1>2. CASE Done(w)
  <2>1. /\ job' \in [Workers -> Jobs] /\ job'[w].pc = "idle"
        /\ \A v \in Workers : v # w => job'[v] = job[v]
    BY <1>0, <1>2, JobIsDone
  <2>2. QED
    BY <2>1 DEF TypeOK, ClientsAreDrawn, DrawnIdsAreNew, Drawing, JobsKnow, TokensAreIssued,
       TemplatesStayUntouched, ClientsCanBeCreated
<1>3. QED
  BY <1>1, <1>2

LEMMA HandlePreserves ==
    ASSUME IInv, NEW w \in Workers, Handle(w)
    PROVE  IInv'
<1>. USE DEF IInv, Handle
<1>1. PICK made \in SUBSET Moves : moves' = [moves EXCEPT ![job[w].board] = @ \cup made]
  OBVIOUS
<1>2. job[w].board = Copy(job[w].token.client)
  BY DEF JobsKnow
<1>3. job \in [Workers -> Jobs] /\ moves' \in [Objects -> SUBSET Moves]
  BY <1>1 DEF TypeOK
<1>4. /\ job' \in [Workers -> Jobs] /\ job'[w].pc = "idle"
      /\ \A v \in Workers : v # w => job'[v] = job[v]
  BY <1>3, JobIsDone
<1>5. TypeOK'
  BY <1>3, <1>4 DEF TypeOK
<1>6. TemplatesStayUntouched'
  <2>1. \A n \in BoardIds : Template(n) # job[w].board /\ Template(n) \in Objects
    BY <1>2, ObjectsExist, CopyIsNoTemplate
  <2>2. QED
    BY <1>1, <2>1 DEF TemplatesStayUntouched, TypeOK
<1>7. QED
  BY <1>4, <1>5, <1>6 DEF ClientsAreDrawn, DrawnIdsAreNew, Drawing, JobsKnow, TokensAreIssued,
     ClientsCanBeCreated

LEMMA RestartPreserves ==
    ASSUME IInv, NEW fate \in KeyFates, Restart(fate)
    PROVE  IInv'
<1>. USE DEF IInv, Restart
<1>1. run' \in 1..MaxRuns /\ key' \in 1..MaxRuns /\ \A t \in tokens : t.run < run'
  BY SessionsAssumption DEF TypeOK, TokensAreIssued, Tokens
<1>2. clients' \in Clients /\ DOMAIN clients' = {}
  BY NoClients
<1>3. moves' \in [Objects -> SUBSET Moves] /\ TemplatesStayUntouched'
  BY ObjectsExist DEF Untouched, TemplatesStayUntouched
<1>4. job' \in [Workers -> Jobs] /\ \A w \in Workers : job'[w].pc = "idle"
  BY IdleIsAJob DEF Idle
<1>5. TypeOK'
  <2>1. boardsCount' \in BoardIds /\ nextClientId' \in 1..(MaxClients + 1)
    BY ObjectsExist, SessionsAssumption
  <2>2. QED
    BY <1>1, <1>2, <1>3, <1>4, <2>1 DEF TypeOK
<1>6. TokensAreIssued'
  BY <1>1 DEF TokensAreIssued, TypeOK, Tokens
<1>7. QED
  BY <1>2, <1>3, <1>4, <1>5, <1>6
     DEF ClientsAreDrawn, DrawnIdsAreNew, Drawing, JobsKnow, ClientsCanBeCreated

LEMMA NextPreserves == IInv /\ [Next]_vars => IInv'
<1>. SUFFICES ASSUME IInv, [Next]_vars PROVE IInv'
  OBVIOUS
<1>1. ASSUME NEW w \in Workers, Work(w)
      PROVE  IInv'
  BY <1>1, SessionNewPreserves, FetchIdPreserves, FindTemplatePreserves, AddClientPreserves,
     SignTokenPreserves, BoardRequestPreserves, FindClientPreserves, HandlePreserves DEF Work
<1>2. CASE AddBoard
  BY <1>2, AddBoardPreserves
<1>3. ASSUME NEW fate \in KeyFates, Restart(fate)
      PROVE  IInv'
  BY <1>3, RestartPreserves
<1>4. CASE UNCHANGED vars
  BY <1>4 DEF IInv, vars, TypeOK, ClientsAreDrawn, DrawnIdsAreNew, Drawing, JobsKnow, TokensAreIssued,
     TemplatesStayUntouched, ClientsCanBeCreated
<1>5. QED
  BY <1>1, <1>2, <1>3, <1>4 DEF Next

LEMMA Invariance == Spec => []IInv
BY InitEstablishes, NextPreserves, PTL DEF Spec

-----------------------------------------------------------------------------
(* Every map, job and token holds ids and objects that exist.               *)
THEOREM TypeCorrect == Spec => []TypeOK
<1>1. IInv => TypeOK
  BY DEF IInv
<1>2. QED
  BY Invariance, <1>1, PTL

(* session/new never fails to create its client: fetch_add draws a new id   *)
(* for every worker, and templates are never taken away.                   *)
THEOREM SessionsAreCreated == Spec => []ClientsCanBeCreated
<1>1. IInv => ClientsCanBeCreated
  BY DEF IInv
<1>2. QED
  BY Invariance, <1>1, PTL

(* Every client has a board of its own, which is no template.               *)
THEOREM CopiesAreTheClientsOwn == Spec => []CopiesAreIndependent
<1>1. IInv => CopiesAreIndependent
  BY DEF IInv, ClientsAreDrawn, CopiesAreIndependent, Copy, Template
<1>2. QED
  BY Invariance, <1>1, PTL

(* No request leaves a move on a template.                                 *)
THEOREM TemplatesAreNeverPlayed == Spec => []TemplatesStayUntouched
<1>1. IInv => TemplatesStayUntouched
  BY DEF IInv
<1>2. QED
  BY Invariance, <1>1, PTL

(* A token of this run leads to the board that was cloned for it.           *)
THEOREM TokensLeadHome == Spec => []TokensReachTheirBoard
<1>1. IInv => TokensReachTheirBoard
  BY DEF IInv, ClientsAreDrawn, TokensAreIssued, TokensReachTheirBoard
<1>2. QED
  BY Invariance, <1>1, PTL

-----------------------------------------------------------------------------
(* Whatever becomes of the keys on a restart.                              *)
LEMMA KeysPreserved ==
    ASSUME IInv, KeysAreNoYounger, [Next]_vars
    PROVE  KeysAreNoYounger'
<1>0. job \in [Workers -> Jobs] /\ \A v \in Workers : job[v] \in Jobs
  BY DEF IInv, TypeOK
<1>1. ASSUME NEW w \in Workers, UNCHANGED <<run, key>>, tokens \subseteq tokens', \A t \in tokens' \ tokens : t.key <= t.run,
             \A v \in Workers : v # w => job'[v] = job[v],
             job'[w].pc \notin {"clients.find", "handle"} \/ (job'[w].token \in tokens /\ job'[w].token.key = key)
      PROVE  KeysAreNoYounger'
  BY <1>1 DEF KeysAreNoYounger
<1>2. ASSUME NEW w \in Workers, UNCHANGED <<run, key>>, tokens' = tokens, NEW label \in Labels \ {"clients.find", "handle"},
             NEW i \in 0..MaxClients, NEW o \in Objects, GoOn(w, label, i, o)
      PROVE  KeysAreNoYounger'
  <2>1. job'[w].pc = label /\ \A v \in Workers : v # w => job'[v] = job[v]
    BY <1>0, <1>2, JobGoesOn
  <2>2. QED
    BY <1>1, <1>2, <2>1
<1>3. ASSUME NEW w \in Workers, UNCHANGED <<run, key>>, tokens' = tokens, Done(w)
      PROVE  KeysAreNoYounger'
  <2>1. job'[w].pc = "idle" /\ \A v \in Workers : v # w => job'[v] = job[v]
    BY <1>0, <1>3, JobIsDone
  <2>2. QED
    BY <1>1, <1>3, <2>1
<1>4. ASSUME NEW w \in Workers, NEW b, SessionNew(w, b)
      PROVE  KeysAreNoYounger'
  <2>1. CASE UNCHANGED job
    BY <1>4, <2>1 DEF SessionNew, KeysAreNoYounger
  <2>2. CASE job' = [job EXCEPT ![w] = [Idle EXCEPT !.pc = "add_new_client", !.boardId = b]]
    <3>1. job'[w].pc = "add_new_client" /\ \A v \in Workers : v # w => job'[v] = job[v]
      BY <1>0, <2>2 DEF Idle
    <3>2. QED
      BY <1>1, <1>4, <3>1 DEF SessionNew
  <2>3. QED
    BY <1>4, <2>1, <2>2 DEF SessionNew
<1>5. ASSUME NEW w \in Workers, FetchId(w)
      PROVE  KeysAreNoYounger'
  <2>1. nextClientId \in 0..MaxClients /\ job[w].board \in Objects /\ "board" \in Labels \ {"clients.find", "handle"}
    BY <1>0, <1>5, JobFields, SessionsAssumption DEF FetchId, IInv, TypeOK, Labels
  <2>2. QED
    BY <1>2, <1>5, <2>1 DEF FetchId
<1>6. ASSUME NEW w \in Workers, FindTemplate(w)
      PROVE  KeysAreNoYounger'
  <2>1. CASE Done(w)
    BY <1>3, <1>6, <2>1 DEF FindTemplate
  <2>2. CASE job[w].boardId \in 1..boardsCount /\ GoOn(w, "clients.add", job[w].client, Template(job[w].boardId))
    <3>1. /\ job[w].client \in 0..MaxClients /\ Template(job[w].boardId) \in Objects
          /\ "clients.add" \in Labels \ {"clients.find", "handle"}
      BY <1>0, <2>2, JobFields, ObjectsExist, SessionsAssumption DEF IInv, TypeOK, Labels, BoardIds
    <3>2. QED
      BY <1>2, <1>6, <2>2, <3>1 DEF FindTemplate
  <2>3. QED
    BY <1>6, <2>1, <2>2 DEF FindTemplate
<1>7. ASSUME NEW w \in Workers, AddClient(w)
      PROVE  KeysAreNoYounger'
  <2>1. CASE Done(w)
    BY <1>3, <1>7, <2>1 DEF AddClient
  <2>2. CASE GoOn(w, "sign", job[w].client, Copy(job[w].client))
    <3>1. job[w].client \in ClientIds /\ job[w].client \in 0..MaxClients
      BY <1>7, SessionsAssumption DEF AddClient, IInv, DrawnIdsAreNew, Drawing, TypeOK, ClientIds
    <3>2. Copy(job[w].client) \in Objects /\ "sign" \in Labels \ {"clients.find", "handle"}
      BY <3>1, ObjectsExist DEF Labels
    <3>3. QED
      BY <1>2, <1>7, <2>2, <3>1, <3>2 DEF AddClient
  <2>3. QED
    BY <1>7, <2>1, <2>2 DEF AddClient
<1>8. ASSUME NEW w \in Workers, SignToken(w)
      PROVE  KeysAreNoYounger'
  <2>1. job'[w].pc = "idle" /\ \A v \in Workers : v # w => job'[v] = job[v]
    BY <1>0, <1>8, JobIsDone DEF SignToken
  <2>2. \A t \in tokens' \ tokens : t.key <= t.run
    BY <1>8 DEF SignToken, TokenFor, KeysAreNoYounger
  <2>3. QED
    BY <1>1, <1>8, <2>1, <2>2 DEF SignToken
<1>9. ASSUME NEW w \in Workers, NEW t \in tokens, BoardRequest(w, t)
      PROVE  KeysAreNoYounger'
  <2>1. CASE UNCHANGED job
    BY <1>9, <2>1 DEF BoardRequest, KeysAreNoYounger
  <2>2. CASE Verified(t) /\ job' = [job EXCEPT ![w] = [Idle EXCEPT !.pc = "clients.find", !.token = t]]
    <3>1. job'[w].token = t /\ \A v \in Workers : v # w => job'[v] = job[v]
      BY <1>0, <2>2 DEF Idle
    <3>2. QED
      BY <1>1, <1>9, <2>2, <3>1 DEF BoardRequest, Verified
  <2>3. QED
    BY <1>9, <2>1, <2>2 DEF BoardRequest
<1>10. ASSUME NEW w \in Workers, FindClient(w)
       PROVE  KeysAreNoYounger'
  <2>1. CASE Done(w)
    BY <1>3, <1>10, <2>1 DEF FindClient
  <2>2. CASE /\ job[w].token.client \in DOMAIN clients
             /\ GoOn(w, "handle", job[w].client, clients[job[w].token.client].board)
    <3>1. /\ clients[job[w].token.client].board \in Objects
          /\ job[w].client \in 0..MaxClients /\ "handle" \in Labels
      BY <1>0, <2>2, JobFields DEF IInv, TypeOK, Clients, Labels
    <3>2. job'[w].token = job[w].token /\ \A v \in Workers : v # w => job'[v] = job[v]
      BY <1>0, <2>2, <3>1, JobGoesOn
    <3>3. job[w].token \in tokens /\ job[w].token.key = key
      BY <1>10 DEF FindClient, KeysAreNoYounger
    <3>4. QED
      BY <1>1, <1>10, <3>2, <3>3 DEF FindClient
  <2>3. QED
    BY <1>10, <2>1, <2>2 DEF FindClient
<1>11. ASSUME NEW w \in Workers, Handle(w)
       PROVE  KeysAreNoYounger'
  BY <1>3, <1>11 DEF Handle
<1>12. ASSUME NEW fate \in KeyFates, Restart(fate)
       PROVE  KeysAreNoYounger'
  <2>1. key' <= run' /\ tokens' = tokens
    BY <1>12 DEF Restart, IInv, TypeOK, KeysAreNoYounger
  <2>2. \A w \in Workers : job'[w].pc = "idle"
    BY <1>12 DEF Restart, Idle
  <2>3. QED
    BY <2>1, <2>2 DEF KeysAreNoYounger
<1>13. CASE AddBoard \/ UNCHANGED vars
  BY <1>13 DEF AddBoard, vars, KeysAreNoYounger
<1>14. QED
  BY <1>4, <1>5, <1>6, <1>7, <1>8, <1>9, <1>10, <1>11, <1>12, <1>13 DEF Next, Work

(* A board handler is called with the board of its caller's session, or the *)
(* token is of an earlier run whose keys every restart since has kept.      *)
THEOREM OldTokensNeedKeptKeys == Spec => []OnlyKeptKeysLetOldTokensIn
<1>1. Init => KeysAreNoYounger
  BY DEF Init, KeysAreNoYounger, Idle
<1>2. IInv /\ KeysAreNoYounger /\ [Next]_vars => KeysAreNoYounger'
  BY KeysPreserved
<1>3. IInv /\ KeysAreNoYounger => OnlyKeptKeysLetOldTokensIn
  BY DEF IInv, JobsKnow, TokensAreIssued, KeysAreNoYounger, OnlyKeptKeysLetOldTokensIn
<1>4. QED
  BY Invariance, <1>1, <1>2, <1>3, PTL DEF Spec
=============================================================================
