# Minesweeper server: specifications, model checks and proofs

TLA+ specifications of the minesweeper server in `src/src/server` and of its
terminal client in `src/src/client`, with TLC configurations that check them on small instances and TLAPS proofs of the
theorems that hold for boards and servers of any size.  Paths below are
relative to the repository's root (`src/server/api.cxx` is the file
`src/src/server/api.cxx` of the checkout beside this directory).

Contents: [inventory](#1-inventory) | [modules](#2-modules-and-how-they-correspond-to-the-code) |
[runs](#3-runs-what-tlc-checks) | [fairness](#4-fairness) |
[proofs](#5-proofs) | [disagreements with the documentation](#6-where-the-code-and-its-documentation-disagree) |
[limits](#7-what-is-only-model-checked-and-what-is-not-modelled) | [plan](#8-plan)

## 1. Inventory

The program is an HTTP(S) service (restbed, four worker threads) on which
anonymous clients play minesweeper.  `session/new` copies one of a dozen board
templates for a new client and answers with a signed token (JWT, RS256); every
later request carries the token and works on that client's copy.  Two of the
endpoints are plugins (`.so` files).

| component | code | state | operations |
| --- | --- | --- | --- |
| Board | `server/api.cxx` `board_t`, `cell_ext_t`; `server/plugins/api.hxx` `board_i`, `cell_i` | three bits per cell: `boom_`, `flag_`, `revealed_`; a count per cell, fixed | `clone`, `neighbors`, the counts, `toggle_flag`, `reveal`, `reveal_cells` (flood fill) |
| Game handlers | `server/handlers.cxx`, `server/plugins/cell_check.cxx` | none of their own | `cell/reveal`, `cell/flag`, `cell/check` (the chord), `board/check`, `board/fully_revealed`, and `board/size`, `board/bombs` |
| Sessions, tokens, clients | `server/handlers.cxx` `session_new_handler`; `server/api.cxx` `clients_t`, `add_new_client`, `board_for_client`; `server/api_impl.hxx`; `server/http_auth.cxx` | `boards_` (mutex), `clients_` (mutex), `next_client_id_` (atomic), the key pair | create a client, sign and verify a token, find a client's board, `add_board` |
| Dispatch | `server/api.cxx` `plugin_api_t::dispatch`, `install_entrypoints`, the parameter parsers | the table of resources | authorize, find the board, parse parameters, call the handler, unwrap its result, serialize |
| Byte stream and envelopes | `server/plugins/api.hxx` `parameter_bytestream_t`, `*_wire` | a buffer and an offset | `store`, `load`, growing |
| Plugin life cycle | `server/server.cxx` `plugin_handle_t`, `load_plugins`, `unload_plugins`, `shutdown_guard_t` | `plugins`, the signal connections into plugins | open, compare ABI tags, init, serve, unload, close |
| Keys and certificates | `server/rsa.cxx`, `http_api_t::load_rsa_keys` | four files | create if missing, read |
| `boards_list` plugin | `server/plugins/boards_list.cxx` | none | read every template under the boards mutex |
| Terminal client | `client/*.cxx` | its picture of the board, its token | send a request, apply the answer to the picture |
| Envelope library | `libs/envelope` | none | seal and open a message; the server does not link it |
| Solver, generator, common | `solver/`, `generator/`, `common/` | local | stand-alone stubs |

How they interact.  restbed calls `dispatch` on any of four threads.
`dispatch` verifies the token (`authorize_client`), takes the client's
`board_t` from `clients_` under the map's mutex, **releases the mutex**, and
calls the handler, which works on the shared `board_t` with no lock at all.
Handlers of plugins reach the same board through `board_i`; parameters and
results cross the plugin boundary as byte streams.  `session/new` takes the
boards mutex twice, the atomic counter once and the clients mutex once, each
for itself.

What is hard, and therefore what the properties are about:

* **Game logic over long sequences of requests.**  The end of a game is decided
  by comparing counts, not sets; the chord opens neighbours without asking for
  mines; the flood fill stops at flags that may move between requests.
* **Two requests of one client at a time.**  No lock on the board: every check
  (`is_flag`, `is_revealed`, `bombs_count`) may be stale when its answer is
  used, and two flood fills may run into each other.
* **Sessions under concurrency and restarts.**  Ids, templates, clients and
  tokens must fit together whatever the interleaving; memory is lost on a
  restart and the key files are not.
* **Start, failure and stop**: plugins' code may be called only while it is
  mapped and the API is alive, on every way out of `main()`; key files are
  written one after another.

What makes each part correct: a *board* is never left with an open zero next to
a covered unflagged cell; the *game* is won on a solved board only, opens a mine
only by a chord among wrong flags, and tells the client every cell it opens;
*sessions* always can be created, never share a board, and a token reaches the
board that was copied for it; every request is *answered*; the *process* never
runs what it has taken down, and comes to its end when it is told to.

The file `PROJECT.json` beside this one lists the components with their status,
the hazards with the line at which each bites, the runs, the source lines of every
definition, and for every property a mutation of the model that TLC must
catch.

## 2. Modules and how they correspond to the code

| module | models | |
| --- | --- | --- |
| `Board` | `board_t`, `cell_ext_t` | operators, no state |
| `Game` | the handlers, a request at a time | state machine |
| `HandlerSteps` | the handlers, an access at a time, several workers | state machine, implements `Game` |
| `Client` | the terminal client, with requests that are given up | state machine, extends and refines `Game` |
| `Sessions` | ids, clients, templates, tokens, restarts | state machine |
| `PluginLifecycle` | `main()`, the plugins, the stop, `shutdown_guard_t` | state machine |
| `KeyStore` | the key pair, the certificate and the DH parameters as files | state machine |
| `Bytestream` | `parameter_bytestream_t` | operators, no state |
| `Dispatch` | registration, parsing, the two crossings of the plugin boundary, the errors of `dispatch()` | state machine on `Bytestream` |
| `MCGame`, `MCHandlerSteps`, `MCClient`, `MCSessions`, `MCPluginLifecycle`, `MCKeyStore`, `MCDispatch` | the instances that TLC runs | |
| `BoardProofs`, `GameProofs`, `HandlerStepsProofs`, `ClientProofs`, `SessionsProofs`, `PluginLifecycleProofs`, `KeyStoreProofs`, `DispatchProofs` | lemmas and theorems | |

Definitions named "Mutant" in a comment are the code with one plausible bug.
They are used by no specification; each shows that a property has teeth.

### Board

A board is a record of three sets of cells, `mines`, `flagged`, `revealed`, for
the three bits.  Cells are 1-based pairs as in the requests.  The width and the
height are constants (`Width`, `Height`): no operation of the server changes
them.  `NeighborBombsCount` is -1 for a mine, as `compute_neighbor_counts`
leaves it.

`reveal_cells` is defined without its loop: `Flooded(b, c)` is the least set of
zeros that holds `c` and, with a cell, the zeros around it that are neither
flagged nor revealed; `Opened(b, c)` adds their enterable neighbours.  This
form can be reasoned about; that the loop, queue and visited set of the code
compute it is checked by the refinement below.

### Game

Variables: `board`; `reply`, the answer to the last request (endpoint, outcome,
cells); and the history variable `boomed`.  One action per handler, one disjunct
per early return, in the order of the code's conditions:

| action | code |
| --- | --- |
| `CellReveal(x, y)` | `cell_reveal_handler`: out of range, flagged, mine ("boom", before `reveal_cells` is called, so that the mine's revealed bit stays clear), else `reveal_cells` |
| `CellFlag(x, y)` | `cell_flag_handler`: out of range, revealed, no bombs left and not flagged, else `toggle_flag` |
| `CellCheck(x, y)` | `cell_check_handler`: out of range, not revealed, a mine, flags differ from the number, else `reveal_cells` on each neighbour |
| `BoardCheck` | `board_check_handler`: refused while the counts differ, else "win" or "lose" |
| `BoardFullyRevealed` | `board_fully_revealed_handler` |

Inputs are every cell and four coordinates just out of range.  `board/size`, which
answers what never changes, and `board/bombs`, which answers the mines and how
many of them are left to flag, change nothing and are left out.

### HandlerSteps

The same handlers as worker threads that read or write one bit per step, in the
code's order, with their local variables in `job[w]`.  `toggle_flag` is a load
and a store.  The code's accesses are plain bools and two threads on them are a
data race; each access is modelled as one that happens in some order, which is
what a build makes of byte-sized loads and stores that it does not merge.  The
mine bits and the neighbour counts are constant after construction, so that
reading them is local.  `Take` is a request that arrives at an idle worker; the
client may send anything at any time.

`board/check` looks at the cells one after the other, and at up to three bits of
each: the mine, then its flag, and the revealed bit of a flagged mine only
(`BoardCheckIsFlag`, `BoardCheckIsRevealed`).

`KeepAnswer` and `KeepHistory` switch the variables that only some properties
need (`reply`; `told`, `everFlagged`) on and off, so that the state space of a
run holds only what its properties look at.

`ImplementsGame` is the refinement: with one worker, `HandlerSteps` implements
`G!Spec`, where `G` is `Game` with the board replaced by `Shown(w)`, which takes
back what the request in progress has done so far (the cells found, the flag
toggled).  All of a request then happens in the step that sends its answer.  TLC
checks it on a small board and `OneWorkerPlaysTheGame` proves it for all boards.

### Sessions

| variable | code |
| --- | --- |
| `boardsCount` | `plugin_api_t::boards_`, whose ids are 1..size |
| `nextClientId` | `next_client_id_` |
| `clients` | `clients_t::data_`: id to template and board |
| `moves` | what has been done to each board object in memory |
| `job` | each worker's program counter, `board_id`, client id, board pointer and token |
| `run`, `key` | which start of the process this is; the key pair in use, named after the run that made it |
| `tokens` | the tokens sent; with the history of the run and the board they were made for |
| `refused` | history: `add_new_client` has failed |

Actions, in the order a request meets them: `SessionNew` (range check against
`boards_count()`), `FetchId` (`fetch_add`), `FindTemplate` (`board()` under its
mutex), `AddClient` (`clone` and `emplace` under the clients mutex),
`SignToken`; and `BoardRequest` (verification), `FindClient`, `Handle`.
`AddBoard` is open to plugins at any time.  `Restart` may happen in any state,
in the middle of every request: memory is gone, the tokens in the hands of
clients are not, and the key files are kept or new (`KeyFates`).  A token that
has expired is the refusal that `BoardRequest` allows for every token.

### PluginLifecycle

`pc` is where `main()` is: option parsing, keys, the loop of `load_plugins`,
the certificate, the service, `install_entrypoints`, `start()`, and then the
destructor of `shutdown_guard_t` step by step.  Every early `return` goes to
that destructor; what throws past `main()` ends the process at once
(`"terminated"`).  `file[p]` says what kind of file a `.so` is, chosen freely at
the start: whether it opens, has the right ABI tag, exports `init_plugin`, exports
`unload_plugin`.  `table` is the map `plugins`, in which every file that was
tried keeps its place; `mapped`, `connected`, `resources`, `api`, `service` are
what exists.  The workers call handlers and return from them; a signal is taken
by an idle worker, which starts the stopping thread.

restbed is external: `stop()` makes the service take no further request, and
`start()` returns when every worker is done; making the service, publishing and
`start()` may throw what `main()` does not catch, which ends the process.  A plugin behaves as the two of
the repository do.  Unloading a plugin that was opened but never initialised is
undefined for these (a null pointer is followed), so the step may also end the
process.

### Client

`run_game()` on top of `Game`: `EXTENDS Game`, and each of its actions is a key,
an answer that is read and painted, or a request that is given up.  `pc` names
the request that is out; `cursor` names the cell it is for, since no key is read
while a request is out; `picture` is `ui::board_t`, `bombsLeft` and `bombsTotal`
the header, `popup` the window with the result.

The handler's step and the client's reading of its answer are one action
(`CellsAnswered`, `FlagAnswered`, ...): nobody else plays on this board, so that
nothing distinguishes the moments between.  Exactly one thing breaks this: a
request that `http_client_t::perform` has given up (no connection, the 30
seconds, a lost answer).  `GiveUp` puts it into `late`, from where the server
may take it at any later time or never (`LateArrives`).  An answer that was lost
is the case in which it takes it at once.  `lost` remembers for the properties
what was given up.

### KeyStore

`priv`, `pub`, `crt`, `dh` are the files: absent, empty, or the pair they hold a
half of (or were made for).  Empty stands for every file that is not whole.  `pc` is where the start of the server is; each step
opens (and so truncates) a file, fills one, or reads one.  The files of a pair
are opened private first and filled public first, since the two `bio_t` are
destroyed in reverse order at the end of `generate_rsa_private_key`; when the
public file does not open, the private one is closed on the way out (`ClosePriv`).  `Crash` may
happen before any step, `NotOpened` is the error exit of each step that opens a
file, `NotWritten` is the disk that is full when a file is closed, which the code
does not notice, `Delete` is an operator who removes a file while the server is down or
serves.  `faults`, `crashed`, `unopened`, `unwritten` and `deleted` remember what happened, so
that the properties can say which fault is to blame.  Whether an old token still
verifies after a start is decided by whether the pair was replaced: these are
the two `KeyFates` of `Sessions`.

### Bytestream and Dispatch

`Bytestream` is the codec as operators: `Serialize` and `Deserialize` of one
parameter, given the writer and the reader of what is inside it; the writer and
the reader of each level of lists and maps (`Writer[d]`, `Reader(buf)`), which
recur on the level where the code recurs on the value; `Store` and `Load` with
the header, the capacity and the check that nothing is left over.  All bytes are numbers of one set, so that a
value read from a wrong place is read as something else and not refused for its
kind.  The number of values of a byte (`Base`) and the bytes of the widest
integer (`Width`) are constants, and so are two bounds that the code does not
have: `Nesting`, how deep lists and maps are nested in each other, and `Names`, the
keys that maps have (a map is a function on all of them, with `None` where it has
no entry).  The reader is as deep as what is written and refuses what is deeper.

`Dispatch` follows a resource and its requests: `AddResource` (the registration
crosses the boundary as bytes and is dropped when it does not decode),
`TakeRequest`, `ParseParams` (400), `StoreParams` (`store_growing`, 500),
`Authorize` (401, 403), `CallHandler` (the adapter decodes the parameters and
calls the handler), `HandlerReturns`, `Reply` (the adapter encodes the result
into a buffer of fixed size) and `Unwrap` (500 for what does not decode).  All
its variables but `registered` and `resources` are locals of one call, so that
requests share nothing and one at a time is enough.  `Normal` says what
becomes of a parameter that crosses: an unsigned number above the largest
signed one comes out negative, everything else as it is.

## 3. Runs: what TLC checks

All bounds are constants of the `.cfg` files; no run replaces a definition.

| run | instance | checks |
| --- | --- | --- |
| `game` | 3x3, five mine layouts | everything one client can do to a game, in any order |
| `steps_refine_game` | 3x2, three layouts, one worker, all endpoints | `ImplementsGame` |
| `races` | 3x1 strips 0-0-0 and 0-1-mine, two workers, the three cell endpoints | what survives two requests at a time, and that every request is answered |
| `sessions` | two workers, two templates and a third added later, two ids per run, three runs, each restart keeps the keys or has new ones | ids, copies, tokens under every interleaving and restart |
| `client` | 3x1 strip 0-1-mine, two requests given up | what the client shows of the board, and that it comes back to the keyboard |
| `plugins` | two files of any of 16 kinds, two workers, every early return | the order of start and shutdown, and that it ends |
| `keys` | three faults (crashes, deletions, files that do not open or are not written) in any number of starts | what a server that serves has read |
| `dispatch` | bytes of 16 values, integers of two bytes; buffers of 16 to 64 bytes, 40 for a result; three resources | what a handler gets and what a client is answered |
| `doc_*`, `race_*` | as above | four statements of the documentation that the code does not keep (section 6) |

Why the bounds are enough to be interesting.

* 3x3 is the smallest board with corner, edge and centre cells.  The layouts are
  one mine in each kind of place, and two apart and adjacent; other layouts are
  rotations, reflections or have hardly a zero.  With `{<<1,1>>}` and the like a
  flood fill runs over several zeros, meets flags and is cut in two by them; a
  chord with wrong flags opens mines; the counts agree on unsolved boards.
  TypeOK's mutant shows that out-of-range coordinates arrive.
* 3x2 with one worker has loops of every kind run several rounds: a queue of two
  zeros, a chord with several seeds, a board with no mine at all.  Symmetric
  neighbours make the order of the queue matter.
* On the strip 0-0-0 two flood fills start at its ends and meet in the middle, and
  flags may stand between them; on 0-1-mine a fill has an edge and a chord can open
  the mine behind a wrong flag.  The counting loops of the board endpoints, which run
  over a list that does not change, are in `steps_refine_game`.
* Two plugin files meet in every combination of kinds (a refused one beside one
  that serves, one without `unload_plugin` beside one that has it), and one
  worker may be in a handler while another takes the signal.
* Three runs let a token outlive two restarts, of which either may keep the keys; two
  clients are enough for two workers to draw ids and register in either order.
* On the 3x1 strip a flood fill answers with two cells, a chord opens the mine
  behind a wrong flag, and every end of the game is within a few keys.  Two
  requests given up let a second key overtake a first request that is still to
  be handled, and let a repeated `cell/flag` undo the one before it.
* Three faults let a repair itself be cut and repaired: a file is lost, the
  start that recreates it dies, and another file is lost.
* `dispatch` scales the 256 values of a byte to 16 and the 8 bytes of an integer
  to 2, with four levels of lists and maps: the run then has every signed and unsigned integer there is, with every
  boundary between numbers of one byte and of two, and results just below, at
  and above the capacity.  A resource too large for the largest buffer is
  registered too, and parameters too large for it arrive.

The properties.

* `FlagDiscipline`: never more flags than mines, never a flag on a revealed cell
  (with one request at a time).
* `WinMeansSolved`, `FullyRevealedMeansSolved`: comparing counts is as good as
  comparing sets.  A "win" is a solved board always.  When `board/fully_revealed`
  answers "true" the flags are on the covered cells, all of them and nothing
  else, also where opened mines and flags on safe cells cancel out in the counts;
  the board is solved as long as no mine is open.
* `ZerosAreOpenedAround`: a zero that is revealed leaves nothing covered around
  it but flags.
* `OnlyMisflaggedChordOpensMine`: no flood fill ever reaches a mine; a chord
  opens one only when some flag is wrong.
* `AnswersTellTheDifference`, `NothingOpenedIsLost`: a client that adds up its
  answers knows every revealed cell - in the sequential game exactly by each
  answer (which tells nothing of a cell that was revealed before, see section 6),
  with two workers by all answers together.
* `MinesAreOpenedByChords`, `QuietZerosAreOpenedAround`: the same of mines and
  zeros when two workers race.  Two flood fills that meet leave no gap, since
  the one that has revealed a zero expands it.
* `EveryRequestIsAnswered`: the flood fill terminates although others change
  the bits it reads.
* `PictureIsTrue`, `PictureDiffersByLosses`: a number the client shows is right
  whatever was lost, and where picture and board differ otherwise, a lost request
  is to blame, and it is one that can explain the difference.
* `WinShownMeansNoBoom`, `LoseShownAfterLossOnly`, `EndIsNoticed`: what the client
  tells its player of the end.  The first holds for the client although the
  server does not keep it (section 6), since a boom ends the client.
* `KeysAreDealtWith`: every key comes back to the keyboard, or the client ends.
* `ServedPairIsSound`, `NewPairsHaveACause`, `CertificateHeals`: which faults a
  next start repairs, and which one it does not: a crash after the public file
  has been created and before the private one is filled leaves a pair that is
  taken as it is, with an empty private key, and so does a disk that is full when
  the key is written.  `CertificateHeals` speaks of the certificate only: an empty
  DH file is never made again.
* `HandlerSeesItsParameters`, `AnswersAreWhole`, `HandledOnceIfAtAll`: what was
  sent is what is received on both crossings; a client is told of a result that
  did not come through, and its handler is not called again.
* `ClientsCanBeCreated`, `CopiesAreIndependent`, `TemplatesStayUntouched`,
  `TokensReachTheirBoard`: see section 1.
* `OnlyKeptKeysLetOldTokensIn`: a handler that is called with a token of this run
  has the board cloned for its session.  A token of an earlier run gets that far,
  to whichever client has its id now, only when every restart since has kept the
  keys; one start with new keys ends all tokens before it.  By default the server
  keeps them (section 6).
* `NothingIsUsedWhenGone`, `UnloadSeesEverything`,
  `NoConnectionOutlivesItsCode`, `RefusedPluginsNeverRun`, `EveryExitIsClean`,
  `StopsInTheEnd`: the order in which the process is taken down.  Three of their
  mutants are bugs that `CHANGELOG.md` records: the API destroyed before the
  plugins, a plugin that did not disconnect, a stop that did not come through.

## 4. Fairness

`HandlerSteps`, `Client` and `PluginLifecycle` have a liveness property each.

`HandlerSteps` assumes weak fairness of `Work(w)` for each worker: a thread that has taken a request and whose next
access waits for nothing is run by the scheduler eventually.  The handlers take
no lock while they work, so that a worker's step is always enabled.  No fairness
is assumed of `Take`: clients need not send anything.

`Client` assumes weak fairness of `Exchange`, the end of the request that is out,
answered or given up: libcurl ends each within its timeout.  When `MaxLosses`
requests have been given up, an answer is the only end left, which is the bound's
doing and no statement about the network; `KeysAreDealtWith` does not depend on
it, since `GiveUp` leads to the keyboard as well.  None is assumed of keys and of
late requests.

`PluginLifecycle` assumes weak fairness of `main()`'s next step, of the stopping
thread's, and of each handler's return (which `HandlerSteps` shows of the
handlers themselves).  None is assumed of requests and signals.  The safety
specifications `Game`, `Sessions`, `KeyStore` and `Dispatch` have no fairness; `Sessions` allows the
process to be killed in every state.

## 5. Proofs

`tlapm` proves the theorems below for every value of the constants, under the
assumptions named in the modules: the board has at least one row and column
(`BoardAssumption`), the layouts are sets of cells (`LayoutsAssumption`), at
least one template is added at the start (`SessionsAssumption`), plugins, host
and "nobody" are different (`LifecycleAssumption`), the numbers of losses and of
faults are natural numbers (`LossesAssumption`, `FaultsAssumption`), the client
of `HandlerSteps` calls the five endpoints (`RequestsAssumption`).  For
`DispatchProofs`: a byte has at least two values and an integer a byte
(`WireAssumption`), the largest buffer is one of those tried
(`CapacitiesAssumption`), a resource's parameters have different names and
defaults that fit in its envelope (`PluginsAssumption`), a text parses as at most
one value of a type (`RequestsAssumption`), and what handlers return can be
nested in an envelope (`ResultsAssumption`).

**BoardProofs**: lemmas about the operators.  A cell showing 0 has no mine
around it; neighbourhood is symmetric; the flood fill from a safe cell never
passes a mine (`FloodAvoidsMines`); it is complete: around a zero that it opens
nothing enterable is left (`FloodIsComplete`, from `FloodSpreads`: the least
region is closed); when as many neighbours are flagged as the cell shows and
all flags are on mines, a chord is safe (`TrueFlagsMakeChordSafe`, which rests
on `SameCount`: a subset with the same finite cardinality is the whole set).

**GameProofs**: every step is of one of four kinds (`StepKinds`): the board
stays, a flag is toggled, cells are revealed by `cell/reveal`, or by
`cell/check`.  The inductive invariant is `TypeOK /\ FlagDiscipline`: the flag
count alone is not inductive, since toggling needs the board's type for the
cardinalities.  From it:

| theorem | property | argument |
| --- | --- | --- |
| `TypeCorrect` | `TypeOK` | |
| `FlagsAreDisciplined` | `FlagDiscipline` | one flag more only when fewer than mines; opened cells are enterable, so unflagged |
| `WinsAreSolved` | `WinMeansSolved` | all mines flagged and no more flags than mines: the same set; no mine revealed and as many covered as mines: the same set |
| `FullyRevealedGamesAreSolved` | `FullyRevealedMeansSolved` | as many flags as mines, as many covered cells as mines, and flags on covered cells only: the same set; it is the set of mines when all mines are covered |
| `FloodFillIsComplete` | `ZerosAreOpenedAround` | `FloodIsComplete` |
| `OnlyChordsOpenMines` | `OnlyMisflaggedChordOpensMine` | `FloodAvoidsMines`, `TrueFlagsMakeChordSafe` |
| `AnswersAreComplete` | `AnswersTellTheDifference` | what is opened was not revealed before |

**SessionsProofs**: the inductive invariant `IInv` adds to `TypeOK` what the
workers know between two locks: ids in use are below the counter and each
client's board is the copy made under its id (`ClientsAreDrawn`); an id between
`fetch_add` and `emplace` belongs to one worker and to no client
(`DrawnIdsAreNew` - without it two workers could emplace one id);
a job past the range check has a template id that exists, and past `emplace` a
client that exists (`JobsKnow`); a token of this run names a client that exists
(`TokensAreIssued`).  One lemma per action; `Restart` re-establishes it since
run numbers grow.  From it `TypeCorrect`, `SessionsAreCreated`,
`CopiesAreTheClientsOwn`, `TemplatesAreNeverPlayed` and `TokensLeadHome`.
`OldTokensNeedKeptKeys` says whose board a handler gets, whatever restarts do
with the key files.  It needs a further invariant, `KeysAreNoYounger`: a token's key was
made in the token's run or before it, and a job that is past verification has
a token signed with the key in use.  What the documentation says, that a handler
always gets its caller's board, is false, as the run
`doc_handlers_get_callers_board` shows.

**PluginLifecycleProofs**: the inductive invariant says for each point of
`main()` what exists there: initialised code stays mapped until `plugins.clear()`
(`CodeStaysMapped`), the API goes last (`ApiComesLast`), handlers run during
`start()` only and the stopping thread not after its join (`ServiceIsAround`),
and all unloading comes before any closing (`UnloadingIsComplete`).  From it all
safety properties of the run `plugins`, for any set of files of any kind and any
number of workers.

**HandlerStepsProofs**: every step of a worker is of one of seven kinds
(`StepKinds`, with a lemma per handler): local, into `reveal_cells`, past a cell,
revealing one, to the neighbours of a queue's head, the answer, the store of a
toggle.  The invariants are then shown for each kind instead of each label.

* `IInv` says what the local variables are like at each label (`JobOK`), that
  queues hold cells that show 0 only (`QueuesHoldZeros`), and that a worker which
  does not run a chord neither looks at nor has found a mine (`MinesInChords`,
  which needs the queues: the neighbours of a zero are no mines).  From it
  `TypeCorrect` and `MinesAreOpenedByChordsOnly`.
* `HistoryInv`, when the history is kept, adds what several flood fills owe each
  other.  *Known* cells are those revealed or ever flagged while covered; a known
  cell stays known.  A fill's `visited` cells are known or still in its `todo`
  (`VisitedIsKnown`), and each revealed zero is in the queue of some worker, or
  each of its neighbours is known or in some worker's `todo`
  (`ZerosAreAttended`): whoever has set the revealed bit has queued the cell, so
  that the others may stop at it.  From it `OpenedCellsAreTold`
  (`NothingOpenedIsLost`) and `FloodFillsLeaveNoGap`
  (`QuietZerosAreOpenedAround`: when all workers are idle, all queues are empty).

`NeighborsExceptVisited` proves on the way that the list of
`board_t::neighbors`, as eight coordinates of which those on the board are kept, is
the set `Neighbors` of `Board`.

`OneWorkerPlaysTheGame` is the refinement: with one worker, and the last answer
kept, `HandlerSteps` implements `Game` (`ImplementsGame`), so that what is proved of
`Game` holds of the reads and writes of the code, request by request.  A step is one
of `Game` or shows nothing (`Plays`), which needs an invariant of its own, `RInv`:
for each label it says what the worker's locals mean for the board *shown*, which
is the one from before the request.

* `Counting`: a loop's `tally` is the number of cells before the `k`-th that are
  counted; the scan of `board/check` has seen no bad mine before the `k`-th
  (`Scanned`).  It rests on `CellOrderListsCells` and `NeighborOrderListsNeighbors`: the
  rows one after the other, by division with remainder, list each cell of the board
  once, and the eight coordinates list each neighbour once.
* `Asked` and `Settled`: which request is in progress, and what its earlier reads
  have settled - with one worker they stay settled until the answer.
* `Exploring`, in `reveal_cells` and in the loop of `cell/check` around it: the
  cells found and those still to be looked at belong to the target, which is what
  `Game` opens (`Sound`); and no cell that can be entered is left out: each start
  cell the loop has passed, each visited cell and each neighbour of a zero that has
  left the queue is found or still in `todo` (`Complete`).  When `todo`, the queue and
  the neighbours left are all empty, the cells found with their zeros are one of the
  regions of which `Flooded` is the least, and therefore all of the target
  (`FloodEnds`).  For `cell/check` this covers several flood fills in turn, each
  of which stops where an earlier one has been.

The hypothesis is that `Workers` has one element; with two the refinement is false.
TLC has checked `RInv` on the instance of `steps_refine_game` before it was proved.

**ClientProofs**: `ClientPlaysTheGame` is the refinement: a behaviour of the
client with its losses is one of `Game`, so that every theorem about `Game` holds
on the board the client plays on, and each is cited where it is needed.  The
inductive invariant relates the picture to the board cell by cell, and says what
the client knows at each point of a key's chain of requests: between an answer
that may have ended the game and the question whether it has, `EndIsNoticed` is
not true, and the invariant says that the question is still to be asked.

| theorem | property |
| --- | --- |
| `ClientTypeCorrect` | `ClientTypeOK` |
| `PicturesAreTrue` | `PictureIsTrue` |
| `LossesExplainDifferences` | `PictureDiffersByLosses` |
| `WinsShownAreClean` | `WinShownMeansNoBoom` |
| `LosesShownAreLosses` | `LoseShownAfterLossOnly` |
| `EndsAreNoticed` | `EndIsNoticed` |

**KeyStoreProofs**: the inductive invariant `IInv` says what the files hold at
each step of a start (`StepInv`), that each pair beyond the first has its fault
(`CountInv`), when an empty private file can be next to a public file
(`CutInv`), how a public file comes to be empty (`PubInv`), when two halves can be of different pairs (`HalvesInv`), what of that
a run has read (`ReadInv`) and that DH parameters are not there before a whole
certificate (`CertInv`).  From it `TypeCorrect`, `ServedPairsAreSound`,
`PairsAreKept` and `CertificatesHeal`, for any number of faults.

**DispatchProofs**, in two halves.

The codec: what is written is read back.  A number's digits in base `Base` add up
to the number (`DivUnique`, `UnsignedOfDigits`), and the tag restores its sign,
also that of the least `int64_t` (`NegatedBack`).  The lemmas are about a buffer in
which the bytes of a parameter *occur* somewhere (`Occurs`), with anything before
and after them, since this is what holds of a parameter inside a list:
`ManyReadBack` reads one after another what was written one after another,
`EmplacedAll` makes the map of the entries again, in whatever order they were
written, and `ReadBack` goes from each level of nesting to the next.  The
theorem is `WhatIsStoredIsLoaded`: what fits is loaded as its normal form, what
does not fit is refused as a whole, and the normal form is not changed again.
`Pow`, `Params`, `Writer`, the levels of the reader and the counting inside `ReadMany`
and `Unsigned` are recursive functions on `0..n`.  The library's theorem about
such functions takes an operator as its parameter, so that each of them is
shown to exist in its own lemma (`PowDef`, `ParamsDef`, `WriterDef`, `ReaderDef`,
`ReadManyDef`, `UnsignedDef`, `FlattenDef`): functions that obey the recursion up
to k, for each k, by induction as a set of numbers without a gap (`UpTo`).

Dispatch: `DInv` says for each place in `dispatch()` what is known there, that
the host has each resource as declared (`Registry`), that the parameters are
those of the request (`Right`), that their bytes are the bytes of the
parameters (`Given`), who has been admitted, and whether the handler has been
called (`Untouched`, `Called`).  The properties speak of the end of a request only
and are not inductive without all of it: that the handler sees its parameters
needs that the bytes it is given are theirs.  One lemma for each action shows
that it is kept, from `SpecBack`, `ResourceBack`, `ParsedRight` and `HandlerBack`,
which are the round trip of the three envelopes.

| theorem | property | argument |
| --- | --- | --- |
| `WhatIsStoredIsLoaded` | | `ReadBack` at the outermost level, and the header |
| `TheHandlerSeesItsParameters` | `HandlerSeesItsParameters` | declared defaults cross twice, and `Normal` is idempotent |
| `TheAnswersAreWhole` | `AnswersAreWhole` | what loads is the envelope that was stored |
| `HandlersRunOnceIfAtAll` | `HandledOnceIfAtAll` | each refusal is a reason in `Acceptable`; parameters that were stored can be read |

## 6. Where the code and its documentation disagree

Each is a run that TLC must find violated; `PROJECT.json` quotes the lines.

| run | what happens |
| --- | --- |
| `doc_win_means_no_boom` | `cell/reveal` booms a mine without setting its revealed bit; the game can still be won, against "a win means none of the mines were boomed" |
| `doc_reveal_answers_a_cell` | revealing a revealed cell is answered "ok" with an empty array, against "one element" |
| `race_flags_never_exceed_mines` | two requests set two flags for the last mine |
| `doc_handlers_get_callers_board` | after a restart that keeps the key files, a token from before names the new client with the same id |

Others were met and have no run:

* `board/fully_revealed` (`handlers.cxx:65`) answers "true" when both counts agree,
  which they also do after a chord has opened a mine and a flag covers a safe cell
  (`FullyRevealedMeansSolved` says what is true then);
  `server_api.md:216` describes it cell by cell.
* After a chord has opened a mine, `board/check` (`handlers.cxx:158`) refuses for
  "unrevealed cells" (`server_api.md:265`) when every safe cell is open, and
  no request can change that.
* Two requests at a time: a cell is revealed between `is_revealed()` and the
  toggle (`handlers.cxx:134`), and ends up flagged and revealed, against
  `server_api.md:367`.
* `board/check` judges boards that `board/fully_revealed` does not call fully
  revealed although a comment at `handlers.cxx:155` says the definitions match
  (the verdict then says "lose", which is right).
* A plugin without `init_plugin` is "skipped" at the start
  (`server_plugins.md:74`) and its `unload_plugin` is called at the end all the
  same, where one written like the documented example follows a null pointer.

## 7. What is only model-checked, and what is not modelled

Only model-checked: liveness under fairness, and the runs of section 6.  Every
invariant, every action property and the refinement that the passing runs check
are stated by a theorem.  That bytes which nobody has written are refused is neither checked
nor proved: the adapters write nothing but envelopes.

Left out of modules that model the rest of their component:

* `Dispatch`: the checksum is a stand-in without collisions, since nothing
  changes the bytes between their writer and their reader; the guard against the
  reuse of a stream instance, which no caller makes; path and method of a
  resource; the choice among JSON, YAML and XML.
* `Client`: what curses draws, colours and layout.  A terminal is as large as the
  board.
* `KeyStore`: what OpenSSL computes.  A write is smaller than the buffer of its
  BIO and reaches the file when the BIO is closed, all of it or, on a full disk,
  nothing (part of it would be the same to what reads it); a crash does not lose what was
  closed (it is a crash of the process and not of the machine).
* `Sessions`: client ids of 2^31 and more, which `get_id_from_jwt` cannot parse
  back, are out of reach of a small instance; listed as a hazard.

Not modelled, with the reasons:

* `board/size` and the `boards_list` plugin: they read what does not change.
  `board/bombs`: it answers the counts of `BombsTotal` and `BombsCount` and changes
  nothing; `Client` has its answer.
* Response serializers (JSON, YAML, XML), the request log, loggers, the
  command line: formatting and I/O.
* The envelope library: nothing links it but its own tests, and what it
  does beyond calling OpenSSL in order is the layout of a message.
* restbed, jwt-cpp, OpenSSL, libcurl: external.  restbed appears as worker
  threads that take requests in any order, jwt-cpp as a token that verifies with
  the key that signed it, libcurl as the end of every request.
* Solver and generator: stand-alone, used by nothing else.

## 8. Plan

Done: `Board`, `Game`, `HandlerSteps`, `Client`, `Sessions`, `PluginLifecycle`,
`KeyStore`, `Bytestream`, `Dispatch`; the theorems of section 5.  What would come
next, in this order:

1. A property of the scan of `board/check` in `HandlerSteps` against a flag that moves (is
   there a moment at which a board judged "win" was won?), and in `Game`, that
   every game with no open mine can still be won.
2. Two terminals with one token: `Client` on `HandlerSteps` in place of `Game`.

To reproduce: `tlc -config game.cfg MCGame.tla` (likewise the other runs, with
the module named in `PROJECT.json`), `tlapm GameProofs.tla`.
