--------------------------- MODULE PluginLifecycle ---------------------------
(***************************************************************************)
(* The life of the server process around its plugins: what main() starts,  *)
(* in which order, what runs on the workers meanwhile, and the order in     *)
(* which shutdown_guard_t takes everything down again, on every path out    *)
(* of main().                                                              *)
(*                                                                         *)
(* Three threads of control: main(), the service's workers, and the thread *)
(* that a signal starts to stop the service.  A plugin behaves like the    *)
(* two of the repository: it connects install_resource to the API's signal *)
(* in init_plugin, and disconnects it in unload_plugin.                     *)
(***************************************************************************)
CONSTANTS Plugins,   \* the .so files in the plugins directory
          Workers,   \* the worker threads of the service
          Host,      \* the server's own resources
          Nobody     \* where a worker is that handles no request

ASSUME LifecycleAssumption == Host \notin Plugins /\ Nobody \notin Plugins \cup {Host}

VARIABLES
    file,         \* what each file is: which of Features it has
    pc,           \* where main() is
    logger,       \* initialize_logger() has been called
    table,        \* `plugins`: the files with a plugin_handle_t
    mapped,       \* the libraries that are open
    initialised,  \* history: the plugins whose init_plugin has been called
    unloaded,     \* history: the plugins whose unload_plugin has been called
    connected,    \* the plugins that are connected to the API's signal
    resources,    \* whose resources the service publishes
    api,          \* the API object exists
    service,      \* the state of the service object
    handling,     \* per worker: whose handler it is in
    stopper       \* the thread that stops the service

vars == <<file, pc, logger, table, mapped, initialised, unloaded, connected, resources, api,
          service, handling, stopper>>

(* "opens": dlopen succeeds; "abi_tag": it exports an abi_tag() that returns *)
(* the server's own; the other two are exported functions.                 *)
Features == {"opens", "abi_tag", "init_plugin", "unload_plugin"}

Owners == Plugins \cup {Host}

Services == {"none", "made", "running", "stopping", "gone"}

(* main() up to the start of the service, and the destructor of its guard.  *)
Starting == {"parse", "keys", "load", "certificate", "make service", "publish", "start"}
Leaving == {"join", "reset service", "unload", "close", "reset api"}
Points == Starting \cup {"serving"} \cup Leaving \cup {"exited", "terminated"}

Init ==
    /\ file \in [Plugins -> SUBSET Features]
    /\ pc = "parse"
    /\ logger = FALSE
    /\ table = {} /\ mapped = {} /\ initialised = {} /\ unloaded = {} /\ connected = {}
    /\ resources = {}
    /\ api = TRUE
    /\ service = "none"
    /\ handling = [w \in Workers |-> Nobody]
    /\ stopper = "none"

-----------------------------------------------------------------------------
(* main() goes on; `return` runs the destructor of the guard.              *)
Goto(label) == pc' = label

OthersIdle == UNCHANGED <<file, handling, stopper>>

(* CLI11_PARSE returns from main() before there is a logger; the data and   *)
(* log directories may not be created, which nothing catches.              *)
ParseOptions ==
    /\ pc = "parse"
    /\ \/ Goto("keys") /\ logger' = TRUE
       \/ Goto("join") /\ UNCHANGED logger
       \/ Goto("terminated") /\ UNCHANGED logger
    /\ UNCHANGED <<table, mapped, initialised, unloaded, connected, resources, api, service>>
    /\ OthersIdle

(* load_rsa_keys() may throw; nothing catches it.                          *)
LoadKeys ==
    /\ pc = "keys"
    /\ Goto("load") \/ Goto("terminated")
    /\ UNCHANGED <<logger, table, mapped, initialised, unloaded, connected, resources, api, service>>
    /\ OthersIdle

Accepted(p) == {"opens", "abi_tag"} \subseteq file[p]

(* Mutant: the tags are not compared.                                      *)
LoadPluginAnyTag(p) ==
    LET starts == {"opens", "init_plugin"} \subseteq file[p] IN
    /\ pc = "load"
    /\ p \notin table
    /\ table' = table \cup {p}
    /\ mapped' = IF "opens" \in file[p] THEN mapped \cup {p} ELSE mapped
    /\ initialised' = IF starts THEN initialised \cup {p} ELSE initialised
    /\ connected' = IF starts THEN connected \cup {p} ELSE connected
    /\ UNCHANGED <<pc, logger, unloaded, resources, api, service>>
    /\ OthersIdle

(* One turn of load_plugins' loop, in the directory's order.  A library     *)
(* without the right tag is closed at once; one without init_plugin stays   *)
(* open, and every file keeps its place in the table.                      *)
LoadPlugin(p) ==
    LET starts == Accepted(p) /\ "init_plugin" \in file[p] IN
    /\ pc = "load"
    /\ p \notin table
    /\ table' = table \cup {p}
    /\ mapped' = IF Accepted(p) THEN mapped \cup {p} ELSE mapped
    /\ initialised' = IF starts THEN initialised \cup {p} ELSE initialised
    /\ connected' = IF starts THEN connected \cup {p} ELSE connected
    /\ UNCHANGED <<pc, logger, unloaded, resources, api, service>>
    /\ OthersIdle

(* The directory has been read, or reading it has failed.                  *)
LoadingEnds ==
    /\ pc = "load"
    /\ \/ table = Plugins /\ Goto("certificate")
       \/ Goto("join")
    /\ UNCHANGED <<logger, table, mapped, initialised, unloaded, connected, resources, api, service>>
    /\ OthersIdle

CreateCertificate ==
    /\ pc = "certificate"
    /\ Goto("make service") \/ Goto("join")
    /\ UNCHANGED <<logger, table, mapped, initialised, unloaded, connected, resources, api, service>>
    /\ OthersIdle

(* restbed's settings, publish() and start() may throw: nothing catches it, *)
(* but for the std::system_error of start().                               *)
MakeService ==
    /\ pc = "make service"
    /\ \/ Goto("publish") /\ service' = "made"
       \/ Goto("terminated") /\ UNCHANGED service
    /\ UNCHANGED <<logger, table, mapped, initialised, unloaded, connected, resources, api>>
    /\ OthersIdle

(* install_entrypoints: the signal makes every connected plugin add its     *)
(* resource, and all of them are published.                                *)
Publish ==
    /\ pc = "publish"
    /\ \/ Goto("start") /\ resources' = {Host} \cup connected
       \/ Goto("terminated") /\ UNCHANGED resources
    /\ UNCHANGED <<logger, table, mapped, initialised, unloaded, connected, api, service>>
    /\ OthersIdle

(* service->start(): it serves, or throws (a port in use) and main returns  *)
(* when that is a std::system_error.                                       *)
StartService ==
    /\ pc = "start"
    /\ \/ Goto("serving") /\ service' = "running"
       \/ Goto("join") /\ UNCHANGED service
       \/ Goto("terminated") /\ UNCHANGED service
    /\ UNCHANGED <<logger, table, mapped, initialised, unloaded, connected, resources, api>>
    /\ OthersIdle

-----------------------------------------------------------------------------
(* The workers take requests, and one of them the signal.                  *)
MainWaits ==
    UNCHANGED <<file, pc, logger, table, mapped, initialised, unloaded, connected, resources, api>>

Call(w, owner) ==
    /\ service = "running"
    /\ handling[w] = Nobody
    /\ owner \in resources
    /\ handling' = [handling EXCEPT ![w] = owner]
    /\ MainWaits
    /\ UNCHANGED <<service, stopper>>

Return(w) ==
    /\ handling[w] # Nobody
    /\ handling' = [handling EXCEPT ![w] = Nobody]
    /\ MainWaits
    /\ UNCHANGED <<service, stopper>>

Signal(w) ==
    /\ service = "running"
    /\ handling[w] = Nobody
    /\ stopper = "none"
    /\ stopper' = "running"
    /\ MainWaits
    /\ UNCHANGED <<service, handling>>

(* Mutant: the thread ends without a call of stop().                       *)
StopServiceForgotten ==
    /\ stopper = "running"
    /\ service = "running"
    /\ stopper' = "done"
    /\ MainWaits
    /\ UNCHANGED <<service, handling>>

(* service->stop(): no request is taken any more ...                       *)
StopService ==
    /\ stopper = "running"
    /\ service = "running"
    /\ service' = "stopping"
    /\ MainWaits
    /\ UNCHANGED <<handling, stopper>>

(* ... and the thread ends some time later.                                *)
StopperEnds ==
    /\ stopper = "running"
    /\ service # "running"
    /\ stopper' = "done"
    /\ MainWaits
    /\ UNCHANGED <<service, handling>>

(* start() returns when the workers are done.                              *)
ServingEnds ==
    /\ pc = "serving"
    /\ service = "stopping"
    /\ \A w \in Workers : handling[w] = Nobody
    /\ Goto("join")
    /\ UNCHANGED <<logger, table, mapped, initialised, unloaded, connected, resources, api, service>>
    /\ OthersIdle

-----------------------------------------------------------------------------
(* The destructor of shutdown_guard_t.                                     *)

(* Mutant: the thread is not joined.                                       *)
JoinForgotten ==
    /\ pc = "join"
    /\ Goto("reset service")
    /\ UNCHANGED <<logger, table, mapped, initialised, unloaded, connected, resources, api, service>>
    /\ OthersIdle

Join ==
    /\ pc = "join"
    /\ stopper # "running"
    /\ Goto("reset service")
    /\ UNCHANGED <<logger, table, mapped, initialised, unloaded, connected, resources, api, service>>
    /\ OthersIdle

(* Mutant: the API is destroyed before the plugins (CHANGELOG.md:338).      *)
ResetServiceAndApi ==
    /\ pc = "reset service"
    /\ Goto(IF logger THEN "unload" ELSE "reset api")
    /\ service' = "gone"
    /\ resources' = {}
    /\ api' = FALSE
    /\ UNCHANGED <<logger, table, mapped, initialised, unloaded, connected>>
    /\ OthersIdle

(* service.reset(); then unload_plugins(), which has nothing to do when     *)
(* there is no logger yet.                                                 *)
ResetService ==
    /\ pc = "reset service"
    /\ Goto(IF logger THEN "unload" ELSE "reset api")
    /\ service' = "gone"
    /\ resources' = {}
    /\ UNCHANGED <<logger, table, mapped, initialised, unloaded, connected, api>>
    /\ OthersIdle

(* The plugins with an unload_plugin() that dlsym has found.               *)
Unloadable == {p \in table \cap mapped : "unload_plugin" \in file[p]}

(* Mutant: unload_plugin() does not disconnect.                            *)
UnloadPluginNoDisconnect(p) ==
    /\ pc = "unload"
    /\ p \in Unloadable \ unloaded
    /\ unloaded' = unloaded \cup {p}
    /\ UNCHANGED <<pc, logger, table, mapped, initialised, connected, resources, api, service>>
    /\ OthersIdle

(* A plugin that was opened and never initialised is unloaded as well: it   *)
(* has no API to disconnect from, and one like those of the repository     *)
(* follows a null pointer.                                                 *)
UnloadPlugin(p) ==
    /\ pc = "unload"
    /\ p \in Unloadable \ unloaded
    /\ \/ UNCHANGED pc
       \/ p \notin initialised /\ Goto("terminated")
    /\ unloaded' = unloaded \cup {p}
    /\ connected' = connected \ {p}
    /\ UNCHANGED <<logger, table, mapped, initialised, resources, api, service>>
    /\ OthersIdle

(* Mutant: the plugins are closed without being unloaded.                  *)
UnloadingSkipped ==
    /\ pc = "unload"
    /\ Goto("close")
    /\ UNCHANGED <<logger, table, mapped, initialised, unloaded, connected, resources, api, service>>
    /\ OthersIdle

UnloadingEnds ==
    /\ pc = "unload"
    /\ Unloadable \subseteq unloaded
    /\ Goto("close")
    /\ UNCHANGED <<logger, table, mapped, initialised, unloaded, connected, resources, api, service>>
    /\ OthersIdle

(* Mutant: the handle goes away and the library stays open.                *)
ClosePluginLeftOpen(p) ==
    /\ pc = "close"
    /\ p \in table
    /\ table' = table \ {p}
    /\ UNCHANGED <<pc, logger, mapped, initialised, unloaded, connected, resources, api, service>>
    /\ OthersIdle

(* plugins.clear(): each handle's destructor closes its library.           *)
ClosePlugin(p) ==
    /\ pc = "close"
    /\ p \in table
    /\ table' = table \ {p}
    /\ mapped' = mapped \ {p}
    /\ UNCHANGED <<pc, logger, initialised, unloaded, connected, resources, api, service>>
    /\ OthersIdle

ClosingEnds ==
    /\ pc = "close"
    /\ table = {}
    /\ Goto("reset api")
    /\ UNCHANGED <<logger, table, mapped, initialised, unloaded, connected, resources, api, service>>
    /\ OthersIdle

(* api.reset() destroys the signal and what is still connected to it.      *)
ResetApi ==
    /\ pc = "reset api"
    /\ Goto("exited")
    /\ api' = FALSE
    /\ connected' = {}
    /\ UNCHANGED <<logger, table, mapped, initialised, unloaded, resources, service>>
    /\ OthersIdle

(* The process has ended.                                                  *)
Ended ==
    /\ pc \in {"exited", "terminated"}
    /\ UNCHANGED vars

-----------------------------------------------------------------------------
Main ==
    \/ ParseOptions
    \/ LoadKeys
    \/ \E p \in Plugins : LoadPlugin(p)
    \/ LoadingEnds
    \/ CreateCertificate
    \/ MakeService
    \/ Publish
    \/ StartService
    \/ ServingEnds
    \/ Join
    \/ ResetService
    \/ \E p \in Plugins : UnloadPlugin(p)
    \/ UnloadingEnds
    \/ \E p \in Plugins : ClosePlugin(p)
    \/ ClosingEnds
    \/ ResetApi

Next ==
    \/ Main
    \/ \E w \in Workers, owner \in Owners : Call(w, owner)
    \/ \E w \in Workers : Return(w)
    \/ \E w \in Workers : Signal(w)
    \/ StopService
    \/ StopperEnds
    \/ Ended

(* main() and the stopping thread are running threads, and handlers return. *)
(* No request and no signal needs to arrive.                               *)
Fairness ==
    /\ WF_vars(Main)
    /\ WF_vars(StopService \/ StopperEnds)
    /\ \A w \in Workers : WF_vars(Return(w))

Spec == Init /\ [][Next]_vars /\ Fairness

-----------------------------------------------------------------------------
(* Every variable has a value of its type.                                 *)
TypeOK ==
    /\ file \in [Plugins -> SUBSET Features]
    /\ pc \in Points
    /\ logger \in BOOLEAN
    /\ table \subseteq Plugins
    /\ mapped \subseteq table
    /\ initialised \subseteq Plugins
    /\ unloaded \subseteq Plugins
    /\ connected \subseteq Plugins
    /\ resources \subseteq Owners
    /\ api \in BOOLEAN
    /\ service \in Services
    /\ handling \in [Workers -> Owners \cup {Nobody}]
    /\ stopper \in {"none", "running", "done"}

(* No thread uses what is not there: a worker in a plugin's handler has its *)
(* code mapped and the API it calls, the service outlives its workers and   *)
(* the thread that stops it, and the plugin functions that log have a       *)
(* logger (which --help once had not: CHANGELOG.md:111).                   *)
NothingIsUsedWhenGone ==
    /\ \A w \in Workers : handling[w] # Nobody =>
           /\ handling[w] \in mapped \cup {Host}
           /\ api
           /\ service # "gone"
    /\ stopper = "running" => service # "gone"
    /\ pc \in {"load", "unload", "close"} => logger

(* server_plugins.md:424: unload_plugin() is the guaranteed window, "while  *)
(* api and every plugin's .so are still mapped", to disconnect.            *)
UnloadSeesEverything ==
    [][unloaded' # unloaded => api /\ initialised \subseteq mapped]_vars

(* No connection of the signal outlives the code it leads to, except that   *)
(* of a plugin that has no unload_plugin() to take it away.                *)
NoConnectionOutlivesItsCode ==
    \A p \in connected : p \in mapped \/ "unload_plugin" \notin file[p]

(* server_plugins.md:97: a plugin with another tag is refused: its abi_tag() *)
(* has been called, and nothing else of it ever is, neither init_plugin nor *)
(* a handler, nor unload_plugin when the server shuts down.                *)
RefusedPluginsNeverRun ==
    \A p \in Plugins : "abi_tag" \notin file[p] =>
        /\ p \notin initialised \cup unloaded
        /\ \A w \in Workers : handling[w] # p

(* Every way out of main() leaves nothing behind: each initialised plugin   *)
(* was unloaded, every library is closed, and the API is gone.             *)
EveryExitIsClean ==
    pc = "exited" =>
        /\ \A p \in initialised : "unload_plugin" \in file[p] => p \in unloaded
        /\ mapped = {}
        /\ ~api

(* A signal stops the server: whatever the workers are doing, the process   *)
(* comes to its end; and so it does on every early return.                 *)
StopsInTheEnd == stopper = "running" \/ pc = "join" ~> pc \in {"exited", "terminated"}
=============================================================================
