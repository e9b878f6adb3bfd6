------------------------ MODULE PluginLifecycleProofs ------------------------
(* Theorems about PluginLifecycle.tla: for any set of files of any kind and *)
(* any number of workers.                                                  *)
EXTENDS PluginLifecycle, TLAPS

(* Only accepted libraries stay open and run, and only initialised plugins  *)
(* have connections, resources and handlers.                               *)
OnlyAcceptedRun ==
    /\ \A p \in mapped \cup initialised \cup unloaded : Accepted(p)
    /\ connected \subseteq initialised
    /\ resources \subseteq {Host} \cup initialised
    /\ \A w \in Workers : handling[w] \in {Nobody, Host} \cup initialised

(* What has been done when main() is at a point.                           *)
LoggerComesFirst ==
    /\ pc \in Points \ {"parse", "join", "reset service", "reset api", "exited", "terminated"} => logger
    /\ ~logger => table = {} /\ initialised = {}

CodeStaysMapped ==
    /\ pc \notin {"close", "reset api", "exited"} => initialised \subseteq mapped
    /\ pc \in {"reset api", "exited"} => table = {}

ApiComesLast == api <=> pc # "exited"

(* Nothing runs but while main() is in start(), and the stopping thread not *)
(* after its join.                                                         *)
ServiceIsAround ==
    /\ service = "running" => pc = "serving"
    /\ service = "gone" => pc \in {"unload", "close", "reset api", "exited", "terminated"}
    /\ \A w \in Workers : handling[w] # Nobody => pc = "serving"
    /\ stopper = "running" => pc \in {"serving", "join"}

(* Plugins are unloaded after they are loaded, all of them before the first *)
(* is closed, and are disconnected from then on.                           *)
UnloadingIsComplete ==
    /\ pc \in {"parse", "keys", "load"} => unloaded = {}
    /\ connected \cap unloaded = {}
    /\ pc \in {"close", "reset api", "exited"} =>
           \A p \in initialised : "unload_plugin" \in file[p] => p \in unloaded

IInv ==
    /\ TypeOK
    /\ OnlyAcceptedRun
    /\ LoggerComesFirst
    /\ CodeStaysMapped
    /\ ApiComesLast
    /\ ServiceIsAround
    /\ UnloadingIsComplete

-----------------------------------------------------------------------------
LEMMA InitEstablishes == Init => IInv
BY LifecycleAssumption
   DEF Init, IInv, TypeOK, OnlyAcceptedRun, LoggerComesFirst, CodeStaysMapped, ApiComesLast,
       ServiceIsAround, UnloadingIsComplete, Points, Starting, Leaving, Services, Owners

(* The steps of main() that change nothing but pc and the logger.          *)
LEMMA MovesOn ==
    ASSUME IInv,
           ParseOptions \/ LoadKeys \/ LoadingEnds \/ CreateCertificate \/ ServingEnds \/ Join
    PROVE  IInv'
BY LifecycleAssumption
   DEF ParseOptions, LoadKeys, LoadingEnds, CreateCertificate, ServingEnds, Join, Goto, OthersIdle,
       IInv, TypeOK, OnlyAcceptedRun, LoggerComesFirst, CodeStaysMapped, ApiComesLast,
       ServiceIsAround, UnloadingIsComplete, Points, Starting, Leaving, Accepted

LEMMA LoadPluginPreserves ==
    ASSUME IInv, NEW p \in Plugins, LoadPlugin(p)
    PROVE  IInv'
BY LifecycleAssumption
   DEF LoadPlugin, OthersIdle, IInv, TypeOK, OnlyAcceptedRun, LoggerComesFirst, CodeStaysMapped,
       ApiComesLast, ServiceIsAround, UnloadingIsComplete, Accepted

LEMMA ServiceStarts ==
    ASSUME IInv, MakeService \/ Publish \/ StartService
    PROVE  IInv'
BY LifecycleAssumption
   DEF MakeService, Publish, StartService, Goto, OthersIdle, IInv, TypeOK, OnlyAcceptedRun,
       LoggerComesFirst, CodeStaysMapped, ApiComesLast, ServiceIsAround, UnloadingIsComplete,
       Points, Starting, Leaving, Services, Owners, Accepted

LEMMA CallPreserves ==
    ASSUME IInv, NEW w \in Workers, NEW owner \in Owners, Call(w, owner)
    PROVE  IInv'
<1>1. handling' \in [Workers -> Owners \cup {Nobody}]
      BY DEF Call, IInv, TypeOK
<1>2. \A v \in Workers : handling'[v] = IF v = w THEN owner ELSE handling[v]
      BY DEF Call, IInv, TypeOK
<1>3. owner \in {Host} \cup initialised /\ pc = "serving" /\ owner \in resources
      BY DEF Call, IInv, OnlyAcceptedRun, ServiceIsAround
<1>. QED BY <1>1, <1>2, <1>3
         DEF Call, MainWaits, IInv, TypeOK, OnlyAcceptedRun, LoggerComesFirst, CodeStaysMapped,
             ApiComesLast, ServiceIsAround, UnloadingIsComplete, Accepted

LEMMA ReturnPreserves ==
    ASSUME IInv, NEW w \in Workers, Return(w)
    PROVE  IInv'
<1>1. handling' \in [Workers -> Owners \cup {Nobody}]
      BY DEF Return, IInv, TypeOK
<1>2. \A v \in Workers : handling'[v] = IF v = w THEN Nobody ELSE handling[v]
      BY DEF Return, IInv, TypeOK
<1>. QED BY <1>1, <1>2
         DEF Return, MainWaits, IInv, TypeOK, OnlyAcceptedRun, LoggerComesFirst, CodeStaysMapped,
             ApiComesLast, ServiceIsAround, UnloadingIsComplete, Accepted

LEMMA SignalPreserves ==
    ASSUME IInv, NEW w \in Workers, Signal(w)
    PROVE  IInv'
BY DEF Signal, MainWaits, IInv, TypeOK, OnlyAcceptedRun, LoggerComesFirst, CodeStaysMapped,
       ApiComesLast, ServiceIsAround, UnloadingIsComplete, Accepted

LEMMA StopperPreserves ==
    ASSUME IInv, StopService \/ StopperEnds
    PROVE  IInv'
BY DEF StopService, StopperEnds, MainWaits, IInv, TypeOK, OnlyAcceptedRun, LoggerComesFirst,
       CodeStaysMapped, ApiComesLast, ServiceIsAround, UnloadingIsComplete, Services, Accepted

LEMMA ResetServicePreserves ==
    ASSUME IInv, ResetService
    PROVE  IInv'
BY DEF ResetService, Goto, OthersIdle, IInv, TypeOK, OnlyAcceptedRun, LoggerComesFirst,
       CodeStaysMapped, ApiComesLast, ServiceIsAround, UnloadingIsComplete, Points, Starting,
       Leaving, Services, Accepted

LEMMA UnloadPreserves ==
    ASSUME IInv, (\E p \in Plugins : UnloadPlugin(p)) \/ UnloadingEnds
    PROVE  IInv'
BY DEF UnloadPlugin, UnloadingEnds, Unloadable, Goto, OthersIdle, IInv, TypeOK, OnlyAcceptedRun,
       LoggerComesFirst, CodeStaysMapped, ApiComesLast, ServiceIsAround, UnloadingIsComplete,
       Points, Starting, Leaving, Accepted

LEMMA ClosePreserves ==
    ASSUME IInv, (\E p \in Plugins : ClosePlugin(p)) \/ ClosingEnds \/ ResetApi
    PROVE  IInv'
BY DEF ClosePlugin, ClosingEnds, ResetApi, Goto, OthersIdle, IInv, TypeOK, OnlyAcceptedRun,
       LoggerComesFirst, CodeStaysMapped, ApiComesLast, ServiceIsAround, UnloadingIsComplete,
       Points, Starting, Leaving, Accepted

LEMMA NextPreserves == IInv /\ [Next]_vars => IInv'
<1>. SUFFICES ASSUME IInv, [Next]_vars PROVE IInv'
     OBVIOUS
<1>1. CASE Main
      BY <1>1, MovesOn, LoadPluginPreserves, ServiceStarts, ResetServicePreserves, UnloadPreserves,
         ClosePreserves DEF Main
<1>2. CASE \E w \in Workers : (\E owner \in Owners : Call(w, owner)) \/ Return(w) \/ Signal(w)
      BY <1>2, CallPreserves, ReturnPreserves, SignalPreserves
<1>3. CASE StopService \/ StopperEnds
      BY <1>3, StopperPreserves
<1>4. CASE UNCHANGED vars
      BY <1>4 DEF vars, IInv, TypeOK, OnlyAcceptedRun, LoggerComesFirst, CodeStaysMapped,
         ApiComesLast, ServiceIsAround, UnloadingIsComplete, Accepted
<1>. QED BY <1>1, <1>2, <1>3, <1>4 DEF Next, Ended

LEMMA Invariance == Spec => []IInv
<1>. QED BY InitEstablishes, NextPreserves, PTL DEF Spec

-----------------------------------------------------------------------------
(* The variables of the server process keep their types, whatever files     *)
(* there are.                                                              *)
THEOREM TypeCorrect == Spec => []TypeOK
<1>1. IInv => TypeOK
      BY DEF IInv
<1>. QED BY <1>1, Invariance, PTL

(* No worker runs in unmapped code or on a destroyed API, the service       *)
(* outlives the thread that stops it, and the logger is there to be used.  *)
THEOREM NothingIsUsedAfterItsEnd == Spec => []NothingIsUsedWhenGone
<1>1. IInv => NothingIsUsedWhenGone
      BY DEF IInv, TypeOK, OnlyAcceptedRun, LoggerComesFirst, CodeStaysMapped, ApiComesLast,
         ServiceIsAround, NothingIsUsedWhenGone, Points, Starting, Leaving
<1>. QED BY <1>1, Invariance, PTL

(* No connection of the API's signal leads into a closed library.          *)
THEOREM ConnectionsEndInTime == Spec => []NoConnectionOutlivesItsCode
<1>1. IInv => NoConnectionOutlivesItsCode
      BY DEF IInv, TypeOK, OnlyAcceptedRun, CodeStaysMapped, UnloadingIsComplete,
         NoConnectionOutlivesItsCode
<1>. QED BY <1>1, Invariance, PTL

(* Of a library with another ABI tag only abi_tag() is ever called.        *)
THEOREM RefusalIsFinal == Spec => []RefusedPluginsNeverRun
<1>1. IInv => RefusedPluginsNeverRun
      BY LifecycleAssumption DEF IInv, OnlyAcceptedRun, RefusedPluginsNeverRun, Accepted
<1>. QED BY <1>1, Invariance, PTL

(* On every path out of main(), plugins are unloaded and closed and the API *)
(* is gone in the end.                                                     *)
THEOREM ExitsAreClean == Spec => []EveryExitIsClean
<1>1. IInv => EveryExitIsClean
      BY DEF IInv, TypeOK, CodeStaysMapped, ApiComesLast, UnloadingIsComplete, EveryExitIsClean
<1>. QED BY <1>1, Invariance, PTL

(* unload_plugin() finds the API and every initialised plugin's code.      *)
THEOREM UnloadingIsSafe == Spec => UnloadSeesEverything
<1>1. IInv /\ [Next]_vars => [unloaded' # unloaded => api /\ initialised \subseteq mapped]_vars
  <2>. SUFFICES ASSUME IInv, [Next]_vars, unloaded' # unloaded PROVE api /\ initialised \subseteq mapped
       OBVIOUS
  <2>1. \E p \in Plugins : UnloadPlugin(p)
        BY DEF Next, Main, ParseOptions, LoadKeys, LoadPlugin, LoadingEnds, CreateCertificate,
           MakeService, Publish, StartService, ServingEnds, Join, ResetService, UnloadingEnds,
           ClosePlugin, ClosingEnds, ResetApi, Call, Return, Signal, StopService, StopperEnds,
           Ended, MainWaits, vars
  <2>. QED BY <2>1 DEF UnloadPlugin, IInv, CodeStaysMapped, ApiComesLast
<1>. QED BY <1>1, Invariance, PTL DEF Spec, UnloadSeesEverything
=============================================================================
