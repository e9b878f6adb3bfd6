SPECIFICATION Spec
CONSTANTS
    p1 = p1
    p2 = p2
    w1 = w1
    w2 = w2
    Plugins <- TwoPlugins
    Workers <- TwoWorkers
    Host = Host
    Nobody = Nobody
INVARIANTS
    TypeOK
    NothingIsUsedWhenGone
    NoConnectionOutlivesItsCode
    RefusedPluginsNeverRun
    EveryExitIsClean
PROPERTIES
    UnloadSeesEverything
    StopsInTheEnd
