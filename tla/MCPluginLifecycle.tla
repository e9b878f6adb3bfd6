-------------------------- MODULE MCPluginLifecycle --------------------------
(* An instance of PluginLifecycle.tla for TLC: two files of any kind, two   *)
(* workers.                                                                *)
EXTENDS PluginLifecycle

CONSTANTS p1, p2,  \* files
          w1, w2   \* workers

TwoPlugins == {p1, p2}
TwoWorkers == {w1, w2}
=============================================================================
