----------------------------- MODULE MCPipeline -----------------------------
(* Small systems for TLC.                                                  *)
EXTENDS Pipeline

CONSTANTS r1, w1, w2, a, b, c

\* Two packets of the first plugin and one of the second, or of nobody.
PluginOfTwo == a :> 1 @@ b :> 1 @@ c :> 2
PluginOfSome == a :> 1 @@ b :> 1 @@ c :> 0

\* Each plugin on a worker of its own; both on the same worker; the only plugin
\* on two workers.
OwnCores == 1 :> {w1} @@ 2 :> {w2}
OneCore == 1 :> {w1} @@ 2 :> {w1}
SharedPlugin == 1 :> {w1, w2}
=============================================================================
