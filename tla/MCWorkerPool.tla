------------------------------ MODULE MCWorkerPool ------------------------------
(* A small pool on machines of one, two and three nodes.                   *)
EXTENDS WorkerPool

Topology(m, c, custom) == [mode |-> m, cpus |-> [n \in 0 .. Len(c) - 1 |-> c[n + 1]],
                           custom |-> custom]

MCTopologies == {Topology("auto", <<2, 1>>, FALSE), Topology("none", <<3>>, FALSE),
                 Topology("explicit", <<1, 3, 2>>, TRUE)}
MCCounts     == 1 .. 5
=================================================================================
