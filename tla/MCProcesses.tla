---------------------------- MODULE MCProcesses ----------------------------
(***************************************************************************)
(* Three tasks at most, on a machine with two cards: all of them on the    *)
(* pool, two on the host, or one on each; on threads here, or with Ray.    *)
(***************************************************************************)
EXTENDS Processes

MCTasks == 1 .. 3
Mix(first, second, third) == <<first, second, third>>
MCMixes == {Mix("pool", "pool", "pool"), Mix("host", "host", "none"), Mix("host", "pool", "none"),
            Mix("thread", "thread", "thread"), Mix("ray", "ray", "none")}
=============================================================================
