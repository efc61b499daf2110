------------------------------ MODULE MCChunks ------------------------------
(***************************************************************************)
(* Two jobs on one executor that holds two tasks.  The first job packs its *)
(* two chunks in one task when it can, gives a failure another attempt and *)
(* may hold one CPU; the second has a chunk that needs more than there is  *)
(* and one that is a bystander to every kill and every death.              *)
(***************************************************************************)
EXTENDS Chunks

CONSTANTS j1, j2, c1, c2, c3, c4

MCJobs    == {j1, j2}
MCChunks  == {c1, c2, c3, c4}
MCLine    == [j \in MCJobs |-> IF j = j1 THEN <<c1, c2>> ELSE <<c4, c3>>]
MCJobOf   == [x \in MCChunks |-> IF x \in {c3, c4} THEN j2 ELSE j1]
MCCost    == [x \in MCChunks |-> IF x = c4 THEN 3 ELSE 1]
MCMaxCpu  == [j \in MCJobs |-> IF j = j1 THEN 1 ELSE 2]
MCRetries == [j \in MCJobs |-> IF j = j1 THEN 1 ELSE 0]
=============================================================================
