----------------------------- MODULE MCVolumes ------------------------------
(***************************************************************************)
(* A group of two payloads and a payload of its own; a process with two    *)
(* threads that write, and one that reads and maintains.                   *)
(***************************************************************************)
EXTENDS Volumes

CONSTANTS g, h, p, q, z, t, u, y, A, B

MCParts == [n \in {g, h} |-> IF n = g THEN {p, q} ELSE {z}]
MCHome  == [x \in {t, u} |-> A]
MCWhere == [x \in {y} |-> B]
Writing == {x \in Txs : tx[x].pc # "idle"}
Busy    == {s \in Stores : keep[s].op # "none"}
\* Bound: a reader is at work beside transactions or beside maintenance, and two
\* transactions are open at once only while nothing else goes on.
AtOnce  == /\ (\E x \in Readers : reader[x].pc = "located") => Writing = {} \/ Busy = {}
           /\ Cardinality(Writing) > 1 => Busy = {}
\* The two threads do the same, and so do the two parts of the group.
MCSymmetry == {f @@ e : f \in Permutations({t, u}), e \in Permutations({p, q})}
=============================================================================
