------------------------------- MODULE Vault --------------------------------
(***************************************************************************)
(* What the payload store promises to the tables of a project: a payload   *)
(* is there, whole, from the commit of the transaction that stored it to   *)
(* the commit that deletes its row, and only a payload no table refers to  *)
(* is deleted.  Transactions that fail, processes that die, recovery,      *)
(* repair and compaction show in none of it.                               *)
(***************************************************************************)
CONSTANTS
  Ids,     \* the payloads
  Nothing  \* what an id that holds nothing holds

VARIABLES
  kept,    \* the bytes each id gives when it is read
  refs     \* the ids the tables of the project refer to

vars == <<kept, refs>>

Init ==
  /\ kept = [p \in Ids |-> Nothing]
  /\ refs = {}

\* Rows and the payloads they refer to are committed as one.
Keep(S, bytes) ==
  /\ \A p \in S : kept[p] = Nothing /\ bytes[p] # Nothing
  /\ kept' = [p \in Ids |-> IF p \in S THEN bytes[p] ELSE kept[p]]
  /\ refs' = refs \cup S

Forget(p) ==
  /\ p \in refs
  /\ refs' = refs \ {p}
  /\ UNCHANGED kept

Refer(p) ==
  /\ kept[p] # Nothing
  /\ refs' = refs \cup {p}
  /\ UNCHANGED kept

Drop(S) ==
  /\ S \cap refs = {}
  /\ kept' = [p \in Ids |-> IF p \in S THEN Nothing ELSE kept[p]]
  /\ UNCHANGED refs

\* What each id is to hold is up to the caller: the bytes are fixed by Spec's user.
Next(Bytes) ==
  \/ \E S \in SUBSET Ids : Keep(S, Bytes) \/ Drop(S)
  \/ \E p \in Ids : Forget(p) \/ Refer(p)
=============================================================================
