------------------------------- MODULE Ledger -------------------------------
(***************************************************************************)
(* What the engine promises of a job that goes by a key in a journal,      *)
(* however many runs and processes it takes: the job is over only once     *)
(* every chunk was taken by its callback or failed, nothing is handed to   *)
(* the callback after that, and a chunk that was taken is handed over      *)
(* again only if a crash or a write that failed came in between.           *)
(***************************************************************************)
EXTENDS Integers

CONSTANT Chunks  \* the chunks the source of the job gives

VARIABLES
  taken,   \* how often each chunk was taken by the callback
  failed,  \* the chunks that failed for good in the run that is on
  lapses,  \* how many crashes and failed writes there were
  over     \* the job is on record as completed

vars == <<taken, failed, lapses, over>>

Init ==
  /\ taken = [c \in Chunks |-> 0]
  /\ failed = {}
  /\ lapses = 0
  /\ over = FALSE

Take(c) ==
  /\ ~over
  /\ taken[c] <= lapses
  /\ taken' = [taken EXCEPT ![c] = @ + 1]
  /\ UNCHANGED <<failed, lapses, over>>

Fail(c) ==
  /\ ~over
  /\ failed' = failed \cup {c}
  /\ UNCHANGED <<taken, lapses, over>>

\* The run is stopped, or over and no longer remembered: its failures were its own.
Forget ==
  /\ failed' = {}
  /\ UNCHANGED <<taken, lapses, over>>

Lapse ==
  /\ lapses' = lapses + 1
  /\ failed' \in {failed, {}}
  /\ UNCHANGED <<taken, over>>

Complete ==
  /\ ~over
  /\ \A c \in Chunks : taken[c] > 0 \/ c \in failed
  /\ over' = TRUE
  /\ UNCHANGED <<taken, failed, lapses>>

\* The job is given up: what it had done is forgotten.
Discard ==
  /\ taken' = [c \in Chunks |-> 0]
  /\ over' = FALSE
  /\ UNCHANGED <<failed, lapses>>

Next ==
  \/ \E c \in Chunks : Take(c) \/ Fail(c)
  \/ Forget \/ Lapse \/ Complete \/ Discard

Spec == Init /\ [][Next]_vars
=============================================================================
