------------------------------ MODULE Contract ------------------------------
(***************************************************************************)
(* What the engine asks of an executor (the docstring of                   *)
(* engine/executors.py): each task is told over exactly once, each of its  *)
(* chunks at most once and before that, and of a task that is DONE nothing *)
(* is left to tell.  A process that dies tells nothing more.               *)
(***************************************************************************)
CONSTANTS
  Tasks,    \* the tasks the engine gives it
  Chunks    \* the chunks they may have

VARIABLES
  state,    \* of each task: free, given, done, or over in another way
  has,      \* the chunks it was given with
  told      \* those it told of ahead

vars == <<state, has, told>>

Init ==
  /\ state = [t \in Tasks |-> "free"]
  /\ has = [t \in Tasks |-> {}]
  /\ told = [t \in Tasks |-> {}]

Give(t) ==
  /\ state[t] = "free"
  /\ state' = [state EXCEPT ![t] = "given"]
  /\ \E S \in SUBSET Chunks : S # {} /\ has' = [has EXCEPT ![t] = S]
  /\ UNCHANGED told

\* News of a task: some of its chunks ended, or it is over, or both.
News(t, now, ahead) ==
  /\ state[t] = "given"
  /\ told[t] \subseteq ahead /\ ahead \subseteq has[t]
  /\ now \in {"given", "over"} \/ (now = "done" /\ ahead = has[t])

\* A round of news may be of several tasks.
Tell ==
  /\ state' \in [Tasks -> {"free", "given", "done", "over"}] /\ told' \in [Tasks -> SUBSET Chunks]
  /\ \A t \in Tasks : (state'[t] = state[t] /\ told'[t] = told[t]) \/ News(t, state'[t], told'[t])
  /\ UNCHANGED has

\* The process is gone: what it was given is nobody's any more.
Die ==
  /\ state' = [t \in Tasks |-> IF state[t] = "given" THEN "over" ELSE state[t]]
  /\ UNCHANGED <<has, told>>

Next == (\E t \in Tasks : Give(t)) \/ Tell \/ Die
Spec == Init /\ [][Next]_vars
=============================================================================
