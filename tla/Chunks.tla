------------------------------- MODULE Chunks -------------------------------
(***************************************************************************)
(* The chunks of the engine (engine/engine.py) from the moment their       *)
(* source gave them until they are counted: the loop thread hands them,    *)
(* several to a task, to one executor that can stop what it runs           *)
(* (`kills`), takes back what became of each task, runs failures again,    *)
(* and runs alone the chunks that were in flight when a worker died.       *)
(*                                                                         *)
(* The loop thread is the only one that writes this state.  What the       *)
(* executor, the delivery thread and the timers report are the inputs of   *)
(* the actions, in any order and at any moment: a superset of what their   *)
(* queues allow.  Priorities and the fair turn among jobs are left out for *)
(* the same reason: any job may be the next one to start a task.           *)
(***************************************************************************)
EXTENDS Integers, Sequences, FiniteSets, SequencesExt

CONSTANTS
  Jobs,      \* the jobs submitted to the executor; all of them read their source to its end
  Chunks,    \* the chunks of all of them
  Line,      \* the chunks of each job, in the order its source gave them
  JobOf,     \* the job of each chunk
  Cost,      \* the CPU tokens a chunk needs while it runs
  Cpus,      \* the CPU tokens the engine has
  MaxCpu,    \* the most CPU tokens a job holds at once (`max_cpu`)
  Capacity,  \* how many tasks the executor holds at once
  Window,    \* how many chunks of a job may be between dispatch and delivered result
  Batch,     \* how many chunks go to a task (`batch`)
  Batched,   \* whether the function takes the whole list of payloads of its task
  Retries    \* how many more times a chunk of each job that failed runs

ASSUME ChunksAssumption ==
  /\ JobOf \in [Chunks -> Jobs]
  /\ Line \in [Jobs -> Seq(Chunks) \ {<<>>}]
  /\ \A j \in Jobs : \A i, k \in DOMAIN Line[j] :
       JobOf[Line[j][i]] = j /\ (Line[j][i] = Line[j][k] => i = k)
  /\ \A c \in Chunks : Contains(Line[JobOf[c]], c)
  /\ Cost \in [Chunks -> Nat]
  /\ MaxCpu \in [Jobs -> Nat]
  /\ Cpus \in Nat
  /\ Capacity \in Nat \ {0}
  /\ Batch \in Nat \ {0}
  /\ Window \in Nat
  /\ Batch <= Window
  /\ Batched \in BOOLEAN
  /\ Retries \in [Jobs -> Nat]

VARIABLES
  status,      \* status of each job
  ready,       \* `job.ready`: the chunks of each job waiting to be started
  open,        \* `job.open`: its chunks between dispatch and outcome
  flying,      \* the tasks with the executor, by the place each takes of its capacity
  suspects,    \* `slot.suspects`: what was in flight when a worker died, to be run alone
  isolating,   \* `slot.isolating`: a suspect is running alone
  killing,     \* `slot.killing`: the executor was told to stop everything it runs
  free,        \* the free CPU tokens
  backoff,     \* chunks that failed and wait for the timer that requeues them
  delivering,  \* chunks whose result is on its way to the job's callback
  outcome,     \* what each chunk came to
  attempt,     \* `chunk.attempt`
  alone,       \* `chunk.alone`, as the last task the chunk headed left it
  doomed,      \* `chunk.doomed`, likewise
  ending,      \* the chunks of a task that came back, still to be told what became of them
  how          \* the task they were in, and how it came back

verdicts == <<status, open, outcome, attempt, backoff>>
marks    == <<alone, doomed>>
vars == <<status, ready, open, flying, suspects, isolating, killing, free, backoff, delivering,
          outcome, attempt, alone, doomed, ending, how>>

Lanes == 1 .. Capacity
Ended == {"completed", "completed_with_errors", "failed", "canceled"}
Ways  == {"DONE", "ERROR", "LOST"}
NoEnd == [s |-> "DONE", head |-> "none", alone |-> FALSE, doomed |-> FALSE]
Task  == [head : Chunks, left : Seq(Chunks), packed : BOOLEAN, alone : BOOLEAN,
          doomed : BOOLEAN, spared : BOOLEAN]

TypeOK ==
  /\ status \in [Jobs -> {"running"} \cup Ended]
  /\ ready \in [Jobs -> Seq(Chunks)]
  /\ open \in [Jobs -> Int]
  /\ DOMAIN flying \subseteq Lanes
  /\ flying \in [DOMAIN flying -> Task]
  /\ suspects \in Seq(Chunks)
  /\ isolating \in BOOLEAN /\ killing \in BOOLEAN
  /\ free \in Int
  /\ backoff \subseteq Chunks /\ delivering \subseteq Chunks
  /\ outcome \in [Chunks -> {"pending", "done", "failed"}]
  /\ attempt \in [Chunks -> Nat \ {0}]
  /\ \A c \in Chunks : attempt[c] <= Retries[JobOf[c]] + 1
  /\ alone \in [Chunks -> BOOLEAN] /\ doomed \in [Chunks -> BOOLEAN]
  /\ ending \in Seq(Chunks)
  /\ how \in [s : Ways, head : Chunks \cup {"none"}, alone : BOOLEAN, doomed : BOOLEAN]

Init ==
  /\ status = [j \in Jobs |-> "running"]
  /\ ready = Line
  /\ open = [j \in Jobs |-> 0]
  /\ flying = <<>>
  /\ suspects = <<>>
  /\ isolating = FALSE /\ killing = FALSE
  /\ free = Cpus
  /\ backoff = {} /\ delivering = {}
  /\ outcome = [c \in Chunks |-> "pending"]
  /\ attempt = [c \in Chunks |-> 1]
  /\ alone = [c \in Chunks |-> FALSE] /\ doomed = [c \in Chunks |-> FALSE]
  /\ ending = <<>> /\ how = NoEnd

-----------------------------------------------------------------------------
(* Helpers *)

\* `slot.inflight`
Inflight == Cardinality(DOMAIN flying)

TasksOf(j) == {l \in DOMAIN flying : JobOf[flying[l].head] = j}

\* `job.cpu_used`
CpuUsed(j) == MapThenSumSet(LAMBDA l : Cost[flying[l].head], TasksOf(j))

EverFits(c) == Cost[c] <= Cpus
Fits(c)     == Cost[c] <= free

\* Does the cap of its job let the chunk in?  One above the cap runs alone in its job.
UnderCap(c) ==
  LET j == JobOf[c] IN CpuUsed(j) = 0 \/ CpuUsed(j) + Cost[c] <= MaxCpu[j]

\* Mutant: other tasks may start while a suspect runs.
SlotOpenBesideSuspect == suspects = <<>> /\ ~killing /\ Inflight < Capacity

\* May a task start on the executor at all?
SlotOpen == suspects = <<>> /\ ~isolating /\ ~killing /\ Inflight < Capacity

\* The loop is between two events: nothing of the last one is left to do.
LoopFree == ending = <<>>

\* A place of the executor that is not taken.
NextLane == CHOOSE l \in Lanes : l \notin DOMAIN flying

-----------------------------------------------------------------------------
(* What became of a chunk *)

\* `_finish_if_over`, for a job of which `line` is ready and `n` chunks are open, given what
\* its chunks came to.
FinishIfOver(j, line, n, came) ==
  LET All(what) == {c \in Chunks : JobOf[c] = j /\ came[c] = what}
  IN  status' = [status EXCEPT ![j] =
        IF line # <<>> \/ n # 0       THEN @
        ELSE IF All("failed") = {}    THEN "completed"
        ELSE IF All("done") = {}      THEN "failed"
        ELSE "completed_with_errors"]

\* `_settle` for a job that runs: the chunk is counted and forgotten.
Settle(c, what) ==
  LET j == JobOf[c]
  IN  /\ open' = [open EXCEPT ![j] = @ - 1]
      /\ outcome' = [outcome EXCEPT ![c] = what]
      /\ FinishIfOver(j, ready[j], open[j] - 1, outcome')

\* Mutant: one attempt more than the job asked for.
RunsOnceMore(c) == attempt[c] <= Retries[JobOf[c]] + 1

\* Does the chunk still have an attempt left?
RunsAgain(c) == attempt[c] <= Retries[JobOf[c]]

AttemptFailed(c) ==
  /\ \/ /\ ~RunsAgain(c)
        /\ Settle(c, "failed")
        /\ UNCHANGED <<attempt, backoff>>
     \/ /\ RunsAgain(c)
        /\ attempt' = [attempt EXCEPT ![c] = @ + 1]
        /\ backoff' = backoff \cup {c}
        /\ UNCHANGED <<status, open, outcome>>

\* Mutant: every chunk that falls with a worker is charged for it.
AnyDeath(wasAlone) == TRUE

\* Was it this chunk that the worker died of?
OwnDeath(wasAlone) == wasAlone

\* `_chunk_ended`: a chunk came back as `s`, marked as having run alone or as stopped for
\* running late.
ChunkEnded(c, s, wasAlone, wasDoomed) ==
  \/ /\ s = "DONE"
     /\ delivering' = delivering \cup {c}
     /\ UNCHANGED <<verdicts, suspects>>
  \/ /\ s = "LOST" /\ wasDoomed
     /\ AttemptFailed(c)
     /\ UNCHANGED <<delivering, suspects>>
  \/ /\ s = "LOST" /\ ~wasDoomed /\ ~OwnDeath(wasAlone)
     /\ suspects' = Append(suspects, c)
     /\ UNCHANGED <<verdicts, delivering>>
  \/ /\ s = "LOST" /\ ~wasDoomed /\ OwnDeath(wasAlone)
     /\ AttemptFailed(c)
     /\ UNCHANGED <<delivering, suspects>>
  \/ /\ s = "ERROR"
     /\ AttemptFailed(c)
     /\ UNCHANGED <<delivering, suspects>>

-----------------------------------------------------------------------------
(* The dispatch pass *)

\* `_launch`: a task with these chunks goes to the executor.
Launch(members, packed, byItself) ==
  LET l == NextLane
      t == [head |-> Head(members), left |-> members, packed |-> packed, alone |-> byItself,
            doomed |-> FALSE, spared |-> FALSE]
  IN  /\ flying' = [k \in DOMAIN flying \cup {l} |-> IF k = l THEN t ELSE flying[k]]
      /\ free' = free - Cost[t.head]
      /\ isolating' = byItself

\* The first `n` ready chunks of a job may share a task: they need the same.
Packs(j, n) ==
  /\ n <= Len(ready[j])
  /\ open[j] + n <= Window
  /\ \A i \in 1 .. n : Cost[ready[j][i]] = Cost[ready[j][1]]

\* `_start_one`: the next task of a job, with as many chunks as may share it.
StartTask(j) ==
  /\ LoopFree
  /\ status[j] = "running" /\ ready[j] # <<>> /\ open[j] < Window
  /\ SlotOpen
  /\ EverFits(Head(ready[j])) /\ Fits(Head(ready[j])) /\ UnderCap(Head(ready[j]))
  /\ \E n \in 1 .. Batch :
       /\ Packs(j, n) /\ (n = Batch \/ ~Packs(j, n + 1))
       /\ Launch(SubSeq(ready[j], 1, n), n > 1 \/ Batched, FALSE)
       /\ ready' = [ready EXCEPT ![j] = SubSeq(@, n + 1, Len(@))]
       /\ open' = [open EXCEPT ![j] = @ + n]
  /\ UNCHANGED <<status, suspects, killing, backoff, delivering, outcome, attempt, marks,
                 ending, how>>

\* `_start_one` for a chunk that needs more than there is: it fails there and then.
RefuseChunk(j) ==
  /\ LoopFree
  /\ status[j] = "running" /\ ready[j] # <<>> /\ open[j] < Window
  /\ SlotOpen
  /\ ~EverFits(Head(ready[j]))
  /\ ready' = [ready EXCEPT ![j] = Tail(@)]
  /\ outcome' = [outcome EXCEPT ![Head(ready[j])] = "failed"]
  /\ FinishIfOver(j, Tail(ready[j]), open[j], outcome')
  /\ UNCHANGED <<open, flying, suspects, isolating, killing, free, backoff, delivering,
                 attempt, marks, ending, how>>

\* `_retry_suspect`: the oldest suspect runs with nothing else on the executor.
RetrySuspect ==
  /\ LoopFree
  /\ suspects # <<>> /\ DOMAIN flying = {}
  /\ LET c == Head(suspects)
     IN  /\ status[JobOf[c]] = "running"
         /\ Fits(c)
         /\ Launch(<<c>>, Batched, TRUE)
  /\ suspects' = Tail(suspects)
  /\ UNCHANGED <<verdicts, ready, killing, delivering, marks, ending, how>>

\* Mutant: the suspects of a job that was stopped stay in line.
KeepSuspect == FALSE

\* `_retry_suspect` for a suspect whose job was stopped meanwhile.
DropSuspect ==
  /\ LoopFree
  /\ suspects # <<>> /\ DOMAIN flying = {}
  /\ status[JobOf[Head(suspects)]] # "running"
  /\ suspects' = Tail(suspects)
  /\ UNCHANGED <<verdicts, ready, flying, isolating, killing, free, delivering, marks,
                 ending, how>>

-----------------------------------------------------------------------------
(* What the executor, the delivery thread, the timers and the callers tell the loop *)

\* The tokens a task that came back gives.
Given(l) == Cost[flying[l].head]

\* Is the executor still stopping what it runs, once this task came back?
KillingAfter(l) == killing /\ DOMAIN flying # {l}

\* Did the task fall with a chunk the engine stopped, for no fault of its own?
Spares(l, s) == s = "LOST" /\ flying[l].spared

\* `_on_done`: a task came back as `s`.  What is left of one that was spared goes to the head
\* of the line; what is left of any other is told chunk by chunk (`ChunkEnds`).
TaskDone(l, s) ==
  LET t == flying[l]
      j == JobOf[t.head]
      runs == status[j] = "running"
  IN  /\ LoopFree
      /\ flying' = [k \in DOMAIN flying \ {l} |-> flying[k]]
      /\ isolating' = (isolating /\ ~t.alone)
      /\ killing' = KillingAfter(l)
      /\ free' = free + Given(l)
      /\ \/ /\ ~runs
            /\ UNCHANGED <<ready, open, marks, ending, how>>
         \/ /\ runs /\ Spares(l, s)
            /\ ready' = [ready EXCEPT ![j] = t.left \o @]
            /\ open' = [open EXCEPT ![j] = @ - Len(t.left)]
            /\ alone' = [alone EXCEPT ![t.head] = IF Contains(t.left, t.head) THEN t.alone ELSE @]
            /\ doomed' = [doomed EXCEPT ![t.head] = IF Contains(t.left, t.head) THEN FALSE ELSE @]
            /\ UNCHANGED <<ending, how>>
         \/ /\ runs /\ ~Spares(l, s)
            /\ ending' = t.left
            /\ how' = IF t.left = <<>> THEN NoEnd
                      ELSE [s |-> s, head |-> t.head, alone |-> t.alone, doomed |-> t.doomed]
            /\ alone' = [alone EXCEPT ![t.head] = IF Contains(t.left, t.head) THEN t.alone ELSE @]
            /\ doomed' = [doomed EXCEPT ![t.head] =
                            IF Contains(t.left, t.head) THEN t.doomed /\ (s = "DONE" \/ ~t.packed) ELSE @]
            /\ UNCHANGED <<ready, open>>
      /\ UNCHANGED <<status, suspects, backoff, delivering, outcome, attempt>>

\* The rest of `_on_done`, a chunk at a time: a task that ran says of each of its chunks
\* whether it raised, any other status speaks for all of them.
ChunkEnds ==
  /\ ending # <<>>
  /\ \E s \in IF how.s = "DONE" THEN {"DONE", "ERROR"} ELSE {how.s} :
       ChunkEnded(Head(ending), s, alone[Head(ending)], doomed[Head(ending)])
  /\ ending' = Tail(ending)
  /\ how' = IF Tail(ending) = <<>> THEN NoEnd ELSE how
  /\ UNCHANGED <<ready, flying, isolating, killing, free, marks>>

\* What is left of a task once the chunk at `i` ended.
LeftWithout(l, i) == RemoveAt(flying[l].left, i)

\* `_on_part`: a chunk ended ahead of its task.  The one the task goes by is replaced by a
\* twin that bears no mark.
PartDone(l, i, s) ==
  LET t == flying[l]
      c == t.left[i]
  IN  /\ LoopFree
      /\ status[JobOf[c]] = "running" /\ t.packed
      /\ flying' = [flying EXCEPT ![l].left = LeftWithout(l, i)]
      /\ alone' = [alone EXCEPT ![c] = @ /\ c # t.head]
      /\ doomed' = [doomed EXCEPT ![c] = @ /\ c # t.head]
      /\ ChunkEnded(c, s, alone'[c], doomed'[c])
      /\ UNCHANGED <<ready, isolating, killing, free, ending, how>>

\* Mutant: a chunk that goes back in line still counts as open.
RequeueStillOpen(c) ==
  /\ LoopFree
  /\ c \in backoff
  /\ backoff' = backoff \ {c}
  /\ LET j == JobOf[c] IN
     ready' = IF status[j] = "running" THEN [ready EXCEPT ![j] = <<c>> \o @] ELSE ready
  /\ UNCHANGED <<status, open, flying, suspects, isolating, killing, free, delivering, outcome,
                 attempt, marks, ending, how>>

\* The timer of a chunk that failed: `_requeue`, back to the head of the line.
Requeue(c) ==
  /\ LoopFree
  /\ c \in backoff
  /\ backoff' = backoff \ {c}
  /\ LET j == JobOf[c] IN
     \/ /\ status[j] = "running"
        /\ ready' = [ready EXCEPT ![j] = <<c>> \o @]
        /\ open' = [open EXCEPT ![j] = @ - 1]
     \/ /\ status[j] # "running"
        /\ UNCHANGED <<ready, open>>
  /\ UNCHANGED <<status, flying, suspects, isolating, killing, free, delivering, outcome,
                 attempt, marks, ending, how>>

\* `_on_delivered`: the callback took the result, or raised.  A result it took after its job
\* was stopped counts as well (`_settle`).
Delivered(c, what) ==
  /\ LoopFree
  /\ c \in delivering
  /\ delivering' = delivering \ {c}
  /\ LET j == JobOf[c] IN
     \/ /\ status[j] = "running"
        /\ Settle(c, what)
     \/ /\ status[j] # "running"
        /\ outcome' = IF what = "done" THEN [outcome EXCEPT ![c] = what] ELSE outcome
        /\ UNCHANGED <<status, open>>
  /\ UNCHANGED <<ready, flying, suspects, isolating, killing, free, backoff, attempt, marks,
                 ending, how>>

\* `_kill`: everything on the executor is stopped.  The tasks of the running jobs that nobody
\* meant to stop are spared.
Kill(late, running) ==
  /\ killing' = TRUE
  /\ flying' = [l \in DOMAIN flying |->
       LET t == flying[l]
           doom == t.doomed \/ l \in late
       IN  [t EXCEPT !.doomed = doom,
                     !.spared = IF JobOf[t.head] \in running THEN ~doom ELSE @]]

\* `_watch`: these tasks of a job ran past its time limit.
TimeOut(j, late) ==
  /\ LoopFree
  /\ status[j] = "running"
  /\ late # {} /\ late \subseteq TasksOf(j)
  /\ Kill(late, {k \in Jobs : status[k] = "running"})
  /\ UNCHANGED <<verdicts, ready, suspects, isolating, free, delivering, marks, ending, how>>

\* `_on_stop_job` for `cancel`: the job ends, and what it was running is stopped.
Cancel(j) ==
  /\ LoopFree
  /\ status[j] = "running"
  /\ status' = [status EXCEPT ![j] = "canceled"]
  /\ ready' = [ready EXCEPT ![j] = <<>>]
  /\ \/ /\ TasksOf(j) = {}
        /\ UNCHANGED <<flying, killing>>
     \/ /\ TasksOf(j) # {}
        /\ Kill({}, {k \in Jobs : status'[k] = "running"})
  /\ UNCHANGED <<open, suspects, isolating, free, backoff, delivering, outcome, attempt, marks,
                 ending, how>>

-----------------------------------------------------------------------------

Next ==
  \/ \E j \in Jobs : StartTask(j) \/ RefuseChunk(j) \/ Cancel(j)
  \/ RetrySuspect
  \/ DropSuspect
  \/ ChunkEnds
  \/ \E l \in DOMAIN flying, s \in Ways : TaskDone(l, s)
  \/ \E l \in DOMAIN flying : \E i \in DOMAIN flying[l].left, s \in {"DONE", "ERROR"} :
       PartDone(l, i, s)
  \/ \E c \in Chunks : Requeue(c)
  \/ \E c \in Chunks, what \in {"done", "failed"} : Delivered(c, what)
  \/ \E j \in Jobs : \E late \in SUBSET DOMAIN flying : TimeOut(j, late)

\* The loop dispatches after every event, an executor answers for every task it was given
\* (its contract: `on_done` exactly once), timers are due and the delivery thread works its
\* queue.  Nobody has to cancel, run late, raise or die.
Fairness ==
  /\ \A j \in Jobs : WF_vars(StartTask(j)) /\ WF_vars(RefuseChunk(j))
  /\ WF_vars(RetrySuspect)
  /\ WF_vars(DropSuspect)
  /\ WF_vars(ChunkEnds)
  /\ \A l \in Lanes : WF_vars(l \in DOMAIN flying /\ \E s \in Ways : TaskDone(l, s))
  /\ \A c \in Chunks : WF_vars(Requeue(c))
  /\ \A c \in Chunks : WF_vars(\E what \in {"done", "failed"} : Delivered(c, what))

Spec == Init /\ [][Next]_vars /\ Fairness

-----------------------------------------------------------------------------
(* Safety *)

\* Everywhere a chunk is, in the line, with the executor, or between the two.
PlacesOf(c) ==
     {<<"ready", i>> : i \in {i \in DOMAIN ready[JobOf[c]] : ready[JobOf[c]][i] = c}}
  \cup {<<"suspect", i>> : i \in {i \in DOMAIN suspects : suspects[i] = c}}
  \cup {<<"ending", i>> : i \in {i \in DOMAIN ending : ending[i] = c}}
  \cup (UNION {{<<"flying", l, i>> : i \in {i \in DOMAIN flying[l].left : flying[l].left[i] = c}} :
               l \in DOMAIN flying})
  \cup {<<"backoff">> : x \in {c} \cap backoff}
  \cup {<<"delivering">> : x \in {c} \cap delivering}

\* `job.open`, kept by hand in six places, is the number of chunks that left the line and are
\* not counted yet: what the window is measured with and what the end of the job waits for.
OpenCounts ==
  \A j \in Jobs : status[j] = "running" =>
    open[j] = Cardinality({c \in Chunks : /\ JobOf[c] = j /\ outcome[c] = "pending"
                                          /\ ~Contains(ready[j], c)})

\* A suspect runs with nothing else on the executor, so that the next death tells who died
\* (`_retry_suspect`), and the mark that keeps others out stays exactly as long as it runs.  An
\* executor being stopped takes nothing new, and only a task that comes back lifts that (`_kill`,
\* `_on_done`): so some task is always still to come back.
Isolation ==
  /\ isolating <=> \E l \in DOMAIN flying : flying[l].alone
  /\ isolating => Inflight = 1
  /\ killing => DOMAIN flying # {}

\* The tokens that are free and the ones the tasks hold are the ones the engine has, whatever
\* became of the jobs that took them.
TokensBalance ==
  /\ free >= 0
  /\ free + MapThenSumSet(LAMBDA l : Cost[flying[l].head], DOMAIN flying) = Cpus

\* A job holds more CPUs than its `max_cpu` only while a single task of it holds any.
CapKept ==
  \A j \in Jobs : CpuUsed(j) > MaxCpu[j] =>
    Cardinality({l \in TasksOf(j) : Cost[flying[l].head] > 0}) = 1

\* However tasks are packed, lost, killed, requeued and told of in parts, each chunk of a
\* running job is in exactly one place until it is counted, and in none afterwards
\* (`_on_done`, `_on_part`, `_requeue`, `_settle`): none is lost and none runs twice at once.
NoChunkLost ==
  \A c \in Chunks : status[JobOf[c]] = "running" =>
    Cardinality(PlacesOf(c)) = IF outcome[c] = "pending" THEN 1 ELSE 0

\* No chunk is lost or in two places, and what is counted by hand where chunks leave, come back
\* and end is what there is to count, after any sequence of kills, deaths, cancels and retries.
Accounts == NoChunkLost /\ OpenCounts /\ TokensBalance /\ CapKept

-----------------------------------------------------------------------------
(* What a step may never do *)

\* This step charges the chunk an attempt.
Charges(c) == attempt'[c] # attempt[c] \/ (outcome[c] = "pending" /\ outcome'[c] = "failed")

\* The task the chunk was in, if it was lost, ran alone or was stopped for running late.
Deserved == how.s = "LOST" => how.alone \/ how.doomed

\* `submit` promises that falling with somebody else's worker costs a chunk nothing (engine.py,
\* 391).  The code keeps it but for a chunk that ran alone before and now travels in the task of
\* another: the chunk a task goes by, and any chunk in its first attempt, is never charged for a death it was not alone in nor for a time limit it did not break,
\* whatever was packed with it, killed beside it or told ahead of it (`_on_done`, `_kill`).
HeadChargedForItsOwn ==
  [][\A c \in Chunks :
       ending # <<>> /\ Charges(c) /\ (c = how.head \/ attempt[c] = 1) => Deserved]_vars

-----------------------------------------------------------------------------
(* Liveness *)

\* However often workers die, chunks raise or run late, every job ends: a death charges
\* nobody the first time, so this is what running suspects alone, the retry limit and lifting
\* every bar on the executor come to.
JobsEnd == <>(\A j \in Jobs : status[j] # "running")
=============================================================================
