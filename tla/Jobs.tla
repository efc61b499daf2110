-------------------------------- MODULE Jobs --------------------------------
(***************************************************************************)
(* The jobs of an engine (engine/engine.py) from `submit` to the moment    *)
(* `wait` returns: callers submit and cancel them, the loop thread starts  *)
(* them once the ones they come after ended well, ends them and what       *)
(* depends on them, the delivery thread runs their `on_finish` and         *)
(* announces their end, and one thread that owns the engine detaches its   *)
(* journal and closes it.  They are submitted through a Flow               *)
(* (engine/flow.py), which lets a job that reads a table come after those  *)
(* that write it.                                                          *)
(*                                                                         *)
(* How a running job comes to its end (modules Chunks and Feed) is one     *)
(* step here.  The calls the loop makes from inside a call are kept in a   *)
(* stack, because lists the code made before a nested call are used after  *)
(* it.  The other threads neither write what these calls read nor read,    *)
(* before the event is over, what would make a difference to them, so the  *)
(* calls of one event are taken without a break.                           *)
(***************************************************************************)
EXTENDS Integers, Sequences, FiniteSets, SequencesExt

CONSTANTS
  Jobs,       \* the ids of the jobs, in the order they are given out
  Tables,     \* the tables they read and write
  Requests,   \* what they may be submitted with: earlier jobs to come after, tables to read
  Writes,     \* the tables the sink of each job writes
  Remembered, \* `_REMEMBERED`: how many ended jobs the engine knows of
  HasFinish,  \* the jobs with an `on_finish`
  Journaled,  \* the jobs recorded in the journal
  Unwanted    \* bound: the jobs somebody may cancel, once each

ASSUME JobsAssumption ==
  /\ Jobs \in SUBSET Nat
  /\ Requests \in SUBSET [Jobs -> [after : SUBSET Jobs, reads : SUBSET Tables]]
  /\ Requests # {}
  /\ \A q \in Requests : \A j \in Jobs : \A d \in q[j].after : d < j
  /\ Writes \in [Jobs -> SUBSET Tables]
  /\ Remembered \in Nat
  /\ HasFinish \in SUBSET Jobs
  /\ Journaled \in SUBSET Jobs
  /\ Unwanted \in SUBSET Jobs

VARIABLES
  asked,       \* what each job is submitted with
  after,       \* `job.after`
  status,      \* `job.status`
  submitting,  \* the job whose `submit` has the lock of the flow (`_lock`)
  queued,      \* the jobs whose `submit` told the loop
  writing,     \* `_writing`: the jobs whose tables others wait for
  unwanted,    \* jobs somebody may still cancel
  raced,       \* jobs the loop was told of when the engine was closed already
  attached,    \* the journal is attached
  closed,      \* `_closed`
  jobs,        \* `_jobs`
  ended,       \* `_ended`, in the order they were announced
  waiting,     \* the jobs in `_waiting`, which is in the order of their ids
  active,      \* the jobs in `_active`
  started,     \* jobs the loop started
  early,       \* jobs that ended before the loop heard of their `submit`: their `chunks` are gone
  finishing,   \* jobs with their `on_finish` on its way (`job.finishing`)
  ran,         \* what became of the `on_finish` of each job
  events,      \* what waits for the loop
  calls,       \* what the loop has left to do of the event it is at, the innermost call first
  looping,     \* the loop thread lives
  deliveries,  \* what waits for the delivery thread
  at,          \* what the delivery thread is at
  noted,       \* the event `_announce` waits for
  announced,   \* how often each job was announced
  finished,    \* `job.finished`: `wait` returns
  told,        \* the event `detach` waits for
  owner        \* where the thread that detaches and closes is

callers   == <<asked, after, submitting, queued, unwanted, raced>>
registry  == <<jobs, ended, finished, announced, writing>>
loopState == <<waiting, active, started, finishing>>
owning    == <<attached, closed, owner>>
vars == <<callers, status, owning, registry, loopState, early, ran, events, calls, looping, deliveries, at,
          noted, told>>

Ended     == {"completed", "failed", "canceled", "interrupted"}
Badly     == Ended \ {"completed"}
Resumable == {"canceled", "interrupted"}
Alive     == {"waiting", "running"}

Item(op, j, s) == [op |-> op, job |-> j, s |-> s]
NoJob  == -1
Bare(op)       == Item(op, NoJob, "none")
OfJob(op, j)   == Item(op, j, "none")
Nothing == Bare("nothing")

Items(ops) == [op : ops, job : Jobs \cup {NoJob}, s : {"none", "ok", "raised"} \cup Ended]

TypeOK ==
  /\ asked \in Requests /\ after \in [Jobs -> SUBSET Jobs] /\ writing \subseteq Jobs
  /\ status \in [Jobs -> {"new"} \cup Alive \cup Ended]
  /\ submitting \subseteq Jobs /\ queued \subseteq Jobs /\ unwanted \subseteq Jobs /\ raced \subseteq Jobs
  /\ attached \in BOOLEAN /\ closed \in BOOLEAN /\ looping \in BOOLEAN
  /\ jobs \subseteq Jobs /\ finished \subseteq Jobs
  /\ ended \in Seq(Jobs) /\ IsInjective(ended) /\ Len(ended) <= Remembered
  /\ waiting \subseteq Jobs /\ active \cap waiting = {}
  /\ active \subseteq started /\ started \subseteq Jobs /\ early \subseteq Jobs /\ finishing \subseteq Jobs
  /\ ran \in [Jobs -> {"no", "ok", "raised"}]
  /\ events \in Seq(Items({"submit", "stop", "finished", "noted", "detach", "told", "close", "end"}))
  /\ calls \in Seq(Items({"look", "rest", "stop", "tell"}))
  /\ deliveries \in Seq(Items({"finish", "announce", "told", "end"}))
  /\ at \in Items({"nothing", "noting", "letting", "gone"})
  /\ noted \in BOOLEAN /\ told \in BOOLEAN
  /\ announced \in [Jobs -> Nat]
  /\ owner \in {"idle", "detaching", "settling", "detached", "closing", "joining", "draining", "closed"}

Init ==
  /\ asked \in Requests /\ after = [j \in Jobs |-> {}] /\ writing = {}
  /\ status = [j \in Jobs |-> "new"]
  /\ submitting = {} /\ queued = {} /\ unwanted = Unwanted /\ raced = {}
  /\ attached = TRUE /\ closed = FALSE /\ looping = TRUE
  /\ jobs = {} /\ ended = <<>> /\ finished = {}
  /\ announced = [j \in Jobs |-> 0]
  /\ waiting = {} /\ active = {} /\ started = {} /\ early = {} /\ finishing = {}
  /\ ran = [j \in Jobs |-> "no"]
  /\ events = <<>> /\ calls = <<>> /\ deliveries = <<>>
  /\ at = Nothing
  /\ noted = FALSE /\ told = FALSE
  /\ owner = "idle"

Tell(item) == events' = Append(events, item)
Deliver(item) == deliveries' = Append(deliveries, item)

-----------------------------------------------------------------------------
(* Callers *)

\* The jobs that may still write what `j` reads.
WritersFor(j) == {i \in writing : Writes[i] \cap asked[j].reads # {}}

\* `Flow.submit` takes its lock, adds the jobs to wait for, and `submit` looks whether the engine is
\* closed, knows what is named and has the journal attached...
SubmitBegins(j) ==
  /\ status[j] = "new" /\ submitting = {}
  /\ \A i \in Jobs : i < j => status[i] # "new"
  /\ ~closed
  /\ asked[j].after \subseteq jobs \cup ToSet(ended)
  /\ j \in Journaled => attached
  /\ submitting' = {j}
  /\ after' = [after EXCEPT ![j] = asked[j].after \cup WritersFor(j)]
  /\ UNCHANGED <<asked, queued, unwanted, raced, status, owning, registry, loopState, early, ran, events, calls,
                 looping, deliveries, at, noted, told>>

\* ... registers the job some steps later, from when on others find it...
Registers(j) ==
  /\ j \in submitting /\ status[j] = "new"
  /\ status' = [status EXCEPT ![j] = IF after[j] = {} THEN "running" ELSE "waiting"]
  /\ jobs' = jobs \cup {j}
  /\ UNCHANGED <<callers, writing, owning, ended, finished, announced, loopState, early, ran, events, calls, looping,
                 deliveries, at, noted, told>>

\* ... tells the loop...
Submits(j) ==
  /\ j \in submitting \ queued /\ status[j] # "new"
  /\ queued' = queued \cup {j}
  /\ raced' = IF closed THEN raced \cup {j} ELSE raced
  /\ Tell(OfJob("submit", j))
  /\ UNCHANGED <<asked, after, submitting, unwanted, status, owning, registry, loopState, early, ran, calls, looping,
                 deliveries, at, noted, told>>

\* ... and the flow takes note of what it writes.
Records(j) ==
  /\ j \in submitting \cap queued
  /\ writing' = writing \cup {j} /\ submitting' = {}
  /\ UNCHANGED <<asked, after, queued, unwanted, raced, status, owning, jobs, ended, finished, announced, loopState, early, ran,
                 events, calls, looping, deliveries, at, noted, told>>

\* `cancel`, of a job the engine has not let go of.
Cancel(j) ==
  /\ j \in jobs \cap unwanted
  /\ unwanted' = unwanted \ {j}
  /\ Tell(Item("stop", j, "canceled"))
  /\ UNCHANGED <<asked, after, submitting, queued, raced, status, owning, registry, loopState, early, ran, calls, looping,
                 deliveries, at, noted, told>>

-----------------------------------------------------------------------------
(* The thread that owns the engine *)

ofOthers == <<callers, status, registry, loopState, early, ran, calls, looping, at, noted>>

\* `detach`: the jobs of the journal are interrupted...
DetachBegins ==
  /\ owner = "idle" /\ ~closed /\ attached
  /\ owner' = "detaching" /\ attached' = FALSE
  /\ Tell(Bare("detach"))
  /\ UNCHANGED <<closed, deliveries, told, ofOthers>>

\* ... their callbacks run, and then the loop takes note of what those took.
DetachSettles ==
  /\ owner = "detaching" /\ told
  /\ owner' = "settling" /\ told' = FALSE
  /\ Tell(Bare("told"))
  /\ UNCHANGED <<attached, closed, deliveries, ofOthers>>

DetachEnds ==
  /\ owner = "settling" /\ told
  /\ owner' = "detached"
  /\ UNCHANGED <<attached, closed, events, deliveries, told, ofOthers>>

\* `close`: the loop is told to interrupt everything...
CloseBegins ==
  /\ owner \in {"idle", "detached"} /\ ~closed
  /\ owner' = "closing" /\ closed' = TRUE
  /\ Tell(Bare("close"))
  /\ UNCHANGED <<attached, deliveries, told, ofOthers>>

\* ... and to end, ...
CloseEndsLoop ==
  /\ owner = "closing"
  /\ owner' = "joining"
  /\ Tell(Bare("end"))
  /\ UNCHANGED <<attached, closed, deliveries, told, ofOthers>>

\* ... and once it did, the delivery thread ends behind the callbacks that are left.
CloseEndsDelivery ==
  /\ owner = "joining" /\ ~looping
  /\ owner' = "draining"
  /\ Deliver(Bare("end"))
  /\ UNCHANGED <<attached, closed, events, told, ofOthers>>

CloseEnds ==
  /\ owner = "draining" /\ at.op = "gone"
  /\ owner' = "closed"
  /\ UNCHANGED <<attached, closed, events, deliveries, told, ofOthers>>

Owner ==
  \/ DetachBegins \/ DetachSettles \/ DetachEnds
  \/ CloseBegins \/ CloseEndsLoop \/ CloseEndsDelivery \/ CloseEnds

-----------------------------------------------------------------------------
(* The loop thread: the calls one event leads to *)

notLoop == <<callers, owning, registry, early, ran, at>>

\* The loop may take its next event.
LoopFree == looping /\ calls = <<>>

\* Mutant: nobody tells the jobs that come after this one.
DependentsForgotten(j, those) == {}

\* Those of the waiting jobs that come after this one.
DependentsOf(j, those) == {o \in those : j \in after[o]}

\* The jobs of a set as `_waiting` lists them.
InOrder(S) == {line \in SetToSeqs(S) : \A a, b \in DOMAIN line : a < b => line[a] < line[b]}

\* Mutant: a job starts as soon as one of those before it ended well.
OneEndedWell(j) == \E d \in after[j] : status[d] = "completed"

\* Did all the jobs before it end well?
AllEndedWell(j) == \A d \in after[j] : status[d] = "completed"

\* Did one of them not?
OneEndedBadly(j) == \E d \in after[j] : status[d] \in Badly

\* The jobs of a line are to be looked at, one by one, before the rest of the end of `j`.
LookEach(line) == [i \in DOMAIN line |-> OfJob("look", line[i])]
LooksAndRest(line, j) == LookEach(line) \o <<OfJob("rest", j)>>

\* `_start`
Starts(j) ==
  /\ status' = [status EXCEPT ![j] = "running"]
  /\ active' = active \cup {j}
  /\ started' = started \cup {j}
  /\ waiting' = waiting \ {j}
  /\ UNCHANGED finishing

\* `_finish`, up to its loop over the jobs that come after this one, listed before it looks at
\* any; `later` are the calls the loop has left to do after it.
Finishes(j, how, later) ==
  /\ status' = [status EXCEPT ![j] = how]
  /\ active' = active \ {j}
  /\ waiting' = waiting \ {j}
  /\ \E line \in InOrder(DependentsOf(j, waiting')) :
       calls' = LooksAndRest(line, j) \o later
  /\ UNCHANGED <<started, finishing>>

\* `_on_dependency_end`: the job before this one ended, or this one has just arrived.
Look ==
  /\ calls # <<>> /\ Head(calls).op = "look"
  /\ LET j == Head(calls).job
     IN  \/ /\ OneEndedBadly(j)
            /\ Finishes(j, "failed", Tail(calls))
         \/ /\ AllEndedWell(j)
            /\ Starts(j)
            /\ calls' = Tail(calls)
         \/ /\ ~AllEndedWell(j) /\ ~OneEndedBadly(j)
            /\ calls' = Tail(calls)
            /\ UNCHANGED <<status, loopState>>
  /\ UNCHANGED <<notLoop, events, looping, deliveries, noted, told>>

\* The rest of `_finish`: the end of the job is announced.
Rest ==
  /\ calls # <<>> /\ Head(calls).op = "rest"
  /\ Deliver(OfJob("announce", Head(calls).job))
  /\ calls' = Tail(calls)
  /\ UNCHANGED <<notLoop, status, loopState, events, looping, noted, told>>

\* Is there anything to stop (`_on_stop_job`)?
Stops(frame) == status[frame.job] \in Alive

\* The loop has yet to hear of the job, which another thread found before.
Unheard(j) == j \notin queued \/ \E i \in DOMAIN events : events[i].op = "submit" /\ events[i].job = j

StopJob ==
  /\ calls # <<>> /\ Head(calls).op = "stop"
  /\ LET frame == Head(calls)
     IN  \/ /\ Stops(frame)
            /\ Finishes(frame.job, frame.s, Tail(calls))
            /\ early' = IF Unheard(frame.job) THEN early \cup {frame.job} ELSE early
         \/ /\ ~Stops(frame)
            /\ calls' = Tail(calls)
            /\ UNCHANGED <<status, loopState, early>>
  /\ UNCHANGED <<callers, owning, registry, ran, at, events, looping, deliveries, noted, told>>

\* The last call of `_on_detach`.
TellDetached ==
  /\ calls # <<>> /\ Head(calls).op = "tell"
  /\ Deliver(Bare("told"))
  /\ calls' = Tail(calls)
  /\ UNCHANGED <<notLoop, status, loopState, events, looping, noted, told>>

Call == Look \/ Rest \/ StopJob \/ TellDetached

-----------------------------------------------------------------------------
(* The loop thread: events *)

Hears(op) ==
  /\ LoopFree
  /\ events # <<>> /\ Head(events).op = op
  /\ events' = Tail(events)

\* Mutant: nobody looks whether the journal of the job is still attached.
DetachUnseen(j) == FALSE

\* Was the journal of the job detached since `submit` found it?
DetachedBefore(j) == j \in Journaled /\ ~attached

OnSubmit ==
  /\ Hears("submit")
  /\ LET j == Head(events).job
     IN  \/ /\ DetachedBefore(j)
            /\ Finishes(j, "failed", <<>>)
         \/ /\ ~DetachedBefore(j) /\ after[j] # {}
            /\ waiting' = waiting \cup {j}
            /\ calls' = <<OfJob("look", j)>>
            /\ UNCHANGED <<status, active, started, finishing>>
         \/ /\ ~DetachedBefore(j) /\ after[j] = {}
            /\ Starts(j)
            /\ UNCHANGED calls
  /\ UNCHANGED <<notLoop, looping, deliveries, noted, told>>

OnStop ==
  /\ Hears("stop")
  /\ calls' = <<[Head(events) EXCEPT !.op = "stop"]>>
  /\ UNCHANGED <<notLoop, status, loopState, looping, deliveries, noted, told>>

\* The jobs of a line are to be stopped, one by one.
StopEach(line) == [i \in DOMAIN line |-> Item("stop", line[i], "interrupted")]

\* The jobs to stop, as listed before any of them is stopped: the waiting ones first, and then
\* the active ones, by their priorities; and what comes after that.
StopAll(which, last) ==
  \E first \in InOrder(waiting \cap which), then \in SetToSeqs(active \cap which) :
    calls' = StopEach(first \o then) \o last

OnDetach ==
  /\ Hears("detach")
  /\ StopAll(Journaled, <<Bare("tell")>>)
  /\ UNCHANGED <<notLoop, status, loopState, looping, deliveries, noted, told>>

OnClose ==
  /\ Hears("close")
  /\ StopAll(Jobs, <<>>)
  /\ UNCHANGED <<notLoop, status, loopState, looping, deliveries, noted, told>>

\* `noted.set` and `told.set`, as events.
OnNoted ==
  /\ Hears("noted")
  /\ noted' = TRUE
  /\ UNCHANGED <<notLoop, status, loopState, calls, looping, deliveries, told>>

OnTold ==
  /\ Hears("told")
  /\ told' = TRUE
  /\ UNCHANGED <<notLoop, status, loopState, calls, looping, deliveries, noted>>

\* `_on_finished`: the `on_finish` of the job returned, or raised.
OnFinished ==
  /\ Hears("finished")
  /\ LET j == Head(events).job
     IN  \/ /\ status[j] = "running"
            /\ Finishes(j, IF Head(events).s = "ok" THEN "completed" ELSE "failed", <<>>)
         \/ /\ status[j] # "running"
            /\ UNCHANGED <<calls, status, loopState>>
  /\ UNCHANGED <<notLoop, looping, deliveries, noted, told>>

OnEnd ==
  /\ Hears("end")
  /\ looping' = FALSE
  /\ UNCHANGED <<notLoop, status, loopState, calls, deliveries, noted, told>>

\* `_finish_if_over`: the last chunk of a job was counted.  If none of them worked, or it has no
\* chunks any longer, the job failed, and has no `on_finish`.
JobOver(j) ==
  /\ LoopFree
  /\ j \in active \ finishing
  /\ \/ /\ Finishes(j, "failed", <<>>)
        /\ UNCHANGED deliveries
     \/ /\ j \notin HasFinish \cup early
        /\ Finishes(j, "completed", <<>>)
        /\ UNCHANGED deliveries
     \/ /\ j \in HasFinish \ early
        /\ finishing' = finishing \cup {j}
        /\ Deliver(OfJob("finish", j))
        /\ UNCHANGED <<calls, status, waiting, active, started>>
  /\ UNCHANGED <<notLoop, events, looping, noted, told>>

Event ==
  \/ OnSubmit \/ OnStop \/ OnDetach \/ OnClose \/ OnNoted \/ OnTold \/ OnFinished \/ OnEnd

-----------------------------------------------------------------------------
(* The delivery thread *)

notDelivery == <<callers, status, owning, loopState, early, calls, looping>>

\* What the delivery thread gets from its queue.
Gets(op) ==
  /\ at = Nothing
  /\ deliveries # <<>> /\ Head(deliveries).op = op
  /\ deliveries' = Tail(deliveries)

\* `told.set`, as `_on_detach` put it behind the callbacks.
Told ==
  /\ Gets("told")
  /\ told' = TRUE
  /\ UNCHANGED <<notDelivery, registry, ran, events, at, noted>>

\* The end of the thread.
Leaves ==
  /\ Gets("end")
  /\ at' = Bare("gone")
  /\ UNCHANGED <<notDelivery, registry, ran, events, noted, told>>

\* `_run_finish`, when `on_finish` returned or raised.
RunFinish ==
  /\ Gets("finish")
  /\ \E how \in {"ok", "raised"} :
       /\ ran' = [ran EXCEPT ![Head(deliveries).job] = how]
       /\ Tell(Item("finished", Head(deliveries).job, how))
  /\ UNCHANGED <<notDelivery, registry, at, noted, told>>

\* The last snapshot of `j` is kept, and the oldest of too many forgotten.
Remember(j) ==
  LET all == IF j \in ToSet(ended) THEN ended ELSE Append(ended, j)
  IN ended' = IF Len(all) > Remembered THEN Tail(all) ELSE all

\* `on_terminal`, which for a job of a flow waits for its lock (`ended`).
Terminal(j) ==
  /\ submitting = {}
  /\ writing' = writing \ {j}
  /\ announced' = [announced EXCEPT ![j] = @ + 1]
  /\ at' = OfJob("letting", j)

\* Mutant: the engine lets go of the job without its last snapshot.
AnnouncesOnly(j) == Terminal(j) /\ UNCHANGED <<jobs, ended, finished>>

\* `on_terminal`, and then the engine keeps the last snapshot of the job.
Announces(j) == Terminal(j) /\ Remember(j) /\ UNCHANGED <<jobs, finished>>

\* `_announce`: what the loop still has to note of the results of a job that can go on comes first.
Announce ==
  /\ Gets("announce")
  /\ LET j == Head(deliveries).job
     IN  \/ /\ j \in Journaled /\ status[j] \in Resumable
            /\ at' = OfJob("noting", j)
            /\ noted' = FALSE
            /\ Tell(Bare("noted"))
            /\ UNCHANGED registry
         \/ /\ ~(j \in Journaled /\ status[j] \in Resumable)
            /\ Announces(j)
            /\ UNCHANGED <<events, noted>>
  /\ UNCHANGED <<notDelivery, ran, told>>

\* Did the loop note what came before?
Heard == noted \/ ~looping

Noted ==
  /\ at.op = "noting" /\ Heard
  /\ Announces(at.job)
  /\ UNCHANGED <<notDelivery, ran, events, deliveries, noted, told>>

LetsGo ==
  /\ at.op = "letting"
  /\ jobs' = jobs \ {at.job}
  /\ finished' = finished \cup {at.job}
  /\ at' = Nothing
  /\ UNCHANGED <<notDelivery, ended, announced, writing, ran, events, deliveries, noted, told>>

Delivery == Told \/ Leaves \/ RunFinish \/ Announce \/ Noted \/ LetsGo

-----------------------------------------------------------------------------

Next ==
  \/ Call
  \/ /\ calls = <<>>
     /\ \/ \E j \in Jobs : SubmitBegins(j) \/ Registers(j) \/ Submits(j) \/ Records(j) \/ Cancel(j) \/ JobOver(j)
        \/ Owner \/ Event \/ Delivery

\* The loop and the delivery thread go on, callbacks return, a thread inside `submit`, `detach`
\* or `close` goes on, and the chunks of a running job come to an end (`JobsEnd` of module
\* Chunks).  Nobody has to submit, cancel, detach or close anything.
Fairness ==
  /\ WF_vars(Call) /\ WF_vars(Event) /\ WF_vars(Delivery)
  /\ WF_vars(\E j \in Jobs : Registers(j) \/ Submits(j) \/ Records(j)) /\ WF_vars(\E j \in Jobs : JobOver(j))
  /\ WF_vars(DetachSettles \/ DetachEnds \/ CloseEndsLoop \/ CloseEndsDelivery \/ CloseEnds)

Spec == Init /\ [][Next]_vars /\ Fairness

-----------------------------------------------------------------------------
(* Safety *)

\* A job starts only when every job it comes after completed, and such a job completed only after
\* its `on_finish` ran and did not raise (`submit`: "before the job counts as completed and the
\* jobs after it start").  Nothing of an earlier job is still to be written in a table it reads:
\* that job completed, or its end was announced, behind the last of its results.
DependentsWait ==
  \A j \in started :
    /\ \A d \in after[j] : status[d] = "completed" /\ (d \in HasFinish => ran[d] = "ok")
    /\ \A i \in Jobs : i < j /\ Writes[i] \cap asked[j].reads # {} => status[i] = "completed" \/ announced[i] > 0

\* The sets of jobs that hold what the jobs in them come after.
Closed == {S \in SUBSET Jobs : \A e \in S : after[e] \subseteq S}

\* Every job before `j`, however far.
Before(j) == {d \in Jobs : \A S \in Closed : after[j] \subseteq S => d \in S}

\* None of the jobs `j` was submitted after comes after another of them.
Plain(j) == \A d, e \in after[j] : d \notin Before(e)

\* The end of a job is announced once, however its end was reached: over, canceled, interrupted
\* or failed with one it comes after, and several of them at once.  (A job that comes after both
\* a job and one that comes after that job is announced twice when the first one fails: the
\* list `_finish` goes through is stale by then.)  Only a job that was stopped before the loop
\* heard of it may end once more: it is started all the same, without its chunks, and fails.
AnnouncedOnce == \A j \in Jobs \ early : Plain(j) => announced[j] <= 1

\* Who asks for a job it submitted finds it among the ones that run or the ones that ended
\* (`_announce`: "never in neither"), unless as many as are remembered ended after it; and all
\* there is has its type.
NeverInNeither ==
  /\ TypeOK
  /\ \A j \in Jobs : status[j] # "new" =>
       j \in jobs \cup ToSet(ended) \/ (announced[j] > 0 /\ Len(ended) = Remembered)

\* Once `detach` returned, no job of the journal runs or waits, also not one whose `submit` was
\* under way, and all that ran have been announced.
DetachedQuiet ==
  owner \in {"detached", "closing", "joining", "draining", "closed"} /\ ~attached =>
    /\ Journaled \cap (active \cup waiting) \subseteq early
    /\ Journaled \cap started \subseteq finished

\* A job can be asked for from its `submit` to after its end, which is announced once.
KnownUntilAnnounced == NeverInNeither /\ AnnouncedOnce

-----------------------------------------------------------------------------
(* Liveness *)

\* Whoever waits for a job that was registered before the engine was closed hears of its end:
\* there is always a moment to come with no such job left.
JobsFinish == []<>(\A j \in Jobs : status[j] = "new" \/ j \in raced \/ j \in finished)

\* `detach` and `close` return, whatever callbacks and submits they meet.
OwnerReturns == []<>(owner \in {"idle", "detached", "closed"})

\* No wait, detach or close is for ever.
EveryCallReturns == JobsFinish /\ OwnerReturns
=============================================================================
