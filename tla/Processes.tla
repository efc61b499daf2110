------------------------------ MODULE Processes ------------------------------
(***************************************************************************)
(* The executors of engine/executors.py.  ProcessExecutor and _Host: tasks *)
(* on the workers of a pool, which one death breaks, and tasks on the      *)
(* threads of one more process, the host, reached through two pipes.  The  *)
(* engine's loop submits, cancels and kills; a thread for each host reads  *)
(* what comes back.  The two share one lock, `_hosting`, which is held     *)
(* while a message is put in a pipe that may be full.  ThreadExecutor:     *)
(* threads of this process.  RayExecutor: a cluster that says how a task   *)
(* ended on a thread of its own, while the loop marks the ones it stops.   *)
(***************************************************************************)
EXTENDS Integers, Sequences, FiniteSets, FiniteSetsExt

CONSTANTS
  Tasks,      \* the tasks the engine may submit, each once
  Mixes,      \* where each may go: to the host's threads, to the pool, to threads here, to Ray, or nowhere
  Capacity,   \* `max_workers`, of the pool and of the host
  Cards,      \* how many GPUs there are: a task for the pool wants one
  Room,       \* the messages a pipe holds
  Slots,      \* how many tasks are watched at once
  HarmsMax,   \* bound: deaths and kills
  CancelsMax  \* bound: the tasks the engine cancels

ASSUME ProcessesAssumption ==
  /\ IsFiniteSet(Tasks) /\ Capacity \in Nat \ {0}
  /\ {Cards, Room, Slots, HarmsMax, CancelsMax} \subseteq Nat
  /\ Mixes \subseteq [Tasks -> {"host", "pool", "thread", "ray", "none"}]

VARIABLES
  mix,       \* where each task goes: the host is for those submitted with `thread=True`
  state,     \* as the engine knows each task: free, given, done, or over in another way
  how,       \* what `on_done` said of it
  at,        \* the host it was sent to, or the pool it was submitted to
  phase,     \* sent, queued, begun or ended
  canceled,  \* those the engine called `cancel` for
  host,      \* each `_Host`, and the thread that reads it
  last,      \* the number of the latest one, `_host`; 0 where there is none
  hosting,   \* what the holder of the lock `_hosting` is sending, Nothing where it is free
  pool,      \* `_pool`: the number of the latest, and how it is
  held,      \* how many tasks hold each card
  card,      \* the card of a task, 0 for none
  late,      \* history: the tasks that took a card while one that was over still held one
  slot,      \* where a task tells how far it is, 0 for a task nobody can watch
  raw,       \* what Ray says of a task that ended
  killed,    \* the tasks `kill` stopped, of those Ray has
  killing,   \* those the loop has still to stop, while it goes through them
  harmed,    \* the hosts and pools that died or were killed
  shut       \* `shutdown` was called

engine == <<mix, state, how, at, canceled, slot>>
gpus == <<held, card, late>>
ofRay == <<raw, killed, killing>>
vars == <<engine, phase, host, last, hosting, pool, gpus, ofRay, harmed, shut>>

Hosts == 1 .. Cardinality(Tasks)
Nothing == [to |-> 0]
Message(h, kind, t) == [to |-> h, kind |-> kind, task |-> t]
Unborn == [over |-> FALSE, alive |-> FALSE, pending |-> {}, inbox |-> <<>>, back |-> <<>>,
           says |-> <<>>, reader |-> "gone", lost |-> {}]
Born == [Unborn EXCEPT !.alive = TRUE, !.reader = "poll"]

\* A cluster that is there, and nothing that it has.
RayStarts == raw = [t \in Tasks |-> "none"] /\ killed = {} /\ killing = {}

Init ==
  /\ mix \in Mixes
  /\ state = [t \in Tasks |-> "free"] /\ how = [t \in Tasks |-> "none"]
  /\ at = [t \in Tasks |-> 0] /\ phase = [t \in Tasks |-> "none"]
  /\ canceled = {} /\ harmed = {} /\ shut = FALSE
  /\ host = [h \in Hosts |-> Unborn] /\ last = 0 /\ hosting = Nothing
  /\ pool = [n |-> 1, is |-> "up"]
  /\ held = [c \in 1 .. Cards |-> 0] /\ card = [t \in Tasks |-> 0] /\ late = {}
  /\ slot = [t \in Tasks |-> 0] /\ RayStarts

-----------------------------------------------------------------------------
(* What the engine asks for. *)

\* What a task that watches takes, before it goes anywhere; one too many runs unwatched.
FreeSlots == {n \in 1 .. Slots : \A t \in Tasks : slot[t] # n}
TakeSlot(t) == slot' = [slot EXCEPT ![t] = IF FreeSlots = {} THEN 0 ELSE Min(FreeSlots)]

FreeSlot(t) == slot' = [slot EXCEPT ![t] = 0]

\* What a future says of its task.
Outcome == [value |-> "DONE", raised |-> "ERROR", lost |-> "LOST", canceled |-> "CANCELED"]

\* `on_done`, with the slot given back before.
Say(t, what) ==
  /\ FreeSlot(t)
  /\ state' = [state EXCEPT ![t] = IF what = "DONE" THEN "done" ELSE "over"]
  /\ how' = [how EXCEPT ![t] = what]

\* The engine submits what fits: its slots, and the tokens of the cards.
GivenTo(place) == {t \in Tasks : mix[t] = place /\ state[t] = "given"}
Fits(t) ==
  /\ state[t] = "free" /\ ~shut /\ killing = {}
  /\ Cardinality({s \in Tasks : state[s] = "given"}) < Capacity
  /\ mix[t] = "pool" => Cardinality(GivenTo("pool")) < Cards

Give(t, n) ==
  /\ state' = [state EXCEPT ![t] = "given"]
  /\ at' = [at EXCEPT ![t] = n]

\* Mutant: a host that leaves is used once more.
NoHost == last = 0
NeedsHost == last = 0 \/ host[last].over

\* What a host is sent is awaited from it.
Taking(x, t) == [x EXCEPT !.pending = @ \cup {t}]

SubmitToHost(t) ==
  /\ mix[t] = "host" /\ Fits(t) /\ hosting = Nothing
  /\ last' = IF NeedsHost THEN last + 1 ELSE last
  /\ host' = [host EXCEPT ![last'] = Taking(IF NeedsHost THEN Born ELSE @, t)]
  /\ hosting' = Message(last', "run", t)
  /\ Give(t, last') /\ TakeSlot(t)
  /\ phase' = [phase EXCEPT ![t] = "sent"]
  /\ UNCHANGED <<mix, how, canceled, pool, gpus, ofRay, harmed, shut>>

\* Mutant: the first card, always.
First == 1
\* The first of the cards held least.
Least == CHOOSE c \in DOMAIN held :
           \A d \in DOMAIN held : held[c] < held[d] \/ (held[c] = held[d] /\ c <= d)

\* A task that is told over already has its card until its second callback ran.
CardsLag == \E s \in Tasks : card[s] # 0 /\ state[s] # "given"

\* A pool that is known to be broken is replaced.
SubmitToPool(t) ==
  /\ mix[t] = "pool" /\ Fits(t)
  /\ pool' = IF pool.is = "broken" THEN [n |-> pool.n + 1, is |-> "up"] ELSE pool
  /\ Give(t, pool'.n) /\ TakeSlot(t)
  /\ phase' = [phase EXCEPT ![t] = "queued"]
  /\ held' = [held EXCEPT ![Least] = @ + 1]
  /\ card' = [card EXCEPT ![t] = Least]
  /\ late' = IF CardsLag THEN late \cup {t} ELSE late
  /\ UNCHANGED <<mix, how, canceled, host, last, hosting, ofRay, harmed, shut>>

Queue(t) ==
  /\ Fits(t) /\ Give(t, 0)
  /\ phase' = [phase EXCEPT ![t] = "queued"]
  /\ UNCHANGED <<mix, how, canceled, slot, host, last, hosting, pool, gpus, ofRay, harmed, shut>>

\* Threads of this process; and Ray, which queues what it has no room for.
SubmitToThread(t) == mix[t] = "thread" /\ Queue(t)
SubmitToRay(t) == mix[t] = "ray" /\ Queue(t)

\* Ray is told to stop the task, queued or begun, and says how it ended.  A task that the pool or
\* a thread has begun goes on, and nothing changes.
Cancel(t) ==
  /\ state[t] # "free" /\ t \notin canceled /\ ~shut /\ killing = {} /\ Cardinality(canceled) < CancelsMax
  /\ canceled' = canceled \cup {t}
  /\ \/ /\ mix[t] = "host" /\ hosting = Nothing
        /\ hosting' = IF host[at[t]].over THEN Nothing ELSE Message(at[t], "cancel", t)
        /\ UNCHANGED <<state, how, slot, phase>>
     \/ /\ mix[t] \in {"pool", "thread"} /\ phase[t] = "queued"
        /\ Say(t, "CANCELED")
        /\ phase' = [phase EXCEPT ![t] = "ended"]
        /\ UNCHANGED hosting
     \/ /\ mix[t] = "ray"
        /\ UNCHANGED <<state, how, slot, phase, hosting>>
  /\ UNCHANGED <<mix, at, host, last, pool, gpus, ofRay, harmed, shut>>

\* The process of a host is no more, with what was on its way to it.
Dead(x) == [x EXCEPT !.alive = FALSE, !.inbox = <<>>, !.says = <<>>]
HostId(h) == <<"host", h>>
PoolId(n) == <<"pool", n>>

RayId(t) == <<"ray", t>>
OnProcesses == \E t \in Tasks : mix[t] \in {"host", "pool"}

\* A host is stopped only where it has something to do, the workers of the pool always.
Kill ==
  /\ OnProcesses /\ hosting = Nothing /\ ~shut /\ Cardinality(harmed) < HarmsMax
  /\ LET stops == last # 0 /\ host[last].pending # {} IN
     /\ host' = IF stops THEN [host EXCEPT ![last] = [Dead(@) EXCEPT !.over = TRUE]] ELSE host
     /\ harmed' = harmed \cup {PoolId(pool.n)} \cup (IF stops THEN {HostId(last)} ELSE {})
  /\ pool' = [pool EXCEPT !.is = IF @ = "up" THEN "dying" ELSE @]
  /\ UNCHANGED <<engine, phase, last, hosting, gpus, ofRay, shut>>

\* Ray has tasks of its own: each of them is marked, then stopped, while others come back.
KillRay ==
  /\ killing = {} /\ ~shut /\ Cardinality(harmed) < HarmsMax
  /\ GivenTo("ray") # {}
  /\ killing' = GivenTo("ray")
  /\ UNCHANGED <<engine, phase, host, last, hosting, pool, gpus, raw, killed, harmed, shut>>

Marked(t) == killed \cup {t}

StopNext(t) ==
  /\ t \in killing
  /\ killing' = killing \ {t}
  /\ killed' = Marked(t) /\ harmed' = harmed \cup {RayId(t)}
  /\ UNCHANGED <<engine, phase, host, last, hosting, pool, gpus, raw, shut>>

\* The threads of this process let go of what has not begun; Ray says no more than it likes.
LetGo == {t \in Tasks : mix[t] = "thread" /\ phase[t] = "queued"}

Shutdown ==
  /\ hosting = Nothing /\ ~shut /\ killing = {}
  /\ shut' = TRUE
  /\ state' = [t \in Tasks |-> IF t \in LetGo THEN "over" ELSE state[t]]
  /\ how' = [t \in Tasks |-> IF t \in LetGo THEN Outcome.canceled ELSE how[t]]
  /\ phase' = [t \in Tasks |-> IF t \in LetGo THEN "ended" ELSE phase[t]]
  /\ host' = IF last = 0 THEN host ELSE [host EXCEPT ![last] = [Dead(@) EXCEPT !.over = TRUE]]
  /\ pool' = [pool EXCEPT !.is = "broken"]
  /\ UNCHANGED <<mix, at, canceled, slot, last, hosting, gpus, ofRay, harmed>>

\* The holder of the lock puts its message in the pipe, once there is room, and lets go.
Sent ==
  /\ hosting # Nothing
  /\ LET h == hosting.to IN
     /\ host[h].alive => Len(host[h].inbox) < Room
     /\ host' = IF host[h].alive THEN [host EXCEPT ![h].inbox = Append(@, hosting)] ELSE host
  /\ hosting' = Nothing
  /\ UNCHANGED <<engine, phase, last, pool, gpus, ofRay, harmed, shut>>

-----------------------------------------------------------------------------
(* In the host: its main thread, and the threads of its pool. *)

Hears(h, kind) ==
  /\ host[h].alive /\ host[h].says = <<>> /\ host[h].inbox # <<>>
  /\ Head(host[h].inbox).kind = kind
In(h) == {t \in Tasks : mix[t] = "host" /\ at[t] = h /\ phase[t] \in {"queued", "begun"}}
Heard(h) == Head(host[h].inbox).task
OfHost == UNCHANGED <<engine, last, hosting, pool, gpus, ofRay, harmed, shut>>

\* A task that ends before its callback is there is answered by the main thread.
HostRuns(h) ==
  /\ Hears(h, "run")
  /\ \/ /\ phase' = [phase EXCEPT ![Heard(h)] = "queued"]
        /\ host' = [host EXCEPT ![h].inbox = Tail(@)]
     \/ /\ phase' = [phase EXCEPT ![Heard(h)] = "ended"]
        /\ \E what \in {"DONE", "ERROR"} :
             host' = [host EXCEPT ![h].inbox = Tail(@), ![h].says = <<Heard(h), what>>]
  /\ OfHost

\* So is one that is canceled; one that has begun goes on.
HostCancels(h) ==
  /\ Hears(h, "cancel")
  /\ IF phase[Heard(h)] = "queued"
     THEN /\ phase' = [phase EXCEPT ![Heard(h)] = "ended"]
          /\ host' = [host EXCEPT ![h].inbox = Tail(@), ![h].says = <<Heard(h), "CANCELED">>]
     ELSE /\ host' = [host EXCEPT ![h].inbox = Tail(@)]
          /\ UNCHANGED phase
  /\ OfHost

HostStops(h) ==
  /\ Hears(h, "stop") /\ In(h) = {}
  /\ host' = [host EXCEPT ![h] = Dead(@)]
  /\ UNCHANGED phase /\ OfHost

\* One answer at a time goes in the pipe, and waits there for room.
MainAnswers(h) ==
  /\ host[h].alive /\ host[h].says # <<>> /\ Len(host[h].back) < Room
  /\ host' = [host EXCEPT ![h].says = <<>>, ![h].back = Append(@, host[h].says)]
  /\ UNCHANGED phase /\ OfHost

Begins(h, t) ==
  /\ host[h].alive /\ t \in In(h) /\ phase[t] = "queued"
  /\ Cardinality({s \in In(h) : phase[s] = "begun"}) < Capacity
  /\ phase' = [phase EXCEPT ![t] = "begun"]
  /\ UNCHANGED host /\ OfHost

Answers(h, t) ==
  /\ host[h].alive /\ t \in In(h) /\ phase[t] = "begun" /\ Len(host[h].back) < Room
  /\ phase' = [phase EXCEPT ![t] = "ended"]
  /\ \E what \in {"DONE", "ERROR"} : host' = [host EXCEPT ![h].back = Append(@, <<t, what>>)]
  /\ OfHost

HostDies(h) ==
  /\ host[h].alive /\ Cardinality(harmed) < HarmsMax
  /\ host' = [host EXCEPT ![h] = Dead(@)]
  /\ harmed' = harmed \cup {HostId(h)}
  /\ UNCHANGED <<engine, phase, last, hosting, pool, gpus, ofRay, shut>>

-----------------------------------------------------------------------------
(* The thread that reads a host: `_Host._read`. *)

\* Nothing came for `idle` seconds.
Waits(h) ==
  /\ host[h].reader = "poll" /\ host[h].back = <<>> /\ host[h].alive
  /\ host' = [host EXCEPT ![h].reader = "idle"]
  /\ UNCHANGED phase /\ OfHost

Leaves(h) == host[h].pending = {} /\ ~host[h].over

Idle(h) ==
  /\ host[h].reader = "idle" /\ hosting = Nothing
  /\ host' = [host EXCEPT ![h].reader = "poll", ![h].over = @ \/ Leaves(h)]
  /\ hosting' = IF Leaves(h) THEN Message(h, "stop", 0) ELSE Nothing
  /\ UNCHANGED <<engine, phase, last, pool, gpus, ofRay, harmed, shut>>

\* Mutant: a task stays pending once it is answered.
StillPending(x, t) == x.pending
Pending(x, t) == x.pending \ {t}

Receives(h) ==
  /\ host[h].reader = "poll" /\ host[h].back # <<>>
  /\ LET a == Head(host[h].back) IN
     /\ host' = [host EXCEPT ![h].back = Tail(@), ![h].pending = Pending(host[h], a[1])]
     /\ Say(a[1], a[2])
  /\ UNCHANGED <<mix, at, phase, canceled, last, hosting, pool, gpus, ofRay, harmed, shut>>

\* The end of the pipe: what was in it has been read.
Ends(h) ==
  /\ host[h].reader = "poll" /\ host[h].back = <<>> /\ ~host[h].alive
  /\ host' = [host EXCEPT ![h].reader = "end"]
  /\ UNCHANGED phase /\ OfHost

\* Mutant: what is pending is not looked at.
NothingLost(x) == {}
LostOf(x) == x.pending

Over(h) ==
  /\ host[h].reader = "end" /\ hosting = Nothing
  /\ host' = [host EXCEPT ![h].reader = "lost", ![h].over = TRUE, ![h].lost = LostOf(host[h]), ![h].pending = {}]
  /\ UNCHANGED phase /\ OfHost

GivesBack(h, t) ==
  /\ host[h].reader = "lost" /\ t \in host[h].lost
  /\ host' = [host EXCEPT ![h].lost = @ \ {t}]
  /\ Say(t, "LOST")
  /\ UNCHANGED <<mix, at, phase, canceled, last, hosting, pool, gpus, ofRay, harmed, shut>>

-----------------------------------------------------------------------------
(* The pool, and the callbacks of its tasks. *)

Up(t) == at[t] = pool.n /\ pool.is = "up"
OfPool == UNCHANGED <<mix, at, canceled, host, last, hosting, gpus, ofRay>>

PoolDies ==
  /\ OnProcesses /\ pool.is = "up" /\ Cardinality(harmed) < HarmsMax
  /\ pool' = [pool EXCEPT !.is = "dying"]
  /\ harmed' = harmed \cup {PoolId(pool.n)}
  /\ UNCHANGED <<state, how, slot, phase, shut>> /\ OfPool

\* From here on it takes nothing more.
PoolBreaks ==
  /\ pool.is = "dying"
  /\ pool' = [pool EXCEPT !.is = "broken"]
  /\ UNCHANGED <<state, how, slot, phase, harmed, shut>> /\ OfPool

PoolBegins(t) ==
  /\ mix[t] = "pool" /\ phase[t] = "queued" /\ Up(t)
  /\ phase' = [phase EXCEPT ![t] = "begun"]
  /\ UNCHANGED <<state, how, slot, pool, harmed, shut>> /\ OfPool

PoolEnds(t) ==
  /\ mix[t] = "pool"
  /\ \/ phase[t] = "begun" /\ Up(t) /\ \E is \in {"value", "raised"} : Say(t, Outcome[is])
     \/ phase[t] \in {"queued", "begun"} /\ ~(at[t] = pool.n /\ pool.is # "broken") /\ Say(t, Outcome.lost)
  /\ phase' = [phase EXCEPT ![t] = "ended"]
  /\ UNCHANGED <<pool, harmed, shut>> /\ OfPool

\* The second callback of a task, after the one that told the engine.
FreeCard(t) ==
  /\ card[t] # 0 /\ phase[t] = "ended"
  /\ held' = [held EXCEPT ![card[t]] = @ - 1]
  /\ card' = [card EXCEPT ![t] = 0]
  /\ UNCHANGED <<late, engine, phase, host, last, hosting, pool, ofRay, harmed, shut>>

-----------------------------------------------------------------------------
(* Threads of this process. *)

Busy(place) == Cardinality({t \in Tasks : mix[t] = place /\ phase[t] = "begun"})

\* A thread, or Ray, takes a task; once begun, a thread goes through with it.
TakesUp(t) ==
  /\ mix[t] \in {"thread", "ray"} /\ phase[t] = "queued" /\ Busy(mix[t]) < Capacity
  /\ phase' = [phase EXCEPT ![t] = "begun"]
  /\ UNCHANGED <<state, how, slot, pool, harmed, shut>> /\ OfPool

ThreadEnds(t) ==
  /\ mix[t] = "thread" /\ phase[t] = "begun"
  /\ \E is \in {"value", "raised"} : Say(t, Outcome[is])
  /\ phase' = [phase EXCEPT ![t] = "ended"]
  /\ UNCHANGED <<pool, harmed, shut>> /\ OfPool

-----------------------------------------------------------------------------
(* Ray. *)

\* The task ends by itself; or it was told to stop, and is, by force with its worker.
RayEnds(t) ==
  /\ mix[t] = "ray"
  /\ \E is \in {"value", "raised", "lost", "canceled"} :
       /\ is \in {"value", "raised"} => phase[t] = "begun"
       /\ is \in {"lost", "canceled"} => phase[t] \in {"queued", "begun"}
       /\ is = "lost" => RayId(t) \in harmed
       /\ is = "canceled" => t \in canceled \/ RayId(t) \in harmed
       /\ raw' = [raw EXCEPT ![t] = is]
  /\ phase' = [phase EXCEPT ![t] = "ended"]
  /\ UNCHANGED <<engine, host, last, hosting, pool, gpus, killed, killing, harmed, shut>>

\* The worker of a task, or its machine, is no more.
RayDies(t) ==
  /\ mix[t] = "ray" /\ phase[t] = "begun" /\ Cardinality(harmed) < HarmsMax
  /\ raw' = [raw EXCEPT ![t] = "lost"]
  /\ phase' = [phase EXCEPT ![t] = "ended"]
  /\ harmed' = harmed \cup {RayId(t)}
  /\ UNCHANGED <<engine, host, last, hosting, pool, gpus, killed, killing, shut>>

\* `_finished`, on the thread of Ray: a task that was stopped has gone with its worker, unless it
\* was done.  The files it brings are taken as written: where one cannot be, nobody is told.
Finished(t) ==
  /\ raw[t] # "none" /\ state[t] = "given"
  /\ Say(t, IF t \in killed /\ raw[t] # "value" THEN Outcome.lost ELSE Outcome[raw[t]])
  /\ killed' = killed \ {t}
  /\ UNCHANGED <<mix, at, phase, canceled, host, last, hosting, pool, gpus, raw, killing, harmed, shut>>

-----------------------------------------------------------------------------
Reader(h) == Idle(h) \/ Receives(h) \/ Ends(h) \/ Over(h) \/ \E t \in Tasks : GivesBack(h, t)
Main(h) == HostRuns(h) \/ HostCancels(h) \/ HostStops(h) \/ MainAnswers(h)
Goes(t) == PoolBegins(t) \/ PoolEnds(t) \/ FreeCard(t) \/ TakesUp(t) \/ ThreadEnds(t) \/ \E h \in Hosts : Begins(h, t) \/ Answers(h, t)
RayGoes(t) == RayEnds(t) \/ Finished(t)

Next ==
  \/ \E t \in Tasks : SubmitToHost(t) \/ SubmitToPool(t) \/ Cancel(t) \/ Goes(t)
  \/ \E t \in Tasks : SubmitToThread(t) \/ SubmitToRay(t) \/ StopNext(t) \/ RayGoes(t) \/ RayDies(t)
  \/ KillRay \/ Kill \/ Shutdown \/ Sent \/ PoolDies \/ PoolBreaks
  \/ \E h \in Hosts : Reader(h) \/ Main(h) \/ Waits(h) \/ HostDies(h)

\* Threads and processes go on, Ray as long as it is not shut down, and what a task runs comes to an end.
Fairness ==
  /\ WF_vars(Sent) /\ WF_vars(PoolBreaks)
  /\ \A h \in Hosts : WF_vars(Reader(h)) /\ WF_vars(Main(h))
  /\ \A t \in Tasks : WF_vars(Goes(t)) /\ WF_vars(StopNext(t)) /\ WF_vars(~shut /\ RayGoes(t))

Spec == Init /\ [][Next]_vars /\ Fairness
-----------------------------------------------------------------------------
TypeOK ==
  /\ mix \in Mixes /\ canceled \subseteq Tasks /\ shut \in BOOLEAN
  /\ state \in [Tasks -> {"free", "given", "done", "over"}]
  /\ how \in [Tasks -> {"none", "DONE", "ERROR", "LOST", "CANCELED"}]
  /\ phase \in [Tasks -> {"none", "sent", "queued", "begun", "ended"}]
  /\ last \in 0 .. Cardinality(Tasks) /\ at \in [Tasks -> Nat] /\ pool.is \in {"up", "dying", "broken"}
  /\ \A h \in Hosts : /\ host[h].pending \cup host[h].lost \subseteq Tasks
                      /\ host[h].reader \in {"poll", "idle", "end", "lost", "gone"}
                      /\ Len(host[h].inbox) <= Room /\ Len(host[h].back) <= Room
  /\ held \in [1 .. Cards -> Nat] /\ card \in [Tasks -> 0 .. Cards]
  /\ slot \in [Tasks -> 0 .. Slots] /\ late \cup killed \cup killing \subseteq Tasks
  /\ raw \in [Tasks -> {"none"} \cup DOMAIN Outcome]

HomeOf(t) == CASE mix[t] = "host" -> HostId(at[t]) [] mix[t] = "pool" -> PoolId(at[t]) [] OTHER -> RayId(t)

\* A task comes back lost only where its process, its pool or its worker came to harm: one that
\* leaves when it has nothing to do takes no task with it (`_read`: it goes under the lock).  It
\* comes back canceled only if the engine asked for that, and never because of `kill`, which the
\* engine tells apart (`_killed`).
LostByHarm ==
  /\ TypeOK
  /\ \A t \in Tasks : how[t] = "LOST" => shut \/ HomeOf(t) \in harmed
  /\ \A t \in Tasks : how[t] = "CANCELED" => shut \/ t \in canceled

\* Tasks that each need a whole card have one each (`_take_cards`: the engine's tokens keep their
\* sum within the cards, "here, only which ones"), unless one of the two was submitted between the
\* two callbacks of a task, when the engine had the token back and the card was still held: only
\* then a card has two.  And no two tell how far they are in one slot.
HeldByOne ==
  \A s, t \in Tasks : s # t /\ "given" = state[s] /\ "given" = state[t] =>
    /\ {mix[s], mix[t]} = {"pool"} /\ card[s] = card[t] => s \in late \/ t \in late
    /\ slot[s] # 0 => slot[s] # slot[t]

Promised == INSTANCE Contract WITH
  Chunks <- Tasks,
  has <- [t \in Tasks |-> IF state[t] = "free" THEN {} ELSE {t}],
  told <- [t \in Tasks |-> IF state[t] = "done" THEN {t} ELSE {}]
\* It is an executor as the engine asks for one: each task is told over once.
KeepsContract == Promised!Spec

\* Each task that is submitted is told over some day, whoever dies, leaves or is killed.
EveryTaskEnds == \A t \in Tasks : state[t] = "given" ~> (state[t] # "given" \/ (mix[t] = "ray" /\ shut))
=============================================================================
