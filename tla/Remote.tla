------------------------------- MODULE Remote -------------------------------
(***************************************************************************)
(* A remote executor (remote.py): the tasks the engine gives it for one    *)
(* job with a key become directories of another machine, whose queue runs  *)
(* a runner (runner.py) in each.  One thread here goes round: it takes     *)
(* what the engine said, asks over there what is new with one command, and *)
(* tidies up with another.                                                 *)
(*                                                                         *)
(* An element is known by its key on both sides, and a directory by its    *)
(* number.  A step of the thread is one command to the other machine, or   *)
(* what it does between two of them.                                       *)
(***************************************************************************)
EXTENDS Integers, Sequences, FiniteSets, SequencesExt, FiniteSetsExt

CONSTANTS
  Elements,    \* the elements of the job
  Failing,     \* those that raise over there
  Tasks,       \* the tasks of the engine
  DirsMax,     \* bound: numbers of directories
  KillsMax,    \* bound: runners that are stopped or killed
  LossesMax,   \* bound: clients closed or killed, commands that do not get to the other machine
  TroublesMax, \* bound: both together
  EndsMax,     \* bound: how often the job ends
  Apart,       \* a job is submitted again once nothing of its last end is to be done
  Carries,     \* what the tasks write to directories over there is brought here with their results
  Steady,      \* a job gone too early is queued again with no miss
  Homed,       \* a runner that is killed with a part of results has said where it runs
  Whole        \* a command that sends a job and is lost queued nothing

ASSUME RemoteAssumption ==
  /\ Failing \subseteq Elements
  /\ {DirsMax, KillsMax, LossesMax, TroublesMax, EndsMax} \subseteq Nat
  /\ {Apart, Carries, Steady, Homed, Whole} \subseteq BOOLEAN

VARIABLES
  \* Over there.
  dir,      \* the directories of the group: `<stem>-<n>`
  base,     \* how far each was when it was queued last
  taking,   \* the directory somebody here is about to remove, 0 for none (`remove_there`)
  \* The engine of the client.
  job,      \* on, off (it ended), kept (it was interrupted)
  done,     \* the elements whose results the journal here has
  task,     \* the tasks it gave
  closed,   \* `shutdown` was called
  \* The thread that talks to the other machine.
  inbox,    \* what the engine said
  pc,       \* where the thread is in its round
  closing,  \* `closed`, as this round read it
  news,     \* what the round has heard: the queue, the parts listed, who is still to be read
  known,    \* it has the group of the key
  follow,   \* the jobs of the group (`_Queued`)
  where,    \* the directory an element is in, not answered
  stash,    \* results nobody waited for
  next,     \* the number of the next directory
  leaving,  \* jobs of groups nobody asks any more, with nothing left, still in the queue
  swept,    \* directories to be removed at the end of the round
  orders,   \* what is to be run there
  kills, losses, ends

there == <<dir, base, taking>>
engine == <<job, done, task, closed>>
round == <<pc, closing, news>>
group == <<known, follow, where, stash, next>>
tidy == <<leaving, swept, orders>>
client == <<engine, inbox, round, group, tidy>>
count == <<kills, losses, ends>>
vars == <<there, client, count>>

Dirs == 1 .. DirsMax
Free == "free"      \* of an element of a directory: nobody asked for it yet
Answered == "answered"
NoDir == [there |-> FALSE, keys |-> {}, id |-> FALSE, failed |-> FALSE, place |-> "out",
             erred |-> {}, open |-> {}, parts |-> <<>>, errors |-> <<>>, journal |-> {}, status |-> "none", done |-> 0]
NoJob == [on |-> FALSE, waits |-> [e \in Elements |-> Answered], left |-> {}, parts |-> 0, errors |-> 0,
             done |-> 0, ending |-> FALSE, over |-> FALSE, kept |-> FALSE]
NoTask == [st |-> "free", keys |-> {}, left |-> {}, canceled |-> FALSE]
Silence == [alive |-> {}, parts |-> <<>>, todo |-> {}]
NoGroup ==
  /\ known' = FALSE /\ follow' = [j \in Dirs |-> NoJob] /\ where' = [e \in Elements |-> 0]
  /\ stash' = {} /\ next' = 1

Init ==
  /\ dir = [j \in Dirs |-> NoDir] /\ base = [j \in Dirs |-> 0] /\ taking = 0
  /\ job = "off" /\ done = {} /\ task = [t \in Tasks |-> NoTask] /\ closed = FALSE
  /\ inbox = <<>> /\ pc = "idle" /\ closing = FALSE /\ news = Silence
  /\ known = FALSE /\ follow = [j \in Dirs |-> NoJob] /\ where = [e \in Elements |-> 0]
  /\ stash = {} /\ next = 1
  /\ leaving = {} /\ swept = {} /\ orders = {}
  /\ kills = 0 /\ losses = 0 /\ ends = 0

Calm == kills + losses < TroublesMax
Final(status) == status = "completed"
Held(d) == UNION ToSet(d.parts)
Follows(j) == follow[j].on /\ ~follow[j].over
Live == {j \in Dirs : Follows(j)} \cup leaving
Going(t) == task[t].st \in {"sent", "taken"}
-----------------------------------------------------------------------------
(* Over there: the queue and the runner of a directory. *)

Runs(j, d) ==
  /\ dir[j].place = "running" /\ dir' = [dir EXCEPT ![j] = d]
  /\ UNCHANGED <<base, taking, client, count>>
Rolled(d) == [d EXCEPT !.parts = IF d.open = {} THEN @ ELSE Append(@, d.open), !.open = {}]

\* The runner begins with what one that was killed left; a job that ended is let be.
Starts(j) ==
  /\ dir[j].place = "queued"
  /\ dir' = [dir EXCEPT ![j] = IF Final(@.status) THEN [@ EXCEPT !.place = "out"]
                               ELSE [Rolled(@) EXCEPT !.place = "running"]]
  /\ UNCHANGED <<base, taking, client, count>>

\* A result is on disk first, then the journal counts it: nobody sees it in
\* between but who starts after a runner that was killed there (`KilledThere`).
ToDo(d) == d.keys \ (d.journal \cup d.erred)
Writes(j, e) ==
  /\ e \in ToDo(dir[j]) \ Failing
  /\ Runs(j, [dir[j] EXCEPT !.open = @ \cup {e}, !.journal = @ \cup {e}])
Raises(j, e) ==
  /\ e \in Failing \cap ToDo(dir[j])
  /\ Runs(j, [dir[j] EXCEPT !.errors = Append(@, e), !.erred = @ \cup {e}])

Told(d, status) == [d EXCEPT !.status = status, !.done = Cardinality(d.journal)]
\* A turn of its loop: the file gets its name when it is old enough, and what is done is told.
Turns(j) ==
  /\ ~Final(dir[j].status)
  /\ \E d \in {dir[j], Rolled(dir[j])} : Told(d, "running") # dir[j] /\ Runs(j, Told(d, "running"))
Ends(j) ==
  LET d == dir[j] IN
  /\ ToDo(d) = {} /\ d.open = {} /\ ~Final(d.status)
  /\ Runs(j, Told(d, "completed"))
Exits(j) == Final(dir[j].status) /\ Runs(j, [dir[j] EXCEPT !.place = "out"])

Out(d) == [d EXCEPT !.place = "out", !.erred = {}]
Stops(j, d) ==
  /\ dir[j].place = "running" /\ ~Final(dir[j].status) /\ kills < KillsMax /\ Calm
  /\ kills' = kills + 1
  /\ dir' = [dir EXCEPT ![j] = Out(d)]
  /\ UNCHANGED <<base, taking, client, losses, ends>>
\* Its time is over: a signal, and what is done shows; or no time for that.
Terminated(j) == Stops(j, Told(Rolled(dir[j]), "interrupted"))
\* With `Homed`, one that leaves a part has said by then where it runs.
Tells(d) == Homed /\ d.parts # <<>> => d.status # "none"
Killed(j) == \E d \in {dir[j], Rolled(dir[j])} : Tells(d) /\ Stops(j, d)
KilledThere(j, e) == e \in ToDo(dir[j]) \ Failing /\ Tells(dir[j]) /\ Stops(j, [dir[j] EXCEPT !.open = @ \cup {e}])

Runner(j) == \/ Starts(j) \/ Turns(j) \/ Ends(j) \/ Exits(j)
             \/ \E e \in Elements : Writes(j, e) \/ Raises(j, e)
-----------------------------------------------------------------------------
(* The engine of the client. *)

Says(m) == inbox' = Append(inbox, m)

Submit ==
  /\ job # "on" /\ ~closed /\ \E t \in Tasks : task[t].st = "free"
  /\ Apart => orders = {} /\ swept = {} /\ <<"ended", FALSE>> \notin ToSet(inbox)
  /\ job' = "on"
  /\ UNCHANGED <<there, done, task, closed, inbox, round, group, tidy, count>>

Waiting == UNION {task[t].left : t \in {u \in Tasks : Going(u)}}
Hand(t) ==
  /\ job = "on" /\ task[t].st = "free"
  /\ \E S \in SUBSET (Elements \ (done \cup Waiting)) :
       /\ S # {}
       /\ task' = [task EXCEPT ![t] = [st |-> "sent", keys |-> S, left |-> S, canceled |-> FALSE]]
  /\ Says(<<"task", t>>)
  /\ UNCHANGED <<there, job, done, closed, round, group, tidy, count>>

\* The job ended, was canceled, or is interrupted: its tasks are canceled, and then
\* the executor hears how it ended.
EndJob ==
  /\ job = "on" /\ ends < EndsMax
  /\ task' = [t \in Tasks |-> IF Going(t) THEN [task[t] EXCEPT !.canceled = TRUE] ELSE task[t]]
  /\ \E kept \in BOOLEAN : Says(<<"ended", kept>>) /\ job' = IF kept THEN "kept" ELSE "off"
  /\ ends' = ends + 1
  /\ UNCHANGED <<there, done, closed, round, group, tidy, kills, losses>>

Shutdown ==
  /\ job # "on" /\ ~closed /\ losses < LossesMax /\ Calm
  /\ closed' = TRUE
  /\ losses' = losses + 1
  /\ UNCHANGED <<there, job, done, task, inbox, round, group, tidy, kills, ends>>

\* Another process has the journal from here on.
Anew ==
  /\ NoGroup
  /\ task' = [t \in Tasks |-> IF Going(t) THEN [task[t] EXCEPT !.st = "over"] ELSE task[t]]
  /\ job' = IF job = "on" THEN "kept" ELSE job
  /\ closed' = FALSE /\ inbox' = <<>> /\ pc' = "idle" /\ closing' = FALSE /\ news' = Silence
  /\ leaving' = {} /\ swept' = {} /\ orders' = {} /\ taking' = 0

\* What the journal had not written yet is lost with the process.
Die ==
  /\ job = "on" /\ losses < LossesMax /\ Calm
  /\ Anew
  /\ done' \in SUBSET done
  /\ losses' = losses + 1
  /\ UNCHANGED <<dir, base, kills, ends>>
-----------------------------------------------------------------------------
(* A round of the thread: first what the engine said. *)

\* Mutant: who waits is not asked to wait no longer.
FreedNot(f, T) == f
Freed(f, T) == [j \in Dirs |-> [f[j] EXCEPT !.waits = [e \in Elements |-> IF @[e] \in T THEN Free ELSE @[e]]]]
\* Mutant: what is canceled is said to be done.
OverDone(T) == [t \in Tasks |-> IF t \in T THEN [task[t] EXCEPT !.st = "done"] ELSE task[t]]
Over(T) == [t \in Tasks |-> IF t \in T THEN [task[t] EXCEPT !.st = "over"] ELSE task[t]]

Canceled == {t \in Tasks : task[t].st = "taken" /\ task[t].canceled}
Woken == inbox # <<>> \/ Canceled # {} \/ closed
Round ==
  LET T == Canceled IN
  /\ pc = "idle" /\ Woken
  /\ pc' = "drain" /\ closing' = closed
  /\ task' = Over(T)
  /\ follow' = Freed(follow, T)
  /\ UNCHANGED <<there, job, done, closed, inbox, news, known, where, stash, next, tidy, count>>

Heard(kind) == pc = "drain" /\ inbox # <<>> /\ Head(inbox)[1] = kind
Refused(t) == task[t].canceled \/ closing
NeedsGroup ==
  ~known /\ ((Heard("ended") /\ ~Head(inbox)[2]) \/ (Heard("task") /\ ~Refused(Head(inbox)[2])))

Refuse ==
  /\ Heard("task") /\ Refused(Head(inbox)[2])
  /\ task' = Over({Head(inbox)[2]})
  /\ inbox' = Tail(inbox)
  /\ UNCHANGED <<there, job, done, closed, round, group, tidy, count>>

\* What an earlier run left over there is found again, read from its first part on.
Found(d) ==
  LET L == d.keys \ ToSet(d.errors) IN
  [NoJob EXCEPT !.on = TRUE, !.left = L, !.errors = Len(d.errors),
                !.waits = [e \in Elements |-> IF e \in L THEN Free ELSE Answered]]
\* What never got to the queue.
Unsent == {j \in Dirs : dir[j].there /\ ~dir[j].failed /\ ~dir[j].id}
TakeUp ==
  LET Q == {j \in Dirs : dir[j].there /\ ~dir[j].failed /\ dir[j].id}
      In(e) == {j \in Q : e \in Found(dir[j]).left} IN
  /\ NeedsGroup
  /\ known' = TRUE
  /\ follow' = [j \in Dirs |-> IF j \in Q THEN Found(dir[j]) ELSE NoJob]
  /\ where' = [e \in Elements |-> IF In(e) = {} THEN 0 ELSE Max(In(e))]
  /\ stash' = {}
  /\ next' = 1 + Max({0} \cup {j \in Dirs : dir[j].there})
  /\ orders' = orders \cup ({"remove"} \X Unsent)
  /\ UNCHANGED <<there, engine, inbox, round, leaving, swept, count>>
\* The group cannot be asked for: the task fails, and an end is not heard of again.
TakeUpFails ==
  /\ NeedsGroup /\ losses < LossesMax /\ Calm
  /\ losses' = losses + 1
  /\ inbox' = Tail(inbox)
  /\ task' = IF Heard("task") THEN Over({Head(inbox)[2]}) ELSE task
  /\ UNCHANGED <<there, job, done, closed, round, group, tidy, kills, ends>>

Idle(e) == where[e] # 0 /\ follow[where[e]].waits[e] = Free
FreshOf(t) == {e \in task[t].keys : ~Idle(e) /\ e \notin stash}
Sent(t, S) == [NoDir EXCEPT !.there = TRUE, !.keys = S, !.id = TRUE, !.place = "queued"]
NewJob(t, S) == [NoJob EXCEPT !.on = TRUE, !.left = S, !.waits = [e \in Elements |-> IF e \in S THEN t ELSE Answered]]
Joined(t) == [j \in Dirs |-> [follow[j] EXCEPT !.waits =
                   [e \in Elements |-> IF e \in task[t].keys /\ Idle(e) /\ where[e] = j THEN t ELSE @[e]]]]

\* `_send`: a directory of its own, packed and queued with one command, is followed from here on.
Sends(t, F) ==
  /\ follow' = [Joined(t) EXCEPT ![next] = NewJob(t, F)]
  /\ where' = [e \in Elements |-> IF e \in F THEN next ELSE where[e]]
  /\ dir' = [dir EXCEPT ![next] = Sent(t, F)]
  /\ base' = [base EXCEPT ![next] = 0]
  /\ next' = next + 1
  /\ UNCHANGED taking

\* Each element is waited for where it is, and sent if it is nowhere.
Accept ==
  LET t == Head(inbox)[2]
      F == FreshOf(t)
      S == task[t].keys \cap stash IN
  /\ Heard("task") /\ ~Refused(t) /\ known
  /\ F # {} => next \in Dirs
  /\ task' = [task EXCEPT ![t] = [@ EXCEPT !.left = @ \ S, !.st = IF task[t].left = S THEN "done" ELSE "taken"]]
  /\ done' = done \cup S
  /\ stash' = stash \ S
  /\ inbox' = Tail(inbox)
  /\ IF F = {} THEN /\ follow' = Joined(t)
                    /\ UNCHANGED <<there, where, next>>
     ELSE Sends(t, F)
  /\ UNCHANGED <<job, closed, round, known, tidy, count>>

\* The command that sends it is lost on its way, or halfway, or with its answer.
SendFails ==
  LET t == Head(inbox)[2]
      F == FreshOf(t) IN
  /\ Heard("task") /\ ~Refused(t) /\ known /\ F # {} /\ next \in Dirs /\ losses < LossesMax /\ Calm
  /\ losses' = losses + 1
  /\ task' = Over({t})
  /\ inbox' = Tail(inbox)
  /\ next' = next + 1
  /\ \E d \in {dir[next], [NoDir EXCEPT !.there = TRUE, !.keys = F]} \cup (IF Whole THEN {} ELSE {Sent(t, F)}) :
       dir' = [dir EXCEPT ![next] = d]
  /\ UNCHANGED <<base, taking, job, done, closed, round, known, follow, where, stash, tidy, kills, ends>>

\* Interrupted: it goes on there, and here it is forgotten.
Forget ==
  /\ Heard("ended") /\ Head(inbox)[2]
  /\ NoGroup
  /\ inbox' = Tail(inbox)
  /\ UNCHANGED <<there, engine, round, tidy, count>>

\* Ended: its jobs leave the queue and their directories go.
Stop ==
  LET J == {j \in Dirs : follow[j].on}
      S == {j \in J : ~follow[j].over /\ follow[j].left # {}} IN
  /\ Heard("ended") /\ ~Head(inbox)[2] /\ known
  /\ orders' = orders \cup ({"stop"} \X S)
  /\ leaving' = leaving \cup {j \in J : ~follow[j].over /\ follow[j].left = {}}
  /\ swept' = swept \cup S \cup {j \in J : follow[j].over /\ ~follow[j].kept}
  /\ NoGroup
  /\ inbox' = Tail(inbox)
  /\ UNCHANGED <<there, engine, round, count>>
-----------------------------------------------------------------------------
(* Then, when it is due, one command: who is in the queue, what parts there
   are, and what the runners say. *)

Ask ==
  /\ pc = "drain" \/ (pc = "idle" /\ ~Woken)
  /\ inbox = <<>> /\ Live # {} /\ ~closing
  /\ news' = [alive |-> {j \in Live : dir[j].place # "out"}, parts |-> <<>>, todo |-> Live]
  /\ pc' = "list"
  /\ UNCHANGED <<there, engine, inbox, closing, group, tidy, count>>

List ==
  /\ pc = "list"
  /\ news' = [news EXCEPT !.parts = [j \in news.todo |-> Len(dir[j].parts)]]
  /\ pc' = "read"
  /\ UNCHANGED <<there, engine, inbox, closing, group, tidy, count>>

\* Nothing is due yet, or there is nothing to ask about.
Pass ==
  /\ pc = "drain" /\ inbox = <<>>
  /\ pc' = "tidy"
  /\ UNCHANGED <<there, engine, inbox, closing, news, group, tidy, count>>

Miss ==
  /\ pc = "list" /\ losses < LossesMax /\ Calm
  /\ losses' = losses + 1
  /\ pc' = "tidy" /\ news' = Silence
  /\ UNCHANGED <<there, engine, inbox, closing, group, tidy, kills, ends>>

\* What the round brings of a directory.
PartsOf(j) == Min({news.parts[j], Len(dir[j].parts)})
Results(j) == UNION {dir[j].parts[i] : i \in follow[j].parts + 1 .. PartsOf(j)} \cap follow[j].left
Errors(j) == (ToSet(SubSeq(dir[j].errors, follow[j].errors + 1, Len(dir[j].errors))) \cap follow[j].left) \ Results(j)
InQueue(j) == j \in news.alive /\ ~Final(dir[j].status)
\* Mutant: one look is enough.
GoneAtOnce(j) == ~InQueue(j)
\* Mutant: only a runner that said so is gone.
GoneEnded(j) == ~InQueue(j) /\ follow[j].ending /\ Final(dir[j].status)
\* Its last part may have got its name while the round was being read: a second look.
Gone(j) == ~InQueue(j) /\ follow[j].ending

\* `S` of the elements of j are answered with results, `E` with errors: to who
\* waits for them, or for who asks later.
Answers(j, S, E, q) ==
  LET A == S \cup E
      Mine(t) == {e \in A : follow[j].waits[e] = t} IN
  /\ follow' = [follow EXCEPT ![j] = [q EXCEPT !.left = @ \ A,
                  !.waits = [e \in Elements |-> IF e \in A THEN Answered ELSE @[e]]]]
  /\ where' = [e \in Elements |-> IF e \in A /\ where[e] = j THEN 0 ELSE where[e]]
  /\ stash' = stash \cup {e \in S : follow[j].waits[e] = Free}
  /\ task' = [t \in Tasks |-> IF Mine(t) = {} THEN task[t]
                ELSE [task[t] EXCEPT !.left = @ \ Mine(t), !.st = IF task[t].left = Mine(t) THEN "done" ELSE @]]
  /\ done' = done \cup {e \in S : follow[j].waits[e] \in Tasks}
  /\ UNCHANGED <<job, closed, inbox, known, next>>

Turn(j) ==
  /\ pc = "read" /\ j = Min(news.todo)
  /\ news' = IF news.todo = {j} THEN Silence ELSE [news EXCEPT !.todo = @ \ {j}]
  /\ pc' = IF news.todo = {j} THEN "tidy" ELSE pc
  /\ UNCHANGED <<closing, kills, ends>>
ReadOf(j) == [follow[j] EXCEPT !.parts = Max({@, PartsOf(j)}), !.errors = Len(dir[j].errors)]
LeftOf(j) == follow[j].left \ (Results(j) \cup Errors(j))
Further(j) == ~Final(dir[j].status) /\ dir[j].done > follow[j].done

\* Parts came, and its runner has not said yet where it runs: nothing of it is read in this round.
Homeless(j) == Carries /\ PartsOf(j) > follow[j].parts /\ dir[j].status = "none"
Skips(j) ==
  /\ Turn(j) /\ Follows(j) /\ Homeless(j)
  /\ UNCHANGED <<there, engine, inbox, group, tidy, losses>>
Reads(j) == Turn(j) /\ Follows(j) /\ ~Homeless(j)

\* What its results name does not come: the round ends there, and the next reads these parts again.
BringFails(j) ==
  /\ pc = "read" /\ j = Min(news.todo) /\ Follows(j) /\ ~Homeless(j)
  /\ Carries /\ PartsOf(j) > follow[j].parts /\ losses < LossesMax /\ Calm
  /\ losses' = losses + 1
  /\ pc' = "tidy" /\ news' = Silence
  /\ UNCHANGED <<there, engine, inbox, closing, group, tidy, kills, ends>>

\* It goes on, or has nothing left, or looks as if it were gone.
Read(j) ==
  /\ Reads(j)
  /\ \/ /\ InQueue(j)
        /\ Answers(j, Results(j), Errors(j), [ReadOf(j) EXCEPT !.ending = FALSE])
     \/ /\ ~InQueue(j) /\ LeftOf(j) = {}
        /\ Answers(j, Results(j), Errors(j), [ReadOf(j) EXCEPT !.over = TRUE])
     \/ /\ ~InQueue(j) /\ LeftOf(j) # {} /\ ~Gone(j)
        /\ Answers(j, Results(j), Errors(j), [ReadOf(j) EXCEPT !.ending = TRUE])
  /\ leaving' = IF InQueue(j) THEN leaving ELSE leaving \ {j}
  /\ swept' = IF InQueue(j) \/ j \notin leaving THEN swept ELSE swept \cup {j}
  /\ UNCHANGED <<there, orders, losses>>

\* Of a group nobody asks any more: it left the queue by itself.
Left(j) ==
  /\ Turn(j) /\ ~Follows(j)
  /\ leaving' = IF InQueue(j) THEN leaving ELSE leaving \ {j}
  /\ swept' = IF InQueue(j) \/ j \notin leaving THEN swept ELSE swept \cup {j}
  /\ UNCHANGED <<there, engine, inbox, group, orders, losses>>

\* Out of the queue too early, and further than it was: once more.
Requeue(j) ==
  /\ Reads(j) /\ Gone(j) /\ LeftOf(j) # {} /\ Further(j)
  /\ Answers(j, Results(j), Errors(j), [ReadOf(j) EXCEPT !.ending = FALSE, !.done = dir[j].done])
  /\ dir' = [dir EXCEPT ![j].place = IF @ = "out" THEN "queued" ELSE @]
  /\ base' = [base EXCEPT ![j] = dir[j].done]
  /\ UNCHANGED <<taking, tidy, losses>>

\* The round ends there; how far it was is noted all the same.
RequeueFails(j) ==
  /\ pc = "read" /\ j = Min(news.todo) /\ Follows(j) /\ ~Homeless(j) /\ Gone(j) /\ LeftOf(j) # {} /\ Further(j)
  /\ ~Steady /\ losses < LossesMax /\ Calm
  /\ losses' = losses + 1
  /\ Answers(j, Results(j), Errors(j), [ReadOf(j) EXCEPT !.ending = FALSE, !.done = dir[j].done])
  /\ pc' = "tidy" /\ news' = Silence
  /\ UNCHANGED <<there, closing, tidy, kills, ends>>

\* No further than it was, or ended with elements missing: who waits gets an error.
GiveUp(j) ==
  /\ Reads(j) /\ Gone(j) /\ LeftOf(j) # {} /\ ~Further(j)
  /\ Answers(j, Results(j), follow[j].left \ Results(j), [ReadOf(j) EXCEPT !.over = TRUE, !.kept = TRUE])
  /\ orders' = orders \cup {<<"mark", j>>}
  /\ UNCHANGED <<there, leaving, swept, losses>>
-----------------------------------------------------------------------------
(* And at last what is to be run there. *)

Removed(o) == {j \in Dirs : <<"remove", j>> \in o}
Obeyed(o) == [j \in Dirs |-> IF j \in Removed(o) THEN NoDir
                              ELSE LET d == IF <<"stop", j>> \in o THEN Out(dir[j]) ELSE dir[j] IN
                                   [d EXCEPT !.failed = @ \/ (<<"mark", j>> \in o /\ d.there)]]
\* Mutant: what is to be removed is not.
OrdersOnly == orders
\* With the executor closed, what only waited to leave the queue waits no longer.
AllOrders == orders \cup ({"remove"} \X (IF closing THEN swept \cup leaving ELSE swept))

Tidy ==
  /\ pc = "tidy" /\ ~closing
  /\ dir' = Obeyed(AllOrders)
  /\ orders' = {} /\ swept' = {}
  /\ pc' = "idle"
  /\ UNCHANGED <<base, taking, engine, inbox, closing, news, group, leaving, count>>
TidyFails ==
  /\ pc = "tidy" /\ ~closing /\ AllOrders # {} /\ losses < LossesMax /\ Calm
  /\ losses' = losses + 1
  /\ orders' = AllOrders /\ swept' = {}
  /\ pc' = "idle"
  /\ UNCHANGED <<there, engine, inbox, closing, news, group, leaving, kills, ends>>

\* The last round of an executor that is closed: its process may go then.
TidyAndLeave ==
  /\ pc = "tidy" /\ closing
  /\ dir' = Obeyed(AllOrders)
  /\ Anew
  /\ UNCHANGED <<base, done, count>>

-----------------------------------------------------------------------------
(* Somebody looks after the other machine (`jobs_there`, `remove_there`). *)

\* A directory this executor does not follow is to go...
RemoveBegins(j) ==
  /\ taking = 0 /\ dir[j].there /\ j \notin Live /\ losses < LossesMax /\ Calm
  /\ taking' = j /\ losses' = losses + 1
  /\ UNCHANGED <<dir, base, client, kills, ends>>

\* ... and goes, whoever follows it by then.
RemoveEnds ==
  /\ taking # 0
  /\ dir' = [dir EXCEPT ![taking] = NoDir]
  /\ taking' = 0
  /\ UNCHANGED <<base, client, count>>
-----------------------------------------------------------------------------
Said == Refuse \/ TakeUp \/ TakeUpFails \/ Accept \/ SendFails \/ Forget \/ Stop
Polls == \/ List \/ Miss
         \/ \E j \in Dirs : Read(j) \/ Skips(j) \/ BringFails(j) \/ Left(j) \/ Requeue(j) \/ RequeueFails(j) \/ GiveUp(j)
Watch == Round \/ Said \/ Ask \/ Polls \/ Pass \/ Tidy \/ TidyFails \/ TidyAndLeave
Engine == Submit \/ EndJob \/ Shutdown \/ \E t \in Tasks : Hand(t)

Next == \/ Watch \/ Engine \/ Die \/ RemoveEnds
        \/ \E j \in Dirs : RemoveBegins(j) \/ Runner(j) \/ Terminated(j) \/ Killed(j) \/ \E e \in Elements : KilledThere(j, e)

\* The thread goes on, a round is due now and then, the queue runs what it has.
Fairness == /\ WF_vars(Watch) /\ SF_vars(Ask)
            /\ \A j \in Dirs : WF_vars(Runner(j))
Spec == Init /\ [][Next]_vars /\ Fairness
-----------------------------------------------------------------------------
TypeOK ==
  /\ dir \in [Dirs -> [there : BOOLEAN, keys : SUBSET Elements, id : BOOLEAN, failed : BOOLEAN,
                       place : {"out", "queued", "running"}, erred : SUBSET Elements,
                       open : SUBSET Elements, parts : Seq(SUBSET Elements), errors : Seq(Elements),
                       journal : SUBSET Elements, status : {"none", "running", "interrupted", "completed"}, done : Nat]]
  /\ follow \in [Dirs -> [on : BOOLEAN, waits : [Elements -> Tasks \cup {Free, Answered}], left : SUBSET Elements,
                          parts : Nat, errors : Nat, done : Nat, ending : BOOLEAN, over : BOOLEAN, kept : BOOLEAN]]
  /\ task \in [Tasks -> [st : {"free", "sent", "taken", "done", "over"}, keys : SUBSET Elements,
                         left : SUBSET Elements, canceled : BOOLEAN]]
  /\ where \in [Elements -> 0 .. DirsMax] /\ taking \in 0 .. DirsMax
  /\ \A e \in Elements : where[e] # 0 => follow[where[e]].on /\ e \in follow[where[e]].left
  /\ stash \subseteq Elements /\ done \subseteq Elements
  /\ pc \in {"idle", "drain", "list", "read", "tidy"} /\ job \in {"on", "off", "kept"}

\* Each element a task waits for is waited for in exactly one directory, one that is asked about;
\* nobody waits for a task that is over, and no element is computed by two directories of the queue
\* at once: through jobs lost on their way, taken up, queued again, given up and canceled.
InOnePlace ==
  /\ TypeOK
  /\ \A t \in Tasks : task[t].st = "taken" /\ ~task[t].canceled => \A e \in task[t].left :
       Cardinality({j \in Dirs : Follows(j) /\ e \in follow[j].left /\ follow[j].waits[e] = t}) = 1
  /\ \A j \in Dirs : \A e \in Elements : follow[j].waits[e] \in Tasks => task[follow[j].waits[e]].st = "taken"
  /\ \A e \in Elements : Cardinality({j \in Dirs : dir[j].place # "out" /\ e \in dir[j].keys \ (Held(dir[j]) \cup ToSet(dir[j].errors))}) <= 1

\* A job is given up only when it got no further since it was queued last, and
\* none of the results it left in a part is answered with an error.
GivesUpInVain ==
  [][\A j \in Dirs : follow'[j].kept /\ ~follow[j].kept =>
       /\ Final(dir[j].status) \/ dir[j].done <= base[j]
       /\ \A e \in Held(dir[j]) \cap follow[j].left : follow[j].waits[e] = Free => e \in stash'
       /\ \A e \in Held(dir[j]) \cap follow[j].left : follow[j].waits[e] \in Tasks => e \in done']_vars

\* A job that ended leaves nothing there but what was given up.
NothingLeft ==
  pc = "idle" /\ inbox = <<>> /\ job = "off" /\ losses = 0 =>
    \A j \in Dirs : dir[j].there => dir[j].failed \/ j \in leaving

Given == INSTANCE Contract WITH
  Chunks <- Elements,
  state <- [t \in Tasks |-> IF Going(t) THEN "given" ELSE task[t].st],
  has <- [t \in Tasks |-> task[t].keys],
  told <- [t \in Tasks |-> task[t].keys \ task[t].left]
\* It is an executor as the engine asks for one.
KeepsContract == Given!Spec

\* A task that is sent is over some day.
EveryTaskEnds == \A t \in Tasks : task[t].st = "sent" ~> ~Going(t)
=============================================================================
