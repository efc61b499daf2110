------------------------------ MODULE Campaign ------------------------------
(***************************************************************************)
(* A campaign (campaign.py, and `_stages` of runner.py): stages that run   *)
(* one after the other in one job of another machine's queue, in a         *)
(* directory for each attempt, and the thread here that sends them, follows *)
(* the attempt and gives the engine what comes back.  The queue kills, the *)
(* scratch is purged, the process here dies, and whoever submits the       *)
(* campaign again finds the attempt it is at.                              *)
(*                                                                         *)
(* A shell command is one step, but for the one that asks how an attempt   *)
(* is: it reads the progress first and the rest later.  Elements that fail *)
(* fail in every run.                                                      *)
(***************************************************************************)
EXTENDS Integers, Sequences, FiniteSets, SequencesExt, FiniteSetsExt

CONSTANTS
  Final,        \* the stages are 1 .. Final
  Size,         \* how many elements each has
  Failing,      \* the elements that fail: pairs of a stage and an element
  Reducing,     \* the stages with a `reduce`
  Streamed,     \* those whose results come back one by one
  Reduced,      \* those of which comes back what their reduce made
  AttemptsMax,  \* bound: attempts
  TroublesMax   \* bound: runners killed, purges, commands that do not get through, jobs ended too early

Stages == 1 .. Final
Attempts == 0 .. AttemptsMax - 1
Elements(s) == 1 .. Size[s]

ASSUME CampaignAssumption ==
  /\ Final \in Nat \ {0} /\ AttemptsMax \in Nat \ {0}
  /\ Size \in [Stages -> Nat]
  /\ Reduced \subseteq Reducing /\ Reducing \subseteq Stages /\ Streamed \subseteq Stages

VARIABLES
  dir,      \* what is over there of each attempt
  run,      \* where the runner of each attempt is, while it is running
  pc,       \* where the thread is that follows the campaign here; "off" where there is none
  here,     \* what that thread knows: the attempt, and how much of it came
  told,     \* the progress it read, until it has looked at it
  got,      \* what came back of this attempt to the job that runs, or to the one that completed
  job,      \* the job here: none, running, or how it ended
  heard,    \* `ended` was called for it
  slipped,  \* history: it was canceled, and that did not reach what is over there, or more was sent later
  troubles  \* how much went wrong

there == <<dir, run>>
client == <<pc, here, told, got>>
vars == <<there, client, job, heard, slipped, troubles>>

NotDone == [parts |-> 0, errors |-> 0]
Untold == [status |-> "none", stages |-> 0, done |-> 0, left |-> [s \in Stages |-> NotDone]]
NoDir == [there |-> FALSE, place |-> "out", cancelled |-> FALSE, lost |-> FALSE,
          byQueue |-> FALSE, journal |-> [s \in Stages |-> {}], over |-> {}, open |-> [s \in Stages |-> {}],
          parts |-> [s \in Stages |-> <<>>], errors |-> [s \in Stages |-> <<>>], reduced |-> {}, done |-> {},
          left |-> [s \in Stages |-> NotDone], told |-> Untold,
          cut |-> FALSE,                      \* history: it was stopped between a stage's end and its mark
          taken |-> [s \in Stages |-> {}]]    \* history: what was purged while the last part was left
NoRun == [s |-> 0, step |-> "none", failed |-> {}]
Fresh == [n |-> 0, dir |-> FALSE, stop |-> FALSE, first |-> TRUE, parts |-> [s \in Stages |-> 0],
          errors |-> [s \in Stages |-> 0], reduced |-> Reduced, ending |-> FALSE, was |-> <<>>, again |-> FALSE]
NothingGot == [results |-> [s \in Stages |-> {}], errors |-> [s \in Stages |-> {}], reduced |-> {},
               taken |-> [s \in Stages |-> {}]]

Init ==
  /\ dir = [a \in Attempts |-> NoDir] /\ run = [a \in Attempts |-> NoRun]
  /\ pc = "off" /\ here = Fresh /\ told = Untold /\ got = NothingGot
  /\ job = "none" /\ heard = TRUE /\ slipped = FALSE
  /\ troubles = 0

-----------------------------------------------------------------------------
(* The runner of an attempt. *)

Out(a) == /\ dir' = [dir EXCEPT ![a].place = "out"]
          /\ run' = [run EXCEPT ![a] = NoRun]
Rolled(d, s) == IF d.open[s] = {} THEN d
                ELSE [d EXCEPT !.parts[s] = Append(@, d.open[s]), !.open[s] = {}]
Says(d, status, s) ==
  [d EXCEPT !.told = [Untold EXCEPT !.status = status, !.stages = s - 1, !.done = Cardinality(d.journal[s])]]
Current(d) == Min((Stages \ d.done) \cup {Final + 1})
Runs(a, s, step) == run[a].s = s /\ run[a].step = step /\ dir[a].there
OfRunner == UNCHANGED <<client, job, heard, slipped, troubles>>
AnotherTrouble == troubles < TroublesMax /\ troubles' = troubles + 1

\* A runner that is stopped goes out of the queue.
Stopped(d, r) == [d EXCEPT !.place = "out", !.cut = @ \/ (d.there /\ r.step \in {"reduce", "mark"})]

\* A job that says it ended is not run again, and one whose stage is over in its journal, but not
\* marked done, cannot be: the journal refuses it.
NothingToDo(d) == d.told.status \in {"completed", "failed"}
Refused(d) == Current(d) <= Final /\ Current(d) \in d.over
Starts(a) ==
  /\ dir[a].there /\ dir[a].place = "queued"
  /\ LET d == dir[a]  s == Current(d) IN
     IF NothingToDo(d) THEN Out(a)
     ELSE IF Refused(d)
     THEN /\ dir' = [dir EXCEPT ![a] = [Rolled(d, s) EXCEPT !.place = "out", !.told = [Untold EXCEPT !.status = "failed"]]]
          /\ UNCHANGED run
     ELSE /\ dir' = [dir EXCEPT ![a] = [(IF s <= Final THEN Rolled(d, s) ELSE d) EXCEPT !.place = "running"]]
          /\ run' = [run EXCEPT ![a] = [NoRun EXCEPT !.s = s, !.step = IF s <= Final THEN "job" ELSE "end"]]
  /\ OfRunner

\* An element of the stage ends: its result is in the open part and in the journal.
ToDo(a, s) == Elements(s) \ (dir[a].journal[s] \cup run[a].failed)
Works(a) ==
  \E s \in Stages : \E e \in ToDo(a, s) :
    /\ Runs(a, s, "job")
    /\ IF <<s, e>> \in Failing
       THEN /\ dir' = [dir EXCEPT ![a].errors[s] = Append(@, e)]
            /\ run' = [run EXCEPT ![a].failed = @ \cup {e}]
       ELSE /\ dir' = [dir EXCEPT ![a].open[s] = @ \cup {e}, ![a].journal[s] = @ \cup {e}]
            /\ UNCHANGED run
    /\ OfRunner

\* A part that is old enough gets its name, and the progress is written.
Turns(a) ==
  /\ \E s \in Stages :
       /\ Runs(a, s, "job") /\ ToDo(a, s) # {}
       /\ \E d \in {dir[a], Rolled(dir[a], s)} : dir' = [dir EXCEPT ![a] = Says(d, "running", s)]
       /\ dir' # dir
  /\ UNCHANGED run /\ OfRunner

\* Mutant: each stage says so.
CompletedEach(s) == "completed"
EndOf(s) == IF s = Final THEN "completed" ELSE "running"
JobEnds(a) ==
  /\ \E s \in Stages :
       /\ Runs(a, s, "job") /\ ToDo(a, s) = {}
       /\ dir' = [dir EXCEPT ![a] = [Says(Rolled(dir[a], s), EndOf(s), s) EXCEPT !.over = @ \cup {s}]]
       /\ run' = [run EXCEPT ![a].step = IF s \in Reducing THEN "reduce" ELSE "mark"]
  /\ OfRunner

Reduces(a) ==
  /\ \E s \in Stages : Runs(a, s, "reduce") /\ dir' = [dir EXCEPT ![a].reduced = @ \cup {s}]
  /\ run' = [run EXCEPT ![a].step = "mark"]
  /\ OfRunner

\* `done` says what the stage left.
Leaves(d, s) == [parts |-> Len(d.parts[s]), errors |-> Len(d.errors[s])]
Marks(a) ==
  /\ \E s \in Stages :
       /\ Runs(a, s, "mark")
       /\ dir' = [dir EXCEPT ![a].done = @ \cup {s}, ![a].left[s] = Leaves(dir[a], s)]
       /\ run' = [run EXCEPT ![a] = [NoRun EXCEPT !.s = s + 1, !.step = IF s = Final THEN "end" ELSE "job"]]
  /\ OfRunner

\* The last word.
Ends(a) ==
  /\ Runs(a, Final + 1, "end")
  /\ dir' = [dir EXCEPT ![a].place = "out", ![a].told = [@ EXCEPT !.status = "completed", !.stages = Final, !.left = dir[a].left]]
  /\ run' = [run EXCEPT ![a] = NoRun]
  /\ OfRunner

\* One whose directory was taken away fails.
Collapses(a) ==
  /\ dir[a].place # "out" /\ ~dir[a].there
  /\ Out(a) /\ OfRunner

\* The queue stops it: at once, or with time to close its part and to say so.
Killed(a) ==
  /\ dir[a].place = "running" /\ dir[a].there
  /\ AnotherTrouble
  /\ run' = [run EXCEPT ![a] = NoRun]
  /\ \E d \in {dir[a]} \cup (IF run[a].step = "job" THEN {Says(Rolled(dir[a], run[a].s), "interrupted", run[a].s)} ELSE {}) :
       dir' = [dir EXCEPT ![a] = Stopped(d, run[a])]
  /\ UNCHANGED <<client, job, heard, slipped>>

CanceledThere(a) ==
  /\ dir[a].place # "out" /\ dir[a].there
  /\ AnotherTrouble
  /\ dir' = [dir EXCEPT ![a] = [Stopped(dir[a], run[a]) EXCEPT !.byQueue = TRUE]]
  /\ run' = [run EXCEPT ![a] = NoRun]
  /\ UNCHANGED <<client, job, heard, slipped>>

\* A purge takes a directory, or results of one that is complete.
Complete(t) == t.status = "completed" /\ t.stages = Final
Without(parts, I) == [i \in DOMAIN parts |-> IF i \in I THEN {} ELSE parts[i]]
Unnoticed(parts, I) == IF Len(parts) \in I THEN {} ELSE UNION {parts[i] : i \in I}
TakenOf(d, s) ==
  {[d EXCEPT !.parts[s] = Without(@, I), !.taken[s] = @ \cup Unnoticed(d.parts[s], I)] :
     I \in (SUBSET DOMAIN d.parts[s]) \ {{}}}
  \cup {[d EXCEPT !.errors[s] = <<>>]}
Purged(a) ==
  /\ dir[a].there
  /\ AnotherTrouble
  /\ \/ dir' = [dir EXCEPT ![a] = [NoDir EXCEPT !.place = dir[a].place]]
     \/ /\ Complete(dir[a].told)
        /\ \E s \in Stages : \E d \in TakenOf(dir[a], s) : dir' = [dir EXCEPT ![a] = d]
  /\ UNCHANGED <<run, client, job, heard, slipped>>

-----------------------------------------------------------------------------
(* The job here, and the thread that reads its source. *)

\* It is submitted: for the first time, or after it ended.
Submit ==
  /\ job # "running" /\ heard /\ pc = "off"
  /\ job' = "running" /\ heard' = FALSE /\ slipped' = FALSE
  /\ pc' = "place" /\ here' = Fresh /\ told' = Untold /\ got' = NothingGot
  /\ UNCHANGED <<there, troubles>>

\* What the thread does alone.
Alone == UNCHANGED <<job, heard, slipped, troubles>>
Goes(to) == pc' = to
Names(a) == [here EXCEPT !.n = a, !.dir = TRUE]
Ended(how) ==
  /\ pc' = "off"
  /\ job' = IF job = "running" THEN how ELSE job
  /\ here' = IF heard THEN Fresh ELSE [Fresh EXCEPT !.n = here.n, !.dir = here.dir]
Stays == UNCHANGED <<here, job>>

\* `_look`: one command says what an attempt is, and nothing of one that is not there.
Look(a) ==
  [told |-> dir[a].told, cancelled |-> dir[a].cancelled, lost |-> dir[a].lost, byQueue |-> dir[a].byQueue,
   alive |-> dir[a].there /\ dir[a].place # "out"]

\* Find the attempt it is at, or start one.
Tried == {a \in Attempts : dir[a].there}
StartsOver(look) == look.cancelled \/ look.byQueue \/ look.lost \/ look.told.status = "failed"
Place ==
  /\ pc = "place"
  /\ IF Tried = {}
     THEN here' = Names(0) /\ Goes("upload") /\ UNCHANGED dir
     ELSE LET a == Max(Tried)  look == Look(a) IN
          /\ dir' = [dir EXCEPT ![a].cancelled = @ \/ look.byQueue]
          /\ IF StartsOver(look)
             THEN a + 1 \in Attempts /\ here' = Names(a + 1) /\ Goes("upload")
             ELSE here' = Names(a) /\ Goes(IF look.alive \/ Complete(look.told) THEN "follow" ELSE "fill")
  /\ UNCHANGED <<run, told, got>> /\ Alone

\* A directory is made, and the files go to it.
Upload ==
  /\ pc = "upload" /\ dir[here.n].place = "out"
  /\ dir' = [dir EXCEPT ![here.n].there = TRUE]
  /\ Goes("fill")
  /\ UNCHANGED <<run, here, told, got>> /\ Alone

\* What is not there as it was here goes again.
Fill ==
  /\ pc = "fill"
  /\ IF dir[here.n].there
     THEN Goes("submit") /\ Stays
     ELSE Ended("failed")
  /\ UNCHANGED <<there, told, got, heard, slipped, troubles>>

\* Queued where it is, unless its job is in the queue already.
QueuedAgain(a) ==
  /\ dir' = [dir EXCEPT ![a].cancelled = FALSE, ![a].byQueue = FALSE, ![a].place = IF @ = "out" THEN "queued" ELSE @]
  /\ slipped' = (slipped \/ (job = "canceled" /\ heard))
Queue ==
  /\ pc = "submit"
  /\ IF dir[here.n].there
     THEN QueuedAgain(here.n) /\ Goes("follow") /\ here' = [here EXCEPT !.first = FALSE] /\ UNCHANGED job
     ELSE Ended("failed") /\ UNCHANGED <<dir, slipped>>
  /\ UNCHANGED <<run, told, got, heard, troubles>>

\* A command that finds the other machine out of reach, and may have had its effect there: while
\* the attempt is looked for, all is asked again; later, only what is asked every round, but for
\* the mark of one that was canceled in the queue.
Insists == pc \in {"follow", "state"} \/ (pc # "again" /\ here.first /\ ~here.again)
Lost ==
  /\ pc \in {"place", "upload", "fill", "submit", "follow", "state", "again"}
  /\ AnotherTrouble
  /\ \/ Insists /\ ~here.stop /\ Goes(IF pc \in {"follow", "state"} THEN pc ELSE "place") /\ Stays
     \/ (Insists => here.stop \/ (pc = "state" /\ dir[here.n].byQueue)) /\ Ended("failed")
  /\ \/ pc = "submit" /\ dir[here.n].there /\ QueuedAgain(here.n)
     \/ UNCHANGED <<dir, slipped>>
  /\ UNCHANGED <<run, told, got, heard>>

\* A round: the progress is read, and then what there is.
Ask ==
  /\ pc = "follow"
  /\ IF here.stop
     THEN Ended("failed") /\ UNCHANGED told
     ELSE /\ Goes("read") /\ UNCHANGED job
          /\ told' = IF dir[here.n].there THEN dir[here.n].told ELSE Untold
          /\ here' = [here EXCEPT !.first = FALSE]
  /\ UNCHANGED <<there, got, heard, slipped, troubles>>

\* Parts are asked for by their numbers, errors by how many lines came, and what a reduce made once.
NewParts(d, s) == {i \in DOMAIN d.parts[s] : i > here.parts[s] /\ d.parts[s][i] # {}}
NewErrors(d, s) == {d.errors[s][i] : i \in (here.errors[s] + 1) .. Len(d.errors[s])}
Came(d) ==
  [results |-> [s \in Stages |-> got.results[s] \cup (IF s \in Streamed THEN UNION {d.parts[s][i] : i \in NewParts(d, s)} ELSE {})],
   errors |-> [s \in Stages |-> got.errors[s] \cup NewErrors(d, s)],
   reduced |-> got.reduced \cup (here.reduced \cap d.reduced),
   taken |-> d.taken]
Counted(d) ==
  [here EXCEPT !.parts = [s \in Stages |-> Max({here.parts[s]} \cup (IF s \in Streamed THEN NewParts(d, s) ELSE {}))],
               !.errors = [s \in Stages |-> Len(d.errors[s])],
               !.reduced = @ \ d.reduced]
\* Mutant: what is missing is not looked for.
NothingMissing(h) == FALSE
\* What it said it left is not all there any longer.
Missing(h) ==
  \/ \E s \in Streamed : h.parts[s] < told.left[s].parts
  \/ \E s \in Stages : h.errors[s] < told.left[s].errors
  \/ h.reduced # {}
Whole(h) == Complete(told) /\ ~Missing(h)
Gone(d, h) == ~d.there \/ (Complete(told) /\ Missing(h))
\* Out of the queue, read in two rounds: its last word may have come after the first.
\* Mutant: it is waited for, whatever.
NeverLeft(h) == FALSE
LeftForGood(h) == h.ending

Read ==
  /\ pc = "read"
  /\ LET d == dir[here.n]  h == Counted(d) IN
     /\ got' = IF job = "running" THEN Came(d) ELSE NothingGot
     /\ \/ /\ d.there /\ Whole(h)
           /\ Ended("completed")
        \/ /\ Gone(d, h) /\ h.again
           /\ Ended("failed")
        \/ /\ Gone(d, h) /\ ~h.again
           /\ Goes("again") /\ here' = h /\ UNCHANGED job
        \/ /\ ~Gone(d, h) /\ ~Whole(h) /\ told.status = "failed"
           /\ Ended("failed")
        \/ /\ ~Gone(d, h) /\ ~Whole(h) /\ told.status # "failed" /\ UNCHANGED job
           /\ \/ d.place # "out" /\ Goes("follow") /\ here' = [h EXCEPT !.ending = FALSE]
              \/ d.place = "out" /\ ~LeftForGood(h) /\ Goes("follow") /\ here' = [h EXCEPT !.ending = TRUE]
              \/ d.place = "out" /\ LeftForGood(h) /\ Goes("state") /\ here' = h
  /\ told' = IF pc' = "state" THEN told ELSE Untold
  /\ UNCHANGED <<there, heard, slipped, troubles>>

\* A new attempt, once: the job of this one is canceled and it is marked.
Anew ==
  /\ pc = "again" /\ here.n + 1 \in Attempts
  /\ dir' = [dir EXCEPT ![here.n] = [Stopped(dir[here.n], run[here.n]) EXCEPT !.lost = dir[here.n].there]]
  /\ run' = [run EXCEPT ![here.n] = NoRun]
  /\ here' = [Fresh EXCEPT !.n = here.n + 1, !.dir = TRUE, !.stop = here.stop, !.again = TRUE]
  /\ got' = NothingGot
  /\ Goes("upload")
  /\ UNCHANGED told /\ Alone

\* It left the queue before its end: why, and whether it got any further.
Now == <<told.stages, told.done>>
NoFurther == here.was # <<>> /\ (Now[1] < here.was[1] \/ (Now[1] = here.was[1] /\ Now[2] <= here.was[2]))
State ==
  /\ pc = "state"
  /\ \/ /\ Look(here.n).byQueue
        /\ dir' = [dir EXCEPT ![here.n].cancelled = TRUE]
        /\ Ended("failed")
     \/ /\ ~Look(here.n).byQueue /\ NoFurther
        /\ Ended("failed") /\ UNCHANGED dir
     \/ /\ ~Look(here.n).byQueue /\ ~NoFurther
        /\ Goes("submit") /\ here' = [here EXCEPT !.was = Now, !.ending = FALSE]
        /\ UNCHANGED <<dir, job>>
  /\ told' = Untold
  /\ UNCHANGED <<run, got, heard, slipped, troubles>>

Follows == Place \/ Upload \/ Fill \/ Queue \/ Ask \/ Read \/ Anew \/ State

-----------------------------------------------------------------------------
(* The end of the job, which may come before its source's. *)

EndJob(how) ==
  /\ job = "running"
  /\ AnotherTrouble
  /\ job' = how /\ got' = NothingGot
  /\ UNCHANGED <<there, pc, here, told, heard, slipped>>

\* `Campaign.ended`, on the engine's delivery thread: its command may not get through, and does
\* nothing where there is no directory.
\* Mutant: it is marked, and stays in the queue.
OnlyMarked(d, r) == [d EXCEPT !.cancelled = TRUE]
Canceled(d, r) == [Stopped(d, r) EXCEPT !.cancelled = TRUE]
Hear ==
  /\ job \notin {"none", "running"} /\ ~heard
  /\ heard' = TRUE
  /\ here' = IF pc = "off" THEN Fresh ELSE [here EXCEPT !.stop = TRUE]
  /\ \/ /\ job = "canceled" /\ here.dir /\ dir[here.n].there
        /\ dir' = [dir EXCEPT ![here.n] = Canceled(dir[here.n], run[here.n])]
        /\ run' = [run EXCEPT ![here.n] = NoRun]
        /\ UNCHANGED <<slipped, troubles>>
     \/ /\ job = "canceled" /\ here.dir
        /\ AnotherTrouble
        /\ slipped' = TRUE /\ UNCHANGED there
     \/ /\ job = "canceled" => ~here.dir \/ ~dir[here.n].there
        /\ slipped' = (job = "canceled" /\ ~here.dir) /\ UNCHANGED <<there, troubles>>
  /\ UNCHANGED <<pc, told, got, job>>

Die ==
  /\ job = "running"
  /\ AnotherTrouble
  /\ pc' = "off" /\ job' = "interrupted" /\ heard' = TRUE
  /\ here' = Fresh /\ told' = Untold /\ got' = NothingGot
  /\ UNCHANGED <<there, slipped>>

Runner(a) == Starts(a) \/ Works(a) \/ JobEnds(a) \/ Reduces(a) \/ Marks(a) \/ Ends(a) \/ Collapses(a)

Next ==
  \/ \E a \in Attempts : Runner(a) \/ Turns(a) \/ Killed(a) \/ CanceledThere(a) \/ Purged(a)
  \/ Submit \/ Follows \/ Lost \/ Hear \/ Die
  \/ \E how \in {"canceled", "interrupted"} : EndJob(how)

\* The thread goes on, the queue runs what it has, and a runner does what it has to do.
Fairness ==
  /\ WF_vars(Follows) /\ WF_vars(Hear)
  /\ WF_vars(\E a \in Attempts : Runner(a))

Spec == Init /\ [][Next]_vars /\ Fairness
-----------------------------------------------------------------------------
TypeOK ==
  /\ pc \in {"off", "place", "upload", "fill", "submit", "follow", "read", "again", "state"}
  /\ job \in {"none", "running", "canceled", "interrupted", "completed", "failed"} /\ heard \in BOOLEAN
  /\ here.n \in Attempts /\ here.parts \in [Stages -> Nat] /\ here.errors \in [Stages -> Nat] /\ here.reduced \subseteq Reduced
  /\ \A a \in Attempts :
       /\ dir[a].place \in {"out", "queued", "running"} /\ run[a].s \in 0 .. Final + 1
       /\ dir[a].place = "running" /\ dir[a].there => run[a] # NoRun
       /\ \A s \in Stages : dir[a].journal[s] \cup dir[a].open[s] \subseteq Elements(s)

\* A job that completed was given all there is of the campaign: each element that failed in whatever
\* stage, what was made of the others, and each result that is asked for, but for those a purge
\* took before they were read while it left the last part of their stage.
AllDelivered ==
  TypeOK /\ (job = "completed" =>
    /\ \A s \in Streamed : LET all == {e \in Elements(s) : <<s, e>> \notin Failing}
                           IN  got.results[s] \subseteq all /\ all \ got.results[s] \subseteq got.taken[s]
    /\ \A s \in Stages : got.errors[s] = {e \in Elements(s) : <<s, e>> \in Failing}
    /\ got.reduced = Reduced)

\* No two attempts that have their directories are in the queue.
OneAttempt == Cardinality({a \in Attempts : dir[a].there /\ dir[a].place # "out"}) <= 1

\* A campaign that is canceled here does not go on there, unless its attempt was not found yet, the
\* command was lost, or the thread was sending it and queued it afterwards.
CanceledHere ==
  job = "canceled" /\ heard /\ ~slipped => \A a \in Attempts : dir[a].there => dir[a].place = "out"

\* One attempt goes on there at a time, and none of a campaign that was canceled.
OneOrNoneThere == OneAttempt /\ CanceledHere

\* A runner that starts where stages are left to run runs them, unless an earlier one was stopped
\* just between the end of the job of the stage it is at and the mark of that stage.
GoesOn ==
  [][\A a \in Attempts :
       Starts(a) /\ dir[a].done # Stages => dir'[a].place = "running" \/ (dir[a].cut /\ Refused(dir[a]))]_vars

\* Whoever follows a campaign comes to an end.
FollowerEnds == [](pc # "off" => <>(pc = "off" \/ (pc = "again" /\ here.n + 1 \notin Attempts)
                                   \/ (pc = "place" /\ Max(Tried \cup {0}) + 1 \notin Attempts)))
=============================================================================
