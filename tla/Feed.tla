-------------------------------- MODULE Feed --------------------------------
(***************************************************************************)
(* One job of the engine (engine/engine.py) as its two threads share it:   *)
(* the feeder reads the source of chunks and puts them in `ready`, the     *)
(* loop takes them from there.  They meet in `ready`, in the event `room`, *)
(* which the feeder waits for when it read a window ahead, in the flag     *)
(* `hungry`, by which the loop asks to be woken when there is enough for a *)
(* task, and in the status.  None of this is under a lock, so every read   *)
(* and write of the shared state is a step of its own.                     *)
(*                                                                         *)
(* The job has the executor to itself: what other jobs do could only wake  *)
(* the loop more often.  Chunks are counted, not named: which is which is  *)
(* the business of module Chunks.                                          *)
(***************************************************************************)
EXTENDS Integers, FiniteSets, FiniteSetsExt

CONSTANTS
  Settings,   \* the pairs <<batch, window>> a job may be submitted with, 0 for one left out
  Capacity,   \* how many tasks the executor holds at once
  PackMax,    \* the most chunks the engine puts in a task by itself (`_PACK_MAX`)
  Largest,    \* bound: no task has more chunks than this
  SourceMax,  \* bound: the most chunks the source gives
  TripsMax    \* bound: how often chunks go back in line, all together

Default(n, otherwise) == IF n = 0 THEN otherwise ELSE n

ASSUME FeedAssumption ==
  /\ Settings \in SUBSET (Nat \X Nat) /\ Settings # {}
  /\ Largest \in Nat /\ PackMax <= Largest
  /\ \A s \in Settings : Default(s[1], 1) <= Largest
  /\ Capacity \in Nat \ {0}
  /\ PackMax \in Nat \ {0}
  /\ SourceMax \in Nat
  /\ TripsMax \in Nat

VARIABLES
  batch,     \* `job.batch`: how many chunks its submitter wants in a task, 0 for as many as suit
  elastic,   \* `job.elastic`: the window grows with the tasks
  size,      \* `job.pack`: how many chunks go to a task
  window,    \* `job.window`
  status,    \* running, or why not
  given,     \* how many chunks the source gave
  ready,     \* how many of them are in line
  seq,       \* `job.seq`: how many left it
  open,      \* `job.open`
  hand,      \* the chunks of the task the loop is putting together
  flying,    \* for every number, how many of the tasks with the executor have that many chunks to tell of
  late,      \* chunks whose result is on its way to the callback
  backoff,   \* chunks that failed and wait for their timer
  trips,     \* how often a chunk went back in line
  room,      \* the event the feeder waits for
  hungry,    \* the loop wants to hear of the next chunks
  fed,       \* `_on_fed` events on their way to the loop
  source,    \* reading, told (its end is an event on its way) or ended (`fed_all`)
  total,     \* `job.total`, set when the source ends
  fpc,       \* where the feeder is
  lpc        \* where the loop is

settings == <<batch, elastic>>
tasks    == <<flying, late, backoff, trips>>
vars == <<settings, size, window, status, given, ready, seq, open, hand, tasks, room, hungry, fed,
          source, total, fpc, lpc>>

\* The window of a job, as `submit` works it out.
WindowOf(b, w) == LET one == Default(b, 1) IN Max({Default(w, 2 * Capacity * one), one})

\* The window an elastic job has once its tasks are of `n` chunks.
Stretched(n) == 2 * Capacity * n

\* No window is larger than this.
WidestFirst == IF elastic THEN Max({window, Stretched(PackMax)}) ELSE window

Need == IF source = "ended" THEN 1 ELSE Default(batch, 1)

Inflight == MapThenSumSet(LAMBDA n : flying[n], 0 .. Largest)

TypeOK ==
  /\ batch \in Nat /\ elastic \in BOOLEAN
  /\ size \in 1 .. Largest /\ window \in Nat \ {0}
  /\ status \in {"running", "over", "stopped"}
  /\ given \in 0 .. SourceMax
  /\ ready \in Nat /\ seq \in Nat /\ open \in Nat
  /\ hand \in 0 .. Largest
  /\ flying \in [0 .. Largest -> Nat]
  /\ late \in Nat /\ backoff \in Nat /\ trips \in 0 .. TripsMax
  /\ room \in BOOLEAN /\ hungry \in BOOLEAN
  /\ fed \in Nat
  /\ source \in {"reading", "told", "ended"}
  /\ total \in Int
  /\ fpc \in {"pull", "check", "clear", "recheck", "wait", "look", "append", "asked", "enough",
              "answer", "tell", "end", "left"}
  /\ lpc \in {"idle", "awake", "start", "starve", "recheck", "take", "pack", "room", "set",
              "drop", "release"}

Init ==
  /\ \E s \in Settings :
       /\ batch = s[1] /\ elastic = (s[2] = 0)
       /\ size = Default(s[1], 1)
       /\ window = WindowOf(s[1], s[2])
  /\ status = "running"
  /\ given = 0 /\ ready = 0 /\ seq = 0 /\ open = 0 /\ hand = 0
  /\ flying = [n \in 0 .. Largest |-> 0]
  /\ late = 0 /\ backoff = 0 /\ trips = 0
  /\ room = FALSE /\ hungry = FALSE
  /\ fed = 0 /\ source = "reading" /\ total = -1
  /\ fpc = "pull" /\ lpc = "start"

-----------------------------------------------------------------------------
(* The feeder thread: `_feed` *)

Feeder(from, to) == fpc = from /\ fpc' = to

sharedOfFeeder == <<given, ready, room, hungry, fed, source>>
ofLoop == <<settings, size, window, status, seq, open, hand, tasks, total, lpc>>

\* `while len(ready) >= job.window`
LookForRoom == fpc' = IF ready >= window THEN "clear" ELSE "look"

\* The source gives a chunk, ends, or raises.  The one it gave may have to wait for room.
Pull ==
  /\ \/ given < SourceMax /\ fpc = "pull" /\ LookForRoom
     \/ Feeder("pull", "end")
  /\ UNCHANGED <<sharedOfFeeder, ofLoop>>

Check ==
  /\ fpc = "check" /\ LookForRoom
  /\ UNCHANGED <<sharedOfFeeder, ofLoop>>

Clear ==
  /\ Feeder("clear", "recheck")
  /\ room' = FALSE
  /\ UNCHANGED <<given, ready, hungry, fed, source, ofLoop>>

Recheck ==
  /\ IF ready >= window THEN Feeder("recheck", "wait") ELSE Feeder("recheck", "check")
  /\ UNCHANGED <<sharedOfFeeder, ofLoop>>

Wait ==
  /\ room
  /\ Feeder("wait", "check")
  /\ UNCHANGED <<sharedOfFeeder, ofLoop>>

\* The job may have been stopped meanwhile: then this is the end of the thread.
Look ==
  /\ IF status = "running" THEN Feeder("look", "append") ELSE Feeder("look", "left")
  /\ UNCHANGED <<sharedOfFeeder, ofLoop>>

AppendChunk ==
  /\ Feeder("append", "asked")
  /\ given' = given + 1
  /\ ready' = ready + 1
  /\ UNCHANGED <<room, hungry, fed, source, ofLoop>>

\* `if job.hungry and len(ready) >= job.batch`, one read after the other.
Asked ==
  /\ IF hungry THEN Feeder("asked", "enough") ELSE Feeder("asked", "pull")
  /\ UNCHANGED <<sharedOfFeeder, ofLoop>>

Enough ==
  /\ IF ready >= batch THEN Feeder("enough", "answer") ELSE Feeder("enough", "pull")
  /\ UNCHANGED <<sharedOfFeeder, ofLoop>>

Answer ==
  /\ Feeder("answer", "tell")
  /\ hungry' = FALSE
  /\ UNCHANGED <<given, ready, room, fed, source, ofLoop>>

Tell ==
  /\ Feeder("tell", "pull")
  /\ fed' = fed + 1
  /\ UNCHANGED <<given, ready, room, hungry, source, ofLoop>>

End ==
  /\ Feeder("end", "left")
  /\ source' = "told"
  /\ UNCHANGED <<given, ready, room, hungry, fed, ofLoop>>

FeederStep ==
  \/ Pull \/ Check \/ Clear \/ Recheck \/ Wait \/ Look \/ AppendChunk \/ Asked \/ Enough
  \/ Answer \/ Tell \/ End

-----------------------------------------------------------------------------
(* The loop thread, a dispatch pass: `_start_one` until it starts nothing *)

ofFeeder == <<given, fpc>>

Loop(from, to) == lpc = from /\ lpc' = to

\* May the job start a task now?
MayStart == status = "running" /\ open < window /\ Inflight < Capacity

Start ==
  /\ lpc \in {"awake", "start"}
  /\ lpc' = IF ~MayStart THEN "idle" ELSE IF ready < Need THEN "starve" ELSE "take"
  /\ UNCHANGED <<settings, size, window, status, ready, seq, open, hand, tasks, room, hungry, fed,
                 source, total, ofFeeder>>

\* Mutant: the loop goes to sleep on what it saw before it said it was hungry.
StarveAtOnce ==
  /\ Loop("starve", "idle")
  /\ hungry' = TRUE
  /\ UNCHANGED <<settings, size, window, status, ready, seq, open, hand, tasks, room, fed, source,
                 total, ofFeeder>>

Starve ==
  /\ Loop("starve", "recheck")
  /\ hungry' = TRUE
  /\ UNCHANGED <<settings, size, window, status, ready, seq, open, hand, tasks, room, fed, source,
                 total, ofFeeder>>

RecheckReady ==
  /\ IF ready < Need THEN Loop("recheck", "idle") ELSE Loop("recheck", "take")
  /\ UNCHANGED <<settings, size, window, status, ready, seq, open, hand, tasks, room, hungry, fed,
                 source, total, ofFeeder>>

TakeOne ==
  /\ ready' = ready - 1
  /\ seq' = seq + 1
  /\ open' = open + 1
  /\ hand' = hand + 1

Take ==
  /\ Loop("take", "pack")
  /\ TakeOne
  /\ UNCHANGED <<settings, size, window, status, tasks, room, hungry, fed, source, total, ofFeeder>>

\* How many chunks the task may have.  The tail of a source is shared out among the workers.
MostInTask ==
  IF source = "ended" /\ batch = 0
  THEN Min({size, (ready + hand + Capacity - 1) \div Capacity})
  ELSE size

PackOn == hand < MostInTask /\ open < window /\ ready > 0

\* Mutant: a task is filled however many chunks are open.
PackPastWindow ==
  /\ Loop("pack", "pack")
  /\ hand < MostInTask /\ ready > 0
  /\ TakeOne
  /\ UNCHANGED <<settings, size, window, status, tasks, room, hungry, fed, source, total, ofFeeder>>

Pack ==
  /\ Loop("pack", "pack")
  /\ PackOn
  /\ TakeOne
  /\ UNCHANGED <<settings, size, window, status, tasks, room, hungry, fed, source, total, ofFeeder>>

Launch ==
  /\ Loop("pack", "room")
  /\ ~PackOn
  /\ flying' = [flying EXCEPT ![hand] = @ + 1]
  /\ hand' = 0
  /\ UNCHANGED <<settings, size, window, status, ready, seq, open, late, backoff, trips, room,
                 hungry, fed, source, total, ofFeeder>>

\* Half empty, the line is worth a wake-up of the feeder.
HalfEmpty ==
  /\ IF 2 * ready <= window THEN Loop("room", "set") ELSE Loop("room", "start")
  /\ UNCHANGED <<settings, size, window, status, ready, seq, open, hand, tasks, room, hungry, fed,
                 source, total, ofFeeder>>

SetRoom ==
  /\ Loop("set", "start")
  /\ room' = TRUE
  /\ UNCHANGED <<settings, size, window, status, ready, seq, open, hand, tasks, hungry, fed,
                 source, total, ofFeeder>>

DispatchStep ==
  \/ Start \/ Starve \/ RecheckReady \/ Take \/ Pack \/ Launch \/ HalfEmpty \/ SetRoom

-----------------------------------------------------------------------------
(* The loop thread, the events: as many as are waiting, then a dispatch pass *)

Listening == lpc \in {"idle", "awake"} /\ lpc' = "awake"

\* Mutant: chunks that are open do not keep the job from being over.
OverEarly(isFed, line, n) == isFed = "ended" /\ line = 0

\* `_finish_if_over`
Over(isFed, line, n) == isFed = "ended" /\ line = 0 /\ n = 0
FinishIfOver(isFed, line, n) ==
  status' = IF status = "running" /\ Over(isFed, line, n) THEN "over" ELSE status

OnFed ==
  /\ Listening
  /\ fed > 0
  /\ fed' = fed - 1
  /\ UNCHANGED <<settings, size, window, status, ready, seq, open, hand, tasks, room, hungry,
                 source, total, ofFeeder>>

\* `_on_source_end`: from now on `fed_all` is true and the job has its total.
OnSourceEnd ==
  /\ Listening
  /\ source = "told"
  /\ source' = "ended"
  /\ total' = IF status = "running" THEN seq + ready ELSE total
  /\ FinishIfOver(source', ready, open)
  /\ UNCHANGED <<settings, size, window, ready, seq, open, hand, tasks, room, hungry, fed, ofFeeder>>

\* A task that ran well tells how many chunks suit the next one, unless the job was told.
Repace(ranWell) ==
  IF ranWell /\ batch = 0
  THEN /\ size' \in 1 .. PackMax
       /\ window' = IF elastic THEN Stretched(size') ELSE window
  ELSE UNCHANGED <<size, window>>

\* `_on_done`: a task with `n` chunks to tell of came back.  Some of them go to the callback,
\* some failed for good, some wait to run again.
OnDone(n, well, again) ==
  /\ Listening
  /\ flying[n] > 0
  /\ flying' = [flying EXCEPT ![n] = @ - 1]
  /\ trips + again <= TripsMax
  /\ \/ /\ status = "running"
        /\ late' = late + well
        /\ backoff' = backoff + again
        /\ trips' = trips + again
        /\ open' = open - (n - well - again)
        /\ FinishIfOver(source, ready, open')
        /\ \E ranWell \in BOOLEAN : Repace(ranWell)
     \/ /\ status # "running"
        /\ UNCHANGED <<late, backoff, trips, open, status, size, window>>
  /\ UNCHANGED <<settings, ready, seq, hand, room, hungry, fed, source, total, ofFeeder>>

\* `_on_done` for a task that was spared: its chunks go straight back in line.
OnSpared(n) ==
  /\ Listening
  /\ flying[n] > 0 /\ n > 0
  /\ status = "running"
  /\ trips + n <= TripsMax
  /\ flying' = [flying EXCEPT ![n] = @ - 1]
  /\ trips' = trips + n
  /\ ready' = ready + n
  /\ open' = open - n
  /\ seq' = seq - n
  /\ UNCHANGED <<settings, size, window, status, hand, late, backoff, room, hungry, fed, source,
                 total, ofFeeder>>

\* `_on_part`: a chunk ended ahead of its task, well or not.
OnPart(n) ==
  /\ Listening
  /\ n > 0 /\ flying[n] > 0
  /\ status = "running"
  /\ flying' = [flying EXCEPT ![n] = @ - 1, ![n - 1] = @ + 1]
  /\ \E well \in 0 .. 1 : \E again \in 0 .. 1 - well :
       /\ trips + again <= TripsMax
       /\ late' = late + well /\ backoff' = backoff + again /\ trips' = trips + again
       /\ open' = open - (1 - well - again)
  /\ FinishIfOver(source, ready, open')
  /\ UNCHANGED <<settings, size, window, ready, seq, hand, room, hungry, fed, source, total, ofFeeder>>

\* `_on_delivered`: the callback took this many results.
OnDelivered(n) ==
  /\ Listening
  /\ late >= n
  /\ late' = late - n
  /\ open' = IF status = "running" THEN open - n ELSE open
  /\ FinishIfOver(source, ready, open')
  /\ UNCHANGED <<settings, size, window, ready, seq, hand, flying, backoff, trips, room, hungry,
                 fed, source, total, ofFeeder>>

\* `_requeue`, when its timer is due.
Requeue ==
  /\ Listening
  /\ backoff > 0
  /\ backoff' = backoff - 1
  /\ IF status = "running"
     THEN ready' = ready + 1 /\ open' = open - 1 /\ seq' = seq - 1
     ELSE UNCHANGED <<ready, open, seq>>
  /\ UNCHANGED <<settings, size, window, status, hand, flying, late, trips, room, hungry, fed,
                 source, total, ofFeeder>>

\* The job is stopped: `_finish` writes the status, empties the line and wakes the feeder.
Stop ==
  /\ lpc \in {"idle", "awake"} /\ lpc' = "drop"
  /\ status = "running"
  /\ status' = "stopped"
  /\ UNCHANGED <<settings, size, window, ready, seq, open, hand, tasks, room, hungry, fed, source,
                 total, ofFeeder>>

Drop ==
  /\ Loop("drop", "release")
  /\ ready' = 0
  /\ UNCHANGED <<settings, size, window, status, seq, open, hand, tasks, room, hungry, fed, source,
                 total, ofFeeder>>

Release ==
  /\ Loop("release", "awake")
  /\ room' = TRUE
  /\ UNCHANGED <<settings, size, window, status, ready, seq, open, hand, tasks, hungry, fed,
                 source, total, ofFeeder>>

-----------------------------------------------------------------------------

LoopStep == DispatchStep \/ Drop \/ Release

TaskBack ==
  \/ \E n \in 0 .. Largest : \E well \in 0 .. n : \E again \in 0 .. n - well : OnDone(n, well, again)
  \/ \E n \in 0 .. Largest : OnSpared(n)

SomeDelivered == \E n \in 1 .. late : OnDelivered(n)

LoopTurn == LoopStep \/ OnFed \/ OnSourceEnd \/ Requeue \/ TaskBack \/ SomeDelivered

Next ==
  \/ FeederStep
  \/ LoopTurn
  \/ \E n \in 0 .. Largest : OnPart(n)
  \/ Stop

\* Both threads go on, the source gives chunks or ends, the executor answers for its tasks, the
\* callback returns and timers are due.  That something is done is enough: the loop is owed
\* nothing in any order.  Nobody has to stop the job.
Fairness == WF_vars(FeederStep) /\ WF_vars(LoopTurn)

Spec == Init /\ [][Next]_vars /\ Fairness

-----------------------------------------------------------------------------
(* Safety *)

\* What `submit` says of the window: so many chunks between dispatch and delivered result, and
\* so many more read ahead.  It holds although the feeder appends on a length it read some
\* steps before, while the loop may be putting chunks back in line.
ReadAhead ==
  /\ TypeOK
  /\ open <= WidestFirst
  /\ ready + open <= 2 * WidestFirst

\* Once the source ended the total of the job is what it gave, whatever was in line, open or back in
\* line then (`seq + len(ready)` in `_on_source_end`), and the job is over only when all of it is
\* counted: nothing is in line, with the executor, on its way to the callback or waiting for a timer
\* (`_finish_if_over`).
OverMeansOver ==
  /\ source = "ended" /\ status # "stopped" => total = given
  /\ status = "over" => /\ fpc = "left"
                        /\ ready = 0 /\ hand = 0 /\ late = 0 /\ backoff = 0
                        /\ \A n \in 1 .. Largest : flying[n] = 0

-----------------------------------------------------------------------------
(* Liveness *)

\* The job ends, with no help from any other: none of its two threads is left waiting for the
\* other one.
JobEnds == <>(status # "running")

\* The feeder of a job that was stopped sees it and leaves (`_finish`: "a feeder waiting for room
\* wakes up, sees the status and leaves").
FeederLeaves == []<>(status = "stopped" => fpc = "left")

\* Neither of the two threads of a job waits for the other for ever.
BothSidesEnd == JobEnds /\ FeederLeaves
=============================================================================
