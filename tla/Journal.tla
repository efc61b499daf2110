------------------------------ MODULE Journal -------------------------------
(***************************************************************************)
(* One job that goes by a key, through the runs and the processes it takes *)
(* to complete it: the engine (engine/engine.py) with its loop thread, the *)
(* delivery thread and the feeders, and the journal (engine/journal.py)    *)
(* with the thread that writes its file.  The loop only appends records to *)
(* a queue; the writer puts what is in the queue on disk in one            *)
(* transaction; the process may die at any moment, be closed, and start    *)
(* again with what is on disk.                                             *)
(*                                                                         *)
(* Each submission of the key is a run with a number; a run that continues *)
(* another one has the same number in the file (`job.n`).  An executor is  *)
(* only a place from which results come back, in any order (module         *)
(* Chunks), and the source of every run gives the same chunks.             *)
(***************************************************************************)
EXTENDS Integers, Sequences, FiniteSets, SequencesExt

CONSTANTS
  Source,     \* the chunks the source of the job gives, one after the other
  Sour,       \* the chunks whose result the callback may refuse, by raising
  RunsMax,    \* bound: how often the key is submitted
  Unwanted,   \* bound: the runs somebody may cancel
  LapsesMax,  \* bound: crashes and failed writes
  Hasty,      \* callers submit or discard a key again before the end of its last run is announced
  Firm        \* no failed write takes the record of a job that begins

ASSUME JournalAssumption ==
  /\ Source \in Seq(ToSet(Source)) /\ IsInjective(Source)
  /\ Sour \subseteq ToSet(Source)
  /\ RunsMax \in Nat \ {0}
  /\ Unwanted \in SUBSET Nat
  /\ LapsesMax \in Nat
  /\ Hasty \in BOOLEAN /\ Firm \in BOOLEAN

VARIABLES
  row,        \* the job in the file: its number and status
  rows,       \* the chunks on record as done, as pairs of job number and chunk
  records,    \* the queue of the writer
  buffer,     \* what the writer has in its transaction
  live,       \* `live`: the run whose counters the writer keeps up to date, 0 if none
  broken,     \* `journal.failed`
  writing,    \* the writer thread lives
  flushed,    \* whose flush is written, and who has yet to notice
  claimed,    \* the key is claimed
  next,       \* `_next`: the number of the next new job
  status,     \* `job.status` of each run
  num,        \* `job.n`
  skips,      \* the last run continues one that had chunks done
  todo,       \* the chunks its feeder has yet to get from its source
  fed,        \* its source ended (`fed_all`)
  out,        \* its chunks with the executor
  open,       \* its chunks between dispatch and outcome
  spoilt,     \* its chunks that failed for good
  events,     \* what waits for the loop
  looping,    \* the loop thread lives
  closing,    \* `close` was called
  deliveries, \* what waits for the delivery thread
  at,         \* what the delivery thread is at
  noted,      \* the event `_announce` waits for is set
  announced,  \* runs whose end was announced
  caller,     \* what the caller is doing
  taken,      \* how often the callback took each chunk since the job was last discarded
  lapses,     \* how many crashes and failed writes there were
  lost        \* a write failed in this process or in an earlier one

disk    == <<row, rows>>
writer  == <<records, buffer, live, broken, writing, flushed>>
work    == <<skips, todo, fed, out, open, spoilt>>
known   == <<status, num, next, claimed>>
threads == <<events, looping, closing, deliveries, at, noted>>
ghosts  == <<taken, lapses, lost>>
vars == <<disk, writer, known, work, threads, announced, caller, ghosts>>

Chunks    == ToSet(Source)
Runs      == 1 .. RunsMax
Ended     == {"completed", "failed", "canceled", "interrupted"}
Resumable == {"canceled", "interrupted"}
NoRow     == [n |-> 0, s |-> "none"]

Item(op, r, c, ok) == [op |-> op, run |-> r, chunk |-> c, ok |-> ok]
Bare(op)       == Item(op, 0, "none", TRUE)
OfRun(op, r)   == Item(op, r, "none", TRUE)
Nothing        == Bare("nothing")
Items(ops)     == [op : ops, run : 0 .. RunsMax, chunk : Chunks \cup {"none"}, ok : BOOLEAN]

TypeOK ==
  /\ row \in [n : 0 .. RunsMax, s : {"none", "running"} \cup Ended]
  /\ rows \subseteq (1 .. RunsMax) \X Chunks
  /\ records \in Seq(Items({"job", "chunk", "ended", "flush", "discard", "end"}))
  /\ buffer \in Seq(Items({"job", "chunk", "ended", "flush", "discard", "end"}))
  /\ live \in 0 .. RunsMax
  /\ broken \in BOOLEAN /\ writing \in BOOLEAN /\ claimed \in BOOLEAN
  /\ flushed \subseteq {"caller", "delivery"}
  /\ next \in 1 .. RunsMax + 1
  /\ status \in [Runs -> {"new", "submitted", "running", "gone"} \cup Ended]
  /\ num \in [Runs -> 0 .. RunsMax]
  /\ skips \in BOOLEAN /\ fed \in BOOLEAN
  /\ todo \in Seq(Chunks) /\ out \subseteq open /\ open \subseteq Chunks /\ spoilt \subseteq Sour
  /\ events \in Seq(Items({"submit", "cancel", "delivered", "noted", "close"}))
  /\ looping \in BOOLEAN /\ closing \in BOOLEAN /\ noted \in BOOLEAN
  /\ deliveries \in Seq(Items({"result", "announce"}))
  /\ at \in Items({"nothing", "noting", "flushing"})
  /\ announced \subseteq Runs
  /\ caller \in {"idle", "claiming", "discarding"}
  /\ taken \in [Chunks -> Nat]
  /\ lapses \in 0 .. LapsesMax /\ lost \in BOOLEAN

Init ==
  /\ row = NoRow /\ rows = {}
  /\ records = <<>> /\ buffer = <<>> /\ live = 0 /\ broken = FALSE /\ writing = TRUE /\ flushed = {}
  /\ claimed = FALSE /\ next = 1
  /\ status = [r \in Runs |-> "new"] /\ num = [r \in Runs |-> 0]
  /\ skips = FALSE /\ todo = <<>> /\ fed = FALSE /\ out = {} /\ open = {} /\ spoilt = {}
  /\ events = <<>> /\ looping = TRUE /\ closing = FALSE
  /\ deliveries = <<>> /\ at = Nothing /\ noted = FALSE
  /\ announced = {}
  /\ caller = "idle"
  /\ taken = [c \in Chunks |-> 0]
  /\ lapses = 0 /\ lost = FALSE

Tell(item)    == events' = Append(events, item)
Deliver(item) == deliveries' = Append(deliveries, item)
Record(item)  == records' = Append(records, item)

-----------------------------------------------------------------------------
(* The writer thread: `_write` *)

\* What a record makes of the file.  Chunks are held back, as one statement for all of them,
\* until a job begins or ends and at the end of the transaction.
PutChunks(f) ==
  [f EXCEPT !.rows = {p \in @ : ~\E i \in DOMAIN f.held : p = f.held[i].at}
                     \cup {h.at : h \in {h \in ToSet(f.held) : h.ok}},
            !.held = <<>>]

Put(f, item) ==
  CASE item.op = "job" ->
         [PutChunks(f) EXCEPT !.row = [n |-> num[item.run], s |-> status[item.run]],
                              !.live = item.run]
    [] item.op = "ended" ->
         LET g == [PutChunks(f) EXCEPT
                     !.row.s = IF f.row.n = num[item.run] THEN status[item.run] ELSE @]
         IN  [g EXCEPT !.rows = IF item.ok THEN {p \in @ : p[1] # num[item.run]} ELSE @,
                       !.live = 0]
    [] item.op = "chunk" ->
         [f EXCEPT !.held = Append(@, [at |-> <<num[item.run], item.chunk>>, ok |-> item.ok])]
    [] item.op = "discard" ->
         [f EXCEPT !.rows = {p \in @ : p[1] # f.row.n}, !.row = NoRow]
    [] OTHER -> f

\* What the writer has put after each record of the transaction.  The last job that began or
\* ended in it decides whose counters are kept.
Puts ==
  LET f[i \in 0 .. Len(buffer)] ==
        IF i = 0 THEN [row |-> row, rows |-> rows, held |-> <<>>, live |-> live]
        ELSE Put(f[i - 1], buffer[i])
  IN  f

Written == PutChunks(Puts[Len(buffer)])

\* The transaction takes all the records there are.
Drain ==
  /\ writing
  /\ records # <<>> /\ buffer = <<>>
  /\ buffer' = records /\ records' = <<>>
  /\ UNCHANGED <<disk, live, broken, writing, flushed, known, work, threads, announced, caller,
                 ghosts>>

Flushes == {IF item.run = 0 THEN "caller" ELSE "delivery" :
              item \in {i \in ToSet(buffer) : i.op = "flush"}}

\* The end of a transaction, whether or not it reached the disk: who waits for it is told.
WriteEnds ==
  /\ buffer # <<>>
  /\ buffer' = <<>>
  /\ live' = Written.live
  /\ flushed' = flushed \cup Flushes
  /\ writing' = ~Contains(buffer, Bare("end"))

Commit ==
  /\ WriteEnds
  /\ rows' = Written.rows
  /\ row' = IF Written.live # 0 /\ num[Written.live] = Written.row.n
            THEN [n |-> Written.row.n, s |-> status[Written.live]]
            ELSE Written.row
  /\ taken' = IF \E i \in DOMAIN buffer : buffer[i].op = "discard"
              THEN [c \in Chunks |-> 0] ELSE taken
  /\ UNCHANGED <<records, broken, known, work, threads, announced, caller, lapses, lost>>

WriteFails ==
  /\ WriteEnds
  /\ Firm => \A i \in DOMAIN buffer : buffer[i].op # "job"
  /\ lapses < LapsesMax
  /\ lapses' = lapses + 1
  /\ broken' = TRUE /\ lost' = TRUE
  /\ UNCHANGED <<disk, records, known, work, threads, announced, caller, taken>>

-----------------------------------------------------------------------------
(* The caller *)

\* Nobody asks again for a job before hearing of its end.
Patient == Hasty \/ \A r \in Runs : status[r] \in Ended => r \in announced

Claimable == ~claimed

LastRun == Cardinality({r \in Runs : status[r] # "new"})

\* `submit`, up to the flush of `claim`.
SubmitBegins ==
  /\ ~closing /\ ~broken /\ caller = "idle"
  /\ LastRun < RunsMax
  /\ claimed \/ Patient
  /\ Claimable
  /\ claimed' = TRUE
  /\ caller' = "claiming"
  /\ Record(Bare("flush"))
  /\ UNCHANGED <<disk, buffer, live, broken, writing, flushed, status, num, next, work, threads,
                 announced, ghosts>>

\* The rest of `claim` and of `submit`: the file says whether the job is new, continues or is over.
Submits ==
  /\ caller = "claiming" /\ ("caller" \in flushed \/ ~writing)
  /\ caller' = "idle" /\ flushed' = flushed \ {"caller"}
  /\ LET r == LastRun + 1
     IN  \/ /\ row.s \in {"none"} \cup Resumable
            /\ status' = [status EXCEPT ![r] = "submitted"]
            /\ num' = [num EXCEPT ![r] = row.n]
            /\ skips' = \E c \in Chunks : <<row.n, c>> \in rows
            /\ Tell(OfRun("submit", r))
            /\ UNCHANGED claimed
         \/ /\ row.s \notin {"none"} \cup Resumable
            /\ claimed' = FALSE
            /\ UNCHANGED <<status, num, skips, events>>
  /\ UNCHANGED <<disk, records, buffer, live, broken, writing, next, todo, fed, out, open, spoilt,
                 looping, closing, deliveries, at, noted, announced, ghosts>>

\* `cancel`.  Bound: of a run that has no such event waiting.
Cancel(r) ==
  /\ status[r] = "running" /\ r \in Unwanted
  /\ ~Contains(events, OfRun("cancel", r))
  /\ Tell(OfRun("cancel", r))
  /\ UNCHANGED <<disk, writer, known, work, looping, closing, deliveries, at, noted, announced,
                 caller, ghosts>>

\* `discard`.  Bound: only where there is something to forget.
DiscardBegins ==
  /\ ~closing /\ caller = "idle"
  /\ Patient /\ ~claimed /\ row.s \in Resumable
  /\ caller' = "discarding"
  /\ records' = records \o <<Bare("discard"), Bare("flush")>>
  /\ UNCHANGED <<disk, buffer, live, broken, writing, flushed, known, work, threads, announced, ghosts>>

DiscardEnds ==
  /\ caller = "discarding" /\ ("caller" \in flushed \/ ~writing)
  /\ caller' = "idle" /\ flushed' = flushed \ {"caller"}
  /\ UNCHANGED <<disk, records, buffer, live, broken, writing, known, work, threads, announced, ghosts>>

\* `close` begins: the loop is told to interrupt everything and to end.
CloseBegins ==
  /\ ~closing /\ caller = "idle"
  /\ closing' = TRUE
  /\ Tell(Bare("close"))
  /\ UNCHANGED <<disk, writer, known, work, looping, deliveries, at, noted, announced, caller,
                 ghosts>>

-----------------------------------------------------------------------------
(* The feeder, and the executor *)

Running(r) == status[r] = "running"

\* `seen`: the file says that this chunk of the job is done.
Seen(r, c) == skips /\ <<num[r], c>> \in rows

Opened(c) == open \cup {c}

\* `_feed`: the source gives a chunk.
Feed ==
  /\ todo # <<>> /\ Running(LastRun)
  /\ todo' = Tail(todo)
  /\ \/ /\ Seen(LastRun, Head(todo))
        /\ UNCHANGED <<out, open>>
     \/ /\ ~Seen(LastRun, Head(todo))
        /\ out' = out \cup {Head(todo)}
        /\ open' = Opened(Head(todo))
  /\ UNCHANGED <<disk, writer, known, skips, fed, spoilt, threads, announced, caller, ghosts>>

-----------------------------------------------------------------------------
(* The loop thread *)

ofWriter == <<buffer, live, broken, writing, flushed>>
others   == <<disk, ofWriter, announced, caller, ghosts>>

Hears(op) ==
  /\ looping
  /\ events # <<>> /\ Head(events).op = op
  /\ events' = Tail(events)

\* `_finish`; `before` are the records the loop made just before.  From here on the feeder
\* leaves and what comes back from the executor is dropped, so the work that was left is
\* forgotten; the failures stay for the record of a job that does not continue.
Finishes(r, s, failures, before) ==
  /\ status' = [status EXCEPT ![r] = s]
  /\ records' = records \o before \o <<Item("ended", r, "none", s \notin Resumable)>>
  /\ claimed' = FALSE
  /\ Deliver(OfRun("announce", r))
  /\ todo' = <<>> /\ out' = {} /\ open' = {} /\ fed' = FALSE /\ skips' = FALSE
  /\ spoilt' = IF s \in Resumable THEN {} ELSE failures

\* `_finish_if_over`, once these chunks are open.
Over(isFed, left) == isFed /\ left = {}

StatusWith(failures) == IF failures # {} /\ failures = Chunks THEN "failed" ELSE "completed"

OnSubmit ==
  /\ Hears("submit")
  /\ LET r == Head(events).run
         new == num[r] = 0
     IN  /\ num' = [num EXCEPT ![r] = IF new THEN next ELSE @]
         /\ next' = IF new THEN next + 1 ELSE next
         /\ Record(OfRun("job", r))
         /\ status' = [status EXCEPT ![r] = "running"]
  /\ todo' = Source
  /\ spoilt' = {}
  /\ UNCHANGED <<claimed, skips, fed, out, open, looping, closing, deliveries, at, noted, others>>

\* `_on_source_end`
SourceEnds ==
  /\ looping
  /\ LastRun > 0 /\ Running(LastRun)
  /\ todo = <<>> /\ ~fed
  /\ \/ /\ Over(TRUE, open)
        /\ Finishes(LastRun, StatusWith(spoilt), spoilt, <<>>)
     \/ /\ ~Over(TRUE, open)
        /\ fed' = TRUE
        /\ UNCHANGED <<status, records, claimed, deliveries, skips, todo, out, open, spoilt>>
  /\ UNCHANGED <<num, next, events, looping, closing, at, noted, others>>

\* `_on_done`: a result came back, and goes to the callback.
OnDone(c) ==
  /\ looping
  /\ c \in out
  /\ out' = out \ {c}
  /\ Deliver(Item("result", LastRun, c, TRUE))
  /\ UNCHANGED <<records, known, skips, todo, fed, open, spoilt, events, looping, closing, at, noted,
                 others>>

\* Mutant: a chunk whose result the callback could not take is recorded as done.
RecordTaken(r, c, ok) == Item("chunk", r, c, TRUE)

\* `chunk_finished`
ChunkFinished(r, c, ok) == Item("chunk", r, c, ok)

\* Is the result of a job that was stopped meanwhile worth a record?
CountsLate(r, ok) == ok /\ status[r] \in Resumable

\* `_settle`: the callback took the result of a chunk, or raised.
Settles(r, c, ok) ==
  LET failures == IF ok THEN spoilt ELSE spoilt \cup {c}
      left     == open \ {c}
      record   == ChunkFinished(r, c, ok)
      same     == UNCHANGED <<status, claimed, deliveries, skips, todo, fed, out>>
  IN  \/ /\ Running(r) /\ Over(fed, left)
         /\ Finishes(r, StatusWith(failures), failures, <<record>>)
      \/ /\ Running(r) /\ ~Over(fed, left)
         /\ open' = left
         /\ spoilt' = failures
         /\ Record(record)
         /\ same
      \/ /\ ~Running(r) /\ CountsLate(r, ok)
         /\ Record(record)
         /\ UNCHANGED <<open, spoilt>>
         /\ same
      \/ /\ ~Running(r) /\ ~CountsLate(r, ok)
         /\ UNCHANGED <<open, spoilt, records>>
         /\ same

OnDelivered ==
  /\ Hears("delivered")
  /\ Settles(Head(events).run, Head(events).chunk, Head(events).ok)
  /\ UNCHANGED <<num, next, looping, closing, at, noted, others>>

OnCancel ==
  /\ Hears("cancel")
  /\ \/ /\ Running(Head(events).run)
        /\ Finishes(Head(events).run, "canceled", {}, <<>>)
     \/ /\ ~Running(Head(events).run)
        /\ UNCHANGED <<status, records, claimed, deliveries, work>>
  /\ UNCHANGED <<num, next, looping, closing, at, noted, others>>

\* The dispatch pass: the jobs of a journal that failed are stopped.
StopBroken ==
  /\ looping /\ broken
  /\ LastRun > 0 /\ Running(LastRun)
  /\ Finishes(LastRun, "failed", spoilt, <<>>)
  /\ UNCHANGED <<num, next, events, looping, closing, at, noted, others>>

OnNoted ==
  /\ Hears("noted")
  /\ noted' = TRUE
  /\ UNCHANGED <<records, known, work, looping, closing, deliveries, at, others>>

\* `_on_close`, and the end of the loop right after it.
OnClose ==
  /\ Hears("close")
  /\ looping' = FALSE
  /\ \/ \E r \in Runs : Running(r) /\ Finishes(r, "interrupted", {}, <<>>)
     \/ /\ ~\E r \in Runs : Running(r)
        /\ UNCHANGED <<status, records, claimed, deliveries, work>>
  /\ UNCHANGED <<num, next, closing, at, noted, others>>

-----------------------------------------------------------------------------
(* The delivery thread *)

\* What the delivery thread gets from its queue.
Gets(op) ==
  /\ at = Nothing
  /\ deliveries # <<>> /\ Head(deliveries).op = op
  /\ deliveries' = Tail(deliveries)

\* `_hand_over`: the callback takes the result, or raises and leaves nothing behind.
HandOver(ok) ==
  /\ Gets("result")
  /\ LET result == Head(deliveries)
     IN  /\ ok \/ result.chunk \in Sour
         /\ taken' = IF ok THEN [taken EXCEPT ![result.chunk] = @ + 1] ELSE taken
         /\ Tell([result EXCEPT !.op = "delivered", !.ok = ok])
  /\ UNCHANGED <<disk, writer, known, work, looping, closing, at, noted, announced, caller, lapses,
                 lost>>

\* `_announce`, up to where it waits: for the loop, or for the disk.
AnnounceBegins ==
  /\ Gets("announce")
  /\ LET r == Head(deliveries).run
     IN  \/ /\ status[r] \in Resumable
            /\ at' = OfRun("noting", r)
            /\ Tell(Bare("noted"))
            /\ UNCHANGED records
         \/ /\ status[r] \notin Resumable
            /\ at' = OfRun("flushing", r)
            /\ Record(OfRun("flush", r))
            /\ UNCHANGED events
  /\ UNCHANGED <<disk, ofWriter, known, work, looping, closing, noted, announced, caller, ghosts>>

\* Mutant: nobody looks whether the loop still lives.
NotedByLoop == noted

NotedOrAlone == noted \/ ~looping

\* The loop noted what the callback took before, or is gone.
Noted ==
  /\ at.op = "noting" /\ NotedOrAlone
  /\ at' = [at EXCEPT !.op = "flushing"]
  /\ Record(OfRun("flush", at.run))
  /\ noted' = FALSE
  /\ UNCHANGED <<disk, ofWriter, known, work, events, looping, closing,
                 deliveries, announced, caller, ghosts>>

\* `flush` returned.
OnDisk == "delivery" \in flushed \/ ~writing

Announces ==
  /\ at.op = "flushing" /\ OnDisk
  /\ announced' = announced \cup {at.run}
  /\ at' = Nothing
  /\ flushed' = flushed \ {"delivery"}
  /\ UNCHANGED <<disk, records, buffer, live, broken, writing, known, work, events, looping, closing,
                 deliveries, noted, caller, ghosts>>

-----------------------------------------------------------------------------
(* The end of a process, and the next one *)

\* Mutant: what is left of the events is dropped.
DrainNothing == <<>>

\* What the last callbacks took, with the loop gone.
Drained ==
  LET d[i \in 0 .. Len(events)] ==
        IF i = 0 THEN <<>>
        ELSE LET e == events[i]
             IN  IF e.op = "delivered" /\ CountsLate(e.run, e.ok)
                 THEN Append(d[i - 1], ChunkFinished(e.run, e.chunk, e.ok)) ELSE d[i - 1]
  IN  d[Len(events)]

\* The rest of `close`, with the loop gone and the queue of the delivery thread worked off: those
\* are recorded, and the writer ends behind them.
CloseJournal ==
  /\ closing /\ ~looping /\ writing
  /\ at = Nothing /\ deliveries = <<>>
  /\ ~Contains(records \o buffer, Bare("end"))
  /\ records' = records \o Drained \o <<Bare("end")>>
  /\ events' = <<>>
  /\ UNCHANGED <<disk, ofWriter, known, work, looping, closing, deliveries, at, noted, announced,
                 caller, ghosts>>

\* Another process opens the journal (`Journal.__init__`): whatever never ended was interrupted.
\* Of the runs it knows only what is on record; the model keeps the ones that were announced.
Opens ==
  /\ row' = IF row.s = "running" THEN [row EXCEPT !.s = "interrupted"] ELSE row
  /\ next' = row.n + 1
  /\ status' = [r \in Runs |-> IF status[r] = "new" \/ r \in announced THEN status[r] ELSE "gone"]
  /\ records' = <<>> /\ buffer' = <<>> /\ live' = 0
  /\ broken' = FALSE /\ writing' = TRUE /\ flushed' = {}
  /\ claimed' = FALSE
  /\ skips' = FALSE /\ todo' = <<>> /\ fed' = FALSE /\ out' = {} /\ open' = {} /\ spoilt' = {}
  /\ events' = <<>> /\ looping' = TRUE /\ closing' = FALSE
  /\ deliveries' = <<>> /\ at' = Nothing /\ noted' = FALSE
  /\ caller' = "idle"
  /\ num' = [r \in Runs |-> IF r = LastRun /\ r \in announced THEN num[r] ELSE 0]
  /\ UNCHANGED <<rows, announced, taken, lost>>

Reopen ==
  /\ closing /\ ~writing
  /\ Opens
  /\ UNCHANGED lapses

\* The process dies with all it had in memory, and the next one opens the journal.
Crash ==
  /\ lapses < LapsesMax
  /\ lapses' = lapses + 1
  /\ Opens

-----------------------------------------------------------------------------

LoopEvent == OnSubmit \/ OnDelivered \/ OnCancel \/ OnNoted \/ OnClose
Delivery ==
  \/ AnnounceBegins \/ Noted \/ Announces
  \/ \E ok \in BOOLEAN : HandOver(ok)

\* What the threads, the feeder and the executor do of themselves.
Work ==
  \/ Drain \/ Commit
  \/ LoopEvent \/ SourceEnds \/ StopBroken \/ Delivery \/ Feed
  \/ \E c \in Chunks : OnDone(c)
  \/ Submits \/ DiscardEnds \/ CloseJournal

\* What somebody may ask for, and what may go wrong.
Outside ==
  \/ SubmitBegins \/ DiscardBegins \/ CloseBegins
  \/ \E r \in Runs : Cancel(r)
  \/ WriteFails \/ Crash \/ Reopen

Next == Work \/ Outside

Spec == Init /\ [][Next]_vars

-----------------------------------------------------------------------------
(* What the engine promises of the job, across its runs and processes *)

\* The failures of the last run, which count unless another one may continue it.
FailedNow ==
  IF LastRun > 0 /\ status[LastRun] \notin Resumable THEN spoilt ELSE {}

L == INSTANCE Ledger WITH
       failed <- FailedNow,
       over   <- row.s = "completed"

\* The journal and the engine implement the ledger: a chunk that was taken is taken again only
\* if a crash or a failed write came in between, and a job on record as completed had every
\* chunk taken or failed (`_settle`, `_announce`, the drain in `close`, `claim`, `done_before`).
ImplementsLedger == L!Spec

\* A chunk is on record as done only if the callback took it, so that none is skipped that was
\* not (`_on_delivered`, `_settle`), also where its job was discarded and its number given again.
DoneWasTaken ==
  TypeOK /\ \A c \in Chunks : <<row.n, c>> \in rows => taken[c] > 0

\* Whoever hears that a job ended finds it on disk, as it ended, whatever crashes later.
AnnouncedOnDisk ==
  \A r \in announced :
    (r = LastRun /\ ~lost /\ row # NoRow /\ num[r] = row.n) => row.s = status[r]

\* What is on record is true: what passes for done was taken, and what was announced is there.
RecordIsTrue == DoneWasTaken /\ AnnouncedOnDisk

\* Work comes to rest only once every run was announced and the caller returned: no two of the
\* caller, the loop, the delivery thread and the writer are left waiting for each other, the loop
\* gone or the writer failed included (`_announce`, `flush`, `close`).
NobodyStuck ==
  (caller # "idle" \/ \E r \in Runs \ announced : status[r] \notin {"new", "gone"}) => ENABLED Work
=============================================================================
