--------------------------- MODULE Journal_proofs ---------------------------
(***************************************************************************)
(* Proofs about a job that goes by a key, through its runs, the processes  *)
(* it takes, their crashes and the writes that fail: what is on record is  *)
(* true, and the ledger is kept.  Both say what holds where a key is asked *)
(* for again only after the end of its run was announced (`Hasty`) and no  *)
(* failed write takes the record of a job that begins (`Firm`).            *)
(***************************************************************************)
EXTENDS Journal, FiniteSetTheorems, SequenceTheorems, WellFoundedInduction, TLAPS

-----------------------------------------------------------------------------
(* The inductive invariant *)

\* The run that came last: how it stands, and the number of its job.
Now    == IF LastRun = 0 THEN "none" ELSE status[LastRun]
Number == IF LastRun = 0 THEN 0 ELSE num[LastRun]

Quiet  == Now \in {"none", "gone"} \/ LastRun \in announced
Active == Now \in {"submitted", "running"}
Final  == {"completed", "failed"}

\* The records that are not on disk yet, in their order; and where there is one of a kind.
Pend      == buffer \o records
Places    == 1 .. Len(Pend)
Waits(op) == \E i \in Places : Pend[i].op = op
OfJob     == {"job", "chunk", "ended"}
IsFlush(item, who) ==
  item.op = "flush" /\ (IF who = "caller" THEN item.run = 0 ELSE item.run # 0)

Results == {i \in 1 .. Len(deliveries) : deliveries[i].op = "result"}
Answers == {i \in 1 .. Len(events) : events[i].op = "delivered"}
Marks   == {i \in Places : Pend[i].op = "chunk"}

RunsInOrder ==
  /\ \A r \in Runs : status[r] = "new" <=> r > LastRun
  /\ \A r \in Runs : r < LastRun => status[r] = "gone" \/ r \in announced
  /\ \A r \in announced : status[r] \in Ended

\* Numbers are given one after the other, and what is in the file is of one job.
Numbered ==
  /\ next <= LastRun + 1 /\ row.n < next
  /\ ~Quiet => Number < next
  /\ Now = "submitted" => next <= LastRun /\ Number = row.n /\ row.s \in {"none"} \cup Resumable
  /\ Now \in {"running"} \cup Ended => Number >= 1
  /\ row.n = 0 <=> row.s = "none"
  /\ \A p \in rows : p[1] = row.n

Claims ==
  /\ ~claimed => ~Active
  /\ claimed => caller = "claiming" \/ Active
  /\ caller = "claiming" => claimed /\ Quiet /\ Answers = {} /\ LastRun < RunsMax
  /\ caller = "discarding" => ~claimed /\ Quiet
  /\ caller # "idle" => ~closing

\* What the loop has yet to hear.
Heard ==
  /\ \A i \in 1 .. Len(events) :
       /\ events[i].op = "submit" => events[i].run = LastRun /\ Now = "submitted"
       /\ events[i].op = "cancel" => events[i].run \in 1 .. LastRun
       /\ events[i].op = "close" => closing
       /\ events[i].op = "delivered" =>
            events[i].run = LastRun /\ Now \notin {"none", "gone"} /\ events[i].chunk \in Chunks
            /\ (events[i].ok \/ events[i].chunk \in Sour)
       /\ events[i].op = "noted" /\ looping => at.op = "noting" /\ ~noted
  /\ \A i, j \in 1 .. Len(events) :
       /\ events[i].op = "close" /\ j > i => events[j].op # "submit"
       /\ events[i].op = "submit" /\ events[j].op = "submit" => i = j
       /\ events[i].op = "noted" /\ events[j].op = "noted" /\ looping => i = j
  /\ Now = "submitted" => looping /\ Answers = {} /\ \E i \in 1 .. Len(events) : events[i].op = "submit"
  /\ ~looping => closing /\ ~Active
  /\ noted => at.op = "noting"

\* What is on its way for the run, as it stands.
Staged ==
  /\ Quiet \/ Now = "submitted" =>
       deliveries = <<>> /\ at = Nothing /\ live = 0 /\ ~Waits("job") /\ ~Waits("ended")
  /\ (Quiet /\ looping) \/ Now = "submitted" => ~Waits("chunk")
  /\ Now # "running" => todo = <<>> /\ out = {} /\ open = {} /\ ~fed
  /\ Now = "running" =>
       /\ at = Nothing /\ ~Waits("ended")
       /\ \A i \in 1 .. Len(deliveries) : deliveries[i].op = "result"
       /\ Waits("job") \/ (live = LastRun /\ row.n = Number)
  /\ ~Quiet /\ Now \in Ended => Waits("job") \/ row.n = Number
  /\ ~Quiet /\ Now \in Ended =>
       \/ /\ at = Nothing /\ deliveries # <<>>
          /\ \A i \in 1 .. Len(deliveries) :
               deliveries[i].op = "announce" <=> i = Len(deliveries)
          /\ deliveries[Len(deliveries)].run = LastRun
       \/ deliveries = <<>> /\ at.op \in {"noting", "flushing"} /\ at.run = LastRun
  /\ \A i \in Results : deliveries[i].run = LastRun /\ deliveries[i].chunk \in Chunks
  /\ live # 0 => live = LastRun /\ ~Waits("job") /\ row.n = Number /\ Now \notin {"none", "gone"}
  /\ Now \in Ended /\ ~Waits("ended") => live = 0 /\ ~Waits("job")

\* What each record that waits is about, and in which order they come.
Queued ==
  /\ \A i \in Places :
       /\ Pend[i].op \in OfJob => Pend[i].run = LastRun /\ Now \notin {"none", "gone"}
       /\ Pend[i].op = "chunk" => Pend[i].chunk \in Chunks
       /\ Pend[i].op = "ended" => Now \in Ended /\ Pend[i].ok = (Now \notin Resumable)
       /\ Pend[i].op = "discard" => caller = "discarding" /\ looping
       /\ IsFlush(Pend[i], "delivery") => at.op = "flushing"
       /\ IsFlush(Pend[i], "caller") => caller # "idle"
       /\ Pend[i].op = "end" => i = Len(Pend) /\ Pend[i] = Bare("end")
  /\ \A i, j \in Places :
       /\ Pend[i].op = "job" /\ Pend[j].op \in OfJob => i <= j
       /\ Pend[i].op = "ended" /\ Pend[j].op = "ended" => i = j
  /\ Waits("chunk") \/ Waits("ended") => Waits("job") \/ row.n = Number
  /\ Waits("job") => row.n \in {0, Number}

\* Whoever waits for the disk has a flush behind what it waits for.
Flushing ==
  /\ \A i \in Places :
       /\ Pend[i].op \in OfJob /\ at.op = "flushing" =>
            \E j \in Places : j > i /\ IsFlush(Pend[j], "delivery")
       /\ Pend[i].op = "discard" => \E j \in Places : j > i /\ IsFlush(Pend[j], "caller")
  /\ \A i, j \in Places : \A who \in {"caller", "delivery"} :
       IsFlush(Pend[i], who) /\ IsFlush(Pend[j], who) => i = j
  /\ "delivery" \in flushed =>
       at.op = "flushing" /\ \A i \in Places : ~IsFlush(Pend[i], "delivery")
  /\ "caller" \in flushed => caller # "idle" /\ \A i \in Places : ~IsFlush(Pend[i], "caller")
  /\ Waits("end") \/ ~writing => ~looping /\ at = Nothing /\ deliveries = <<>> /\ events = <<>>
  /\ ~writing => Pend = <<>>

\* What the callback took late is on record before anybody hears of the end.
Late ==
  /\ at.op = "noting" /\ looping =>
       \/ noted /\ Answers = {}
       \/ ~noted /\ \E i \in 1 .. Len(events) : events[i].op = "noted" /\ \A j \in Answers : j < i
  /\ at.op = "noting" => Now \in Resumable
  /\ at.op = "flushing" /\ Now \in Resumable /\ looping => Answers = {}
  /\ LastRun \in announced /\ Now \in Resumable /\ looping => Answers = {}
  /\ Now \in Final /\ Answers \cup Results # {} => broken
  /\ at.op # "nothing" => Now \in Ended

\* Each chunk of the run is in one place at most.
Apart ==
  /\ \A i, j \in 1 .. Len(todo) : todo[i] = todo[j] => i = j
  /\ \A i, j \in Results : deliveries[i].chunk = deliveries[j].chunk => i = j
  /\ \A i, j \in Answers : events[i].chunk = events[j].chunk => i = j
  /\ \A i, j \in Marks : Pend[i].chunk = Pend[j].chunk => i = j
  /\ \A i \in 1 .. Len(todo) :
       /\ todo[i] \notin open
       /\ \A j \in Results : deliveries[j].chunk # todo[i]
       /\ \A j \in Answers : events[j].chunk # todo[i]
       /\ \A j \in Marks : Pend[j].chunk # todo[i]
  /\ \A c \in out :
       /\ \A j \in Results : deliveries[j].chunk # c
       /\ \A j \in Answers : events[j].chunk # c
       /\ \A j \in Marks : Pend[j].chunk # c
  /\ \A i \in Results : \A j \in Answers : events[j].chunk # deliveries[i].chunk
  /\ \A i \in Results : \A j \in Marks : Pend[j].chunk # deliveries[i].chunk
  /\ \A i \in Answers : \A j \in Marks : Pend[j].chunk # events[i].chunk

\* What is under way is not on record yet.
Unrecorded ==
  /\ \A c \in out : <<Number, c>> \notin rows
  /\ \A i \in Results : <<Number, deliveries[i].chunk>> \notin rows
  /\ \A i \in Answers : <<Number, events[i].chunk>> \notin rows
  /\ \A i \in Marks : <<Number, Pend[i].chunk>> \notin rows
  /\ Now \in Resumable /\ Answers # {} => Waits("job") \/ row.n = Number
  /\ skips => Active
  /\ Now = "submitted" => (skips <=> \E c \in Chunks : <<row.n, c>> \in rows)
  /\ Now = "running" /\ ~skips => \A i \in 1 .. Len(todo) : <<Number, todo[i]>> \notin rows

\* No chunk of a run that is on gets lost.
Accounted ==
  Now = "running" =>
    /\ \A i \in Results : deliveries[i].chunk \in open
    /\ \A i \in Answers : events[i].chunk \in open
    /\ \A c \in open : \/ c \in out
                       \/ \E i \in Results : deliveries[i].chunk = c
                       \/ \E i \in Answers : events[i].chunk = c
    /\ \A c \in Chunks :
         \/ \E i \in 1 .. Len(todo) : todo[i] = c
         \/ c \in open \cup spoilt
         \/ taken[c] > 0
    /\ fed => todo = <<>>

\* A chunk may be taken once more after each crash and failed write.
Cap == IF broken THEN lapses ELSE lapses + 1

\* The feeder would find it in the file.
Shown(c) == skips /\ <<Number, c>> \in rows

\* What is still to be handed over.
Owed(c) ==
  \/ Now = "submitted" /\ <<row.n, c>> \notin rows
  \/ \E i \in 1 .. Len(todo) : todo[i] = c /\ ~Shown(c)
  \/ c \in out
  \/ \E i \in Results : deliveries[i].chunk = c

\* That a chunk was taken will not be forgotten.
Kept(c) ==
  \/ row.s \in Final
  \/ <<row.n, c>> \in rows
  \/ \E i \in Answers : events[i].chunk = c /\ events[i].ok
  \/ \E i \in Marks : Pend[i].chunk = c /\ Pend[i].ok
  \/ Waits("ended") /\ Now \in Final

Counted ==
  /\ broken => lapses > 0
  /\ \A c \in Chunks : taken[c] <= Cap
  /\ \A c \in Chunks : Owed(c) => taken[c] < Cap
  /\ ~broken \/ caller = "claiming" => \A c \in Chunks : taken[c] = Cap => Kept(c)
  /\ \A c \in Chunks : <<row.n, c>> \in rows => taken[c] > 0
  /\ Now \in {"running"} \cup Resumable =>
       \A i \in Answers : events[i].ok => taken[events[i].chunk] > 0
  /\ \A i \in Marks : Pend[i].ok => taken[Pend[i].chunk] > 0

\* What the file says of the end of the run.
Told ==
  /\ row.s \in Final /\ (Active \/ live # 0 \/ Results # {} \/ Waits("job") \/ Waits("ended")) =>
       row.s = Now
  /\ Now = "completed" /\ (live # 0 \/ Waits("job") \/ Waits("ended")) =>
       \A c \in Chunks : taken[c] > 0 \/ c \in spoilt
  /\ Now \in {"none"} \cup Resumable => spoilt = {}
  /\ "completed" \in {row.s, Now} => Results = {}
  /\ broken => lost
  /\ Now \in Ended /\ ~lost /\ row.n # 0 /\ row.n = Number /\ ~Waits("ended") => row.s = Now

Sound ==
  /\ TypeOK /\ RunsInOrder /\ Numbered /\ Claims /\ Heard /\ Staged /\ Queued /\ Flushing /\ Late
  /\ Apart /\ Unrecorded /\ Accounted /\ Counted /\ Told
-----------------------------------------------------------------------------
(* Lemmas about numbers, sequences and the queue of records *)

Records == Items({"job", "chunk", "ended", "flush", "discard", "end"})
Events  == Items({"submit", "cancel", "delivered", "noted", "close"})
Tidings == Items({"result", "announce"})

\* A set of natural numbers that is not empty has a least one.
LEMMA Least ==
  ASSUME NEW T \in SUBSET Nat, T # {}
  PROVE  \E n \in T : \A m \in T : n <= m
<1> DEFINE I == {0 .. n : n \in T}
<1>1. \A n \in Nat : IsFiniteSet(0 .. n)
  BY FS_Interval
<1>2. I \subseteq FiniteSubsetsOf(Nat)
  <2> SUFFICES ASSUME NEW n \in T PROVE 0 .. n \in FiniteSubsetsOf(Nat)
    OBVIOUS
  <2>1. 0 .. n \in SUBSET Nat
    OBVIOUS
  <2> QED BY <1>1, <2>1 DEF FiniteSubsetsOf
<1>3. I # {}
  OBVIOUS
<1> HIDE DEF I
<1>4. PICK J \in I : \A K \in I : ~(<<K, J>> \in StrictSubsetOrdering(Nat))
  BY <1>2, <1>3, FS_StrictSubsetOrderingWellFounded, WFMin
<1>5. PICK n \in T : J = 0 .. n
  BY DEF I
<1>6. ASSUME NEW m \in T PROVE n <= m
  <2>1. SUFFICES ASSUME m < n PROVE FALSE
    BY <1>6
  <2>2. 0 .. m \in I
    BY <1>6 DEF I
  <2>3. 0 .. m \subseteq 0 .. n /\ 0 .. m # 0 .. n
    BY <2>1, <1>6
  <2>4. <<0 .. m, 0 .. n>> \in StrictSubsetOrdering(Nat)
    BY <2>3 DEF StrictSubsetOrdering
  <2> QED BY <1>4, <1>5, <2>2, <2>4
<1> QED BY <1>6

LEMMA LastRunIs ==
  ASSUME TypeOK
  PROVE  LastRun \in 0 .. RunsMax
<1> DEFINE S == {r \in Runs : status[r] # "new"}
<1>1. IsFiniteSet(Runs) /\ Cardinality(Runs) = RunsMax
  BY JournalAssumption, FS_Interval DEF Runs
<1>2. S \subseteq Runs
  OBVIOUS
<1>3. IsFiniteSet(S) /\ Cardinality(S) <= RunsMax
  BY <1>1, <1>2, FS_Subset
<1>4. Cardinality(S) \in Nat
  BY <1>3, FS_CardinalityType
<1>5. LastRun = Cardinality(S)
  BY DEF LastRun
<1> HIDE DEF S
<1> QED BY <1>3, <1>4, <1>5, JournalAssumption

\* A run that is not new and does not become so leaves the number of the last one.
LEMMA LastRunStays ==
  ASSUME TypeOK, NEW r \in Runs, NEW s, status[r] # "new", s # "new",
         status' = [status EXCEPT ![r] = s]
  PROVE  LastRun' = LastRun
<1>1. {q \in Runs : status'[q] # "new"} = {q \in Runs : status[q] # "new"}
  BY DEF TypeOK
<1> QED BY <1>1 DEF LastRun

LEMMA PendTyped ==
  ASSUME TypeOK
  PROVE  /\ Pend \in Seq(Records) /\ Len(Pend) \in Nat
         /\ Len(Pend) = Len(buffer) + Len(records)
         /\ \A i \in 1 .. Len(buffer) : Pend[i] = buffer[i]
         /\ \A i \in 1 .. Len(records) : Pend[i + Len(buffer)] = records[i]
         /\ \A i \in Places : Pend[i] \in Records
<1>1. buffer \in Seq(Records) /\ records \in Seq(Records)
  BY DEF TypeOK, Records
<1>2. Pend \in Seq(Records) /\ Len(Pend) = Len(buffer) + Len(records)
      /\ \A i \in 1 .. Len(buffer) + Len(records) :
           Pend[i] = IF i <= Len(buffer) THEN buffer[i] ELSE records[i - Len(buffer)]
  BY <1>1, ConcatProperties DEF Pend
<1>3. \A i \in 1 .. Len(Pend) : Pend[i] \in Records
  BY <1>2, ElementOfSeq
<1>4. Len(buffer) \in Nat /\ Len(records) \in Nat
  BY <1>1, LenProperties
<1>5. \A i \in 1 .. Len(records) : i + Len(buffer) \in 1 .. Len(buffer) + Len(records)
                                    /\ ~(i + Len(buffer) <= Len(buffer)) /\ (i + Len(buffer)) - Len(buffer) = i
  BY <1>4
<1> QED BY <1>2, <1>3, <1>4, <1>5 DEF Places

\* One more record is queued.
LEMMA Queues ==
  ASSUME TypeOK, NEW x \in Records, records' = Append(records, x), buffer' = buffer
  PROVE  /\ records' \in Seq(Records)
         /\ Len(Pend') = Len(Pend) + 1
         /\ \A i \in 1 .. Len(Pend) : Pend'[i] = Pend[i]
         /\ Pend'[Len(Pend) + 1] = x
<1>1. buffer \in Seq(Records) /\ records \in Seq(Records)
  BY DEF TypeOK, Records
<1>2. records' \in Seq(Records) /\ Len(records') = Len(records) + 1
      /\ records'[Len(records) + 1] = x
      /\ \A i \in 1 .. Len(records) : records'[i] = records[i]
  BY <1>1, AppendProperties
<1>3. Len(Pend) = Len(buffer) + Len(records)
      /\ \A i \in 1 .. Len(buffer) + Len(records) :
           Pend[i] = IF i <= Len(buffer) THEN buffer[i] ELSE records[i - Len(buffer)]
  BY <1>1, ConcatProperties DEF Pend
<1>4. Len(Pend') = Len(buffer) + Len(records')
      /\ \A i \in 1 .. Len(buffer) + Len(records') :
           Pend'[i] = IF i <= Len(buffer) THEN buffer[i] ELSE records'[i - Len(buffer)]
  BY <1>1, <1>2, ConcatProperties DEF Pend
<1>5. PICK b \in Nat, n \in Nat : b = Len(buffer) /\ n = Len(records)
  BY <1>1, LenProperties
<1>6. Len(Pend) = b + n /\ Len(Pend') = b + n + 1
  BY <1>2, <1>3, <1>4, <1>5
<1>7. ASSUME NEW i \in 1 .. b + n PROVE Pend'[i] = Pend[i]
  <2>1. i <= b \/ (~(i <= b) /\ i - b \in 1 .. n)
    BY <1>5
  <2>2. i \in 1 .. b + (n + 1)
    BY <1>5
  <2> QED BY <1>2, <1>3, <1>4, <1>5, <2>1, <2>2
<1>8. Pend'[b + n + 1] = x
  <2>1. b + n + 1 \in 1 .. b + (n + 1) /\ ~(b + n + 1 <= b) /\ (b + n + 1) - b = n + 1
    BY <1>5
  <2> QED BY <1>2, <1>4, <1>5, <2>1
<1> QED BY <1>2, <1>6, <1>7, <1>8

\* Two more are queued.
LEMMA QueuesTwo ==
  ASSUME TypeOK, NEW x \in Records, NEW y \in Records, records' = records \o <<x, y>>, buffer' = buffer
  PROVE  /\ records' \in Seq(Records)
         /\ Len(Pend') = Len(Pend) + 2
         /\ \A i \in 1 .. Len(Pend) : Pend'[i] = Pend[i]
         /\ Pend'[Len(Pend) + 1] = x
         /\ Pend'[Len(Pend) + 2] = y
<1>1. buffer \in Seq(Records) /\ records \in Seq(Records) /\ <<x, y>> \in Seq(Records)
  BY DEF TypeOK, Records
<1>2. records' \in Seq(Records) /\ Len(records') = Len(records) + 2
      /\ \A i \in 1 .. Len(records) + 2 :
           records'[i] = IF i <= Len(records) THEN records[i] ELSE <<x, y>>[i - Len(records)]
  BY <1>1, ConcatProperties
<1>3. Len(Pend) = Len(buffer) + Len(records)
      /\ \A i \in 1 .. Len(buffer) + Len(records) :
           Pend[i] = IF i <= Len(buffer) THEN buffer[i] ELSE records[i - Len(buffer)]
  BY <1>1, ConcatProperties DEF Pend
<1>4. Len(Pend') = Len(buffer) + Len(records')
      /\ \A i \in 1 .. Len(buffer) + Len(records') :
           Pend'[i] = IF i <= Len(buffer) THEN buffer[i] ELSE records'[i - Len(buffer)]
  BY <1>1, <1>2, ConcatProperties DEF Pend
<1>5. PICK b \in Nat, n \in Nat : b = Len(buffer) /\ n = Len(records)
  BY <1>1, LenProperties
<1>6. Len(Pend) = b + n /\ Len(Pend') = b + n + 2
  BY <1>2, <1>3, <1>4, <1>5
<1>7. ASSUME NEW i \in 1 .. b + n PROVE Pend'[i] = Pend[i]
  <2>1. i <= b \/ (~(i <= b) /\ i - b \in 1 .. n)
    BY <1>5
  <2>2. i \in 1 .. b + (n + 2)
    BY <1>5
  <2>3. i - b \in 1 .. n => records'[i - b] = records[i - b]
    BY <1>2, <1>5
  <2> QED BY <1>2, <1>3, <1>4, <1>5, <2>1, <2>2, <2>3
<1>8. Pend'[b + n + 1] = x /\ Pend'[b + n + 2] = y
  <2>1. /\ b + n + 1 \in 1 .. b + (n + 2) /\ ~(b + n + 1 <= b) /\ (b + n + 1) - b = n + 1
        /\ b + n + 2 \in 1 .. b + (n + 2) /\ ~(b + n + 2 <= b) /\ (b + n + 2) - b = n + 2
    BY <1>5
  <2>2. records'[n + 1] = x /\ records'[n + 2] = y
    BY <1>2, <1>5
  <2> QED BY <1>2, <1>4, <1>5, <2>1, <2>2
<1> QED BY <1>2, <1>6, <1>7, <1>8

\* ... which leaves the others where they are.
LEMMA Behind ==
  ASSUME TypeOK, NEW x \in Records, records' = Append(records, x), buffer' = buffer
  PROVE  \E last \in Places' :
           /\ Places \subseteq Places' /\ last = Len(Pend') /\ last \notin Places
           /\ Pend'[last] = x
           /\ \A i \in Places : Pend'[i] = Pend[i] /\ i < last
           /\ \A i \in Places' : i \in Places \/ i = last
<1>1. PICK n \in Nat : n = Len(Pend)
  BY PendTyped
<1>2. Len(Pend') = n + 1 /\ (\A i \in 1 .. n : Pend'[i] = Pend[i]) /\ Pend'[n + 1] = x
  BY <1>1, Queues
<1>3. Places = 1 .. n /\ Places' = 1 .. (n + 1)
  BY <1>1, <1>2 DEF Places
<1>4. /\ n + 1 \in 1 .. (n + 1) /\ n + 1 \notin 1 .. n /\ 1 .. n \subseteq 1 .. (n + 1)
      /\ \A i \in 1 .. n : i < n + 1
      /\ \A i \in 1 .. (n + 1) : i \in 1 .. n \/ i = n + 1
  BY <1>1
<1> QED BY <1>2, <1>3, <1>4

LEMMA BehindTwo ==
  ASSUME TypeOK, NEW x \in Records, NEW y \in Records, records' = records \o <<x, y>>, buffer' = buffer
  PROVE  \E l \in Places', last \in Places' :
           /\ Places \subseteq Places' /\ last = Len(Pend') /\ l \notin Places /\ last \notin Places /\ l < last
           /\ Pend'[l] = x /\ Pend'[last] = y
           /\ \A i \in Places : Pend'[i] = Pend[i] /\ i < l
           /\ \A i \in Places' : i \in Places \/ i = l \/ i = last
<1>1. PICK n \in Nat : n = Len(Pend)
  BY PendTyped
<1>2. Len(Pend') = n + 2 /\ (\A i \in 1 .. n : Pend'[i] = Pend[i]) /\ Pend'[n + 1] = x /\ Pend'[n + 2] = y
  BY <1>1, QueuesTwo
<1>3. Places = 1 .. n /\ Places' = 1 .. (n + 2)
  BY <1>1, <1>2 DEF Places
<1>4. /\ n + 1 \in 1 .. (n + 2) /\ n + 1 \notin 1 .. n /\ n + 2 \in 1 .. (n + 2) /\ n + 2 \notin 1 .. n
      /\ n + 1 < n + 2 /\ 1 .. n \subseteq 1 .. (n + 2)
      /\ \A i \in 1 .. n : i < n + 1
      /\ \A i \in 1 .. (n + 2) : i \in 1 .. n \/ i = n + 1 \/ i = n + 2
  BY <1>1
<1> QED BY <1>2, <1>3, <1>4
-----------------------------------------------------------------------------
(* What each part of the invariant speaks of: it stands as long as that stays *)

\* The records of jobs that wait stay where they are.
SameWork ==
  /\ Marks' = Marks /\ \A i \in Marks : Pend'[i] = Pend[i]
  /\ \A op \in OfJob : Waits(op)' <=> Waits(op)

\* The results on their way to the callback stay where they are.
SameResults == Results' = Results /\ \A i \in Results : deliveries'[i] = deliveries[i]

\* So do the answers of the callback, or all move up by one.
SameAnswers ==
  \E d \in {0, 1} :
    /\ \A i \in Answers : i - d \in Answers' /\ events'[i - d] = events[i]
    /\ \A i \in Answers' : i + d \in Answers /\ events'[i] = events[i + d]

LEMMA NewsStays ==
  ASSUME UNCHANGED <<events, deliveries>>
  PROVE  SameAnswers /\ SameResults
  BY DEF SameAnswers, SameResults, Answers, Results

LEMMA AnswersToldOn ==
  ASSUME TypeOK, NEW x \in Events, x.op # "delivered", events' = Append(events, x)
  PROVE  SameAnswers
<1>1. events \in Seq(Events)
  BY DEF TypeOK, Events
<1>2. PICK n \in Nat : n = Len(events)
  BY <1>1, LenProperties
<1>3. Len(events') = n + 1 /\ (\A i \in 1 .. n : events'[i] = events[i]) /\ events'[n + 1] = x
  BY <1>1, <1>2, AppendProperties
<1>4. /\ \A i \in 1 .. n + 1 : i \in 1 .. n \/ i = n + 1
      /\ \A i \in 1 .. n : i \in 1 .. n + 1
  BY <1>2
<1>z. \A i \in 1 .. n : i - 0 = i /\ i + 0 = i
  BY <1>2
<1>5. /\ \A i \in Answers : i \in 1 .. n /\ i \in Answers' /\ events'[i] = events[i]
      /\ \A i \in Answers' : i \in 1 .. n /\ i \in Answers /\ events'[i] = events[i]
  BY <1>2, <1>3, <1>4 DEF Answers
<1> QED BY <1>z, <1>5 DEF SameAnswers

LEMMA AnswersMoveUp ==
  ASSUME TypeOK, events # <<>>, Head(events).op # "delivered", events' = Tail(events)
  PROVE  SameAnswers
<1>1. events \in Seq(Events)
  BY DEF TypeOK, Events
<1>2. Len(events) \in Nat /\ Len(events) # 0 /\ Len(events') = Len(events) - 1 /\ Head(events) = events[1]
      /\ \A i \in 1 .. Len(Tail(events)) : events'[i] = events[i + 1]
  BY <1>1, HeadTailProperties, LenProperties
<1>y. Len(events) - 1 \in Nat
  BY <1>2
<1>3. PICK n \in Nat : n = Len(events) - 1
  BY <1>y
<1>4. Len(events) = n + 1 /\ Len(events') = n /\ \A i \in 1 .. n : events'[i] = events[i + 1]
  BY <1>2, <1>3
<1>5. /\ \A i \in 1 .. n + 1 : i = 1 \/ (i - 1 \in 1 .. n /\ (i - 1) + 1 = i)
      /\ \A i \in 1 .. n : i + 1 \in 1 .. n + 1
  BY <1>3
<1>6. /\ \A i \in Answers : i - 1 \in Answers' /\ events'[i - 1] = events[i]
      /\ \A i \in Answers' : i + 1 \in Answers /\ events'[i] = events[i + 1]
  BY <1>2, <1>4, <1>5 DEF Answers
<1> QED BY <1>6 DEF SameAnswers

LEMMA ResultsToldOn ==
  ASSUME TypeOK, NEW x \in Tidings, x.op # "result", deliveries' = Append(deliveries, x)
  PROVE  SameResults
<1>1. deliveries \in Seq(Tidings)
  BY DEF TypeOK, Tidings
<1>2. PICK n \in Nat : n = Len(deliveries)
  BY <1>1, LenProperties
<1>3. Len(deliveries') = n + 1 /\ (\A i \in 1 .. n : deliveries'[i] = deliveries[i]) /\ deliveries'[n + 1] = x
  BY <1>1, <1>2, AppendProperties
<1>4. /\ \A i \in 1 .. n + 1 : i \in 1 .. n \/ i = n + 1
      /\ \A i \in 1 .. n : i \in 1 .. n + 1
  BY <1>2
<1>5. /\ \A i \in Results : i \in 1 .. n /\ i \in Results' /\ deliveries'[i] = deliveries[i]
      /\ \A i \in Results' : i \in 1 .. n /\ i \in Results
  BY <1>2, <1>3, <1>4 DEF Results
<1> QED BY <1>5 DEF SameResults

LEMMA PendStays ==
  ASSUME UNCHANGED <<buffer, records>>
  PROVE  Pend' = Pend
  BY DEF Pend

LEMMA WorkStays ==
  ASSUME Pend' = Pend
  PROVE  SameWork
  BY DEF SameWork, Marks, Waits, Places

LEMMA WorkQueuedToo ==
  ASSUME TypeOK, NEW x \in Records, x.op \notin OfJob, records' = Append(records, x), buffer' = buffer
  PROVE  SameWork
<1>1. PICK n \in Nat : n = Len(Pend)
  BY PendTyped
<1>2. Len(Pend') = n + 1 /\ (\A i \in 1 .. n : Pend'[i] = Pend[i]) /\ Pend'[n + 1] = x
  BY <1>1, Queues
<1>3. \A i \in 1 .. n + 1 : i \in 1 .. n \/ i = n + 1
  BY <1>1
<1>4. 1 .. n \subseteq 1 .. n + 1
  BY <1>1
<1>5. \A op \in OfJob : Waits(op)' <=> Waits(op)
  BY <1>1, <1>2, <1>3, <1>4 DEF Waits, Places
<1>6. Marks' = Marks
  BY <1>1, <1>2, <1>3, <1>4 DEF Marks, Places, OfJob
<1>7. \A i \in Marks : Pend'[i] = Pend[i]
  BY <1>1, <1>2 DEF Marks, Places
<1> QED BY <1>5, <1>6, <1>7 DEF SameWork

LEMMA RunsInOrderStays ==
  ASSUME RunsInOrder, UNCHANGED <<LastRun, status, announced>>
  PROVE  RunsInOrder'
  BY DEF RunsInOrder

LEMMA NumberedStays ==
  ASSUME Numbered, UNCHANGED <<LastRun, Now, Number, announced, next, row, rows>>
  PROVE  Numbered'
  BY DEF Numbered, Quiet

LEMMA ClaimsStays ==
  ASSUME Claims, UNCHANGED <<LastRun, Now, announced, claimed, caller, closing>>, SameAnswers
  PROVE  Claims'
  BY DEF Claims, Quiet, Active, SameAnswers

LEMMA HeardStays ==
  ASSUME Heard, UNCHANGED <<LastRun, Now, events, closing, looping, at, noted>>
  PROVE  Heard'
  BY DEF Heard, Active, Answers

LEMMA StagedStays ==
  ASSUME Staged, UNCHANGED <<LastRun, Now, Number, announced, deliveries, at, live, looping, todo, out, open, fed, row>>, SameWork
  PROVE  Staged'
  BY DEF Staged, Quiet, Results, SameWork, OfJob

LEMMA QueuedStays ==
  ASSUME Queued, UNCHANGED <<LastRun, Now, Number, Pend, caller, looping, at, row>>
  PROVE  Queued'
  BY DEF Queued, Waits, Places, IsFlush

LEMMA FlushingStays ==
  ASSUME Flushing, UNCHANGED <<Pend, at, caller, flushed, writing, looping, deliveries, events>>
  PROVE  Flushing'
  BY DEF Flushing, Waits, Places, IsFlush

LEMMA LateStays ==
  ASSUME Late, UNCHANGED <<LastRun, Now, announced, at, looping, noted, events, deliveries, broken>>
  PROVE  Late'
  BY DEF Late, Answers, Results

LEMMA ApartStays ==
  ASSUME Apart, UNCHANGED <<todo, open, out>>, SameResults, SameAnswers, SameWork
  PROVE  Apart'
<1>1. PICK d \in {0, 1} :
        /\ \A i \in Answers : i - d \in Answers' /\ events'[i - d] = events[i]
        /\ \A i \in Answers' : i + d \in Answers /\ events'[i] = events[i + d]
  BY DEF SameAnswers
<1>2. /\ Results' = Results /\ (\A i \in Results : deliveries'[i] = deliveries[i])
      /\ Marks' = Marks /\ (\A i \in Marks : Pend'[i] = Pend[i])
  BY DEF SameResults, SameWork
<1>3. \A i, j \in Answers' : events'[i].chunk = events'[j].chunk => i = j
  <2>1. SUFFICES ASSUME NEW i \in Answers', NEW j \in Answers', events'[i].chunk = events'[j].chunk PROVE i = j
    OBVIOUS
  <2>2. i + d = j + d
    BY <1>1, <2>1 DEF Apart
  <2>3. i \in Int /\ j \in Int
    BY DEF Answers
  <2> QED BY <2>2, <2>3
<1>4. /\ \A i \in 1 .. Len(todo) : todo[i] \notin open /\ (\A j \in Answers' : events'[j].chunk # todo[i])
      /\ \A c \in out : \A j \in Answers' : events'[j].chunk # c
      /\ \A i \in Results : \A j \in Answers' : events'[j].chunk # deliveries[i].chunk
      /\ \A i \in Answers' : \A j \in Marks : Pend[j].chunk # events'[i].chunk
  BY <1>1 DEF Apart
<1>5. /\ \A i, j \in Results : deliveries'[i].chunk = deliveries'[j].chunk => i = j
      /\ \A i, j \in Marks : Pend'[i].chunk = Pend'[j].chunk => i = j
  BY <1>2 DEF Apart
<1>6. /\ \A i \in 1 .. Len(todo) :
           /\ \A j \in Results : deliveries'[j].chunk # todo[i]
           /\ \A j \in Marks : Pend'[j].chunk # todo[i]
      /\ \A c \in out :
           /\ \A j \in Results : deliveries'[j].chunk # c
           /\ \A j \in Marks : Pend'[j].chunk # c
      /\ \A i \in Results : \A j \in Marks : Pend'[j].chunk # deliveries'[i].chunk
  BY <1>2 DEF Apart
<1>7. /\ \A i \in Results : \A j \in Answers' : events'[j].chunk # deliveries'[i].chunk
      /\ \A i \in Answers' : \A j \in Marks : Pend'[j].chunk # events'[i].chunk
  BY <1>2, <1>4
<1> QED BY <1>2, <1>3, <1>4, <1>5, <1>6, <1>7 DEF Apart

LEMMA UnrecordedStays ==
  ASSUME Unrecorded, UNCHANGED <<Now, Number, rows, row, out, skips, todo>>, SameResults, SameAnswers, SameWork
  PROVE  Unrecorded'
  BY DEF Unrecorded, Active, SameResults, SameAnswers, SameWork, OfJob

LEMMA AccountedStays ==
  ASSUME Accounted, UNCHANGED <<Now, open, out, todo, spoilt, taken, fed>>, SameResults, SameAnswers
  PROVE  Accounted'
  BY DEF Accounted, SameResults, SameAnswers

LEMMA CountedStays ==
  ASSUME Counted, UNCHANGED <<Now, Number, broken, lapses, caller, taken, row, rows, todo, out, skips>>, SameResults, SameAnswers, SameWork
  PROVE  Counted'
  BY DEF Counted, Cap, Owed, Kept, Shown, SameResults, SameAnswers, SameWork, OfJob

LEMMA ToldStays ==
  ASSUME Told, UNCHANGED <<LastRun, Now, Number, row, live, taken, spoilt, broken, lost>>, SameResults, SameWork
  PROVE  Told'
  BY DEF Told, Active, SameResults, SameWork, OfJob

-----------------------------------------------------------------------------
(* The writer takes what is queued; the callers *)

LEMMA RunStays ==
  ASSUME UNCHANGED <<status, num>>
  PROVE  UNCHANGED <<LastRun, Now, Number>>
  BY DEF LastRun, Now, Number

LEMMA DrainKeeps ==
  ASSUME Sound, Drain
  PROVE  Sound'
<1>1. TypeOK
  BY DEF Sound
<1>2. Pend' = Pend
  <2>1. buffer = <<>> /\ buffer' = records /\ records' = <<>>
    BY DEF Drain
  <2>2. records \in Seq(Records)
    BY <1>1 DEF TypeOK, Records
  <2> QED BY <2>1, <2>2, ConcatEmptySeq DEF Pend
<1>s. SameWork
  BY <1>2, WorkStays
<1>3. /\ UNCHANGED <<row, rows, live, broken, writing, flushed, status, num, next, claimed>>
      /\ UNCHANGED <<skips, todo, fed, out, open, spoilt, events, looping, closing, deliveries, at, noted>>
      /\ UNCHANGED <<announced, caller, taken, lapses, lost>>
  BY DEF Drain, disk, known, work, threads, ghosts
<1>4. UNCHANGED <<LastRun, Now, Number>>
  BY <1>3, RunStays
<1>t. TypeOK'
  BY <1>1, <1>3, EmptySeq DEF TypeOK, Drain
<1>5. RunsInOrder' /\ Numbered' /\ Claims' /\ Heard' /\ Staged'
  BY <1>3, <1>4, <1>2, <1>s, RunsInOrderStays, NumberedStays, NewsStays, ClaimsStays, HeardStays, StagedStays DEF Sound
<1>6. Queued' /\ Flushing' /\ Late' /\ Apart' /\ Unrecorded'
  BY <1>3, <1>4, <1>2, <1>s, QueuedStays, FlushingStays, LateStays, NewsStays, ApartStays, UnrecordedStays DEF Sound
<1>7. Accounted' /\ Counted' /\ Told'
  BY <1>3, <1>4, <1>2, <1>s, NewsStays, AccountedStays, CountedStays, ToldStays DEF Sound
<1> QED BY <1>t, <1>5, <1>6, <1>7 DEF Sound

LEMMA DiscardEndsKeeps ==
  ASSUME Sound, DiscardEnds
  PROVE  Sound'
<1>1. TypeOK
  BY DEF Sound
<1>2. caller = "discarding" /\ caller' = "idle" /\ flushed' = flushed \ {"caller"} /\ ("caller" \in flushed \/ ~writing)
  BY DEF DiscardEnds
<1>3. /\ UNCHANGED <<row, rows, records, buffer, live, broken, writing, status, num, next, claimed>>
      /\ UNCHANGED <<skips, todo, fed, out, open, spoilt, events, looping, closing, deliveries, at, noted>>
      /\ UNCHANGED <<announced, taken, lapses, lost>>
  BY DEF DiscardEnds, disk, known, work, threads, ghosts
<1>4. UNCHANGED <<LastRun, Now, Number, Pend>>
  BY <1>3, RunStays, PendStays
<1>t. TypeOK'
  BY <1>1, <1>2, <1>3 DEF TypeOK
<1>s. SameWork
  BY <1>4, WorkStays
<1>5. RunsInOrder' /\ Numbered' /\ Heard' /\ Staged' /\ Late'
  BY <1>3, <1>4, <1>s, RunsInOrderStays, NumberedStays, HeardStays, StagedStays, LateStays DEF Sound
<1>6. Apart' /\ Unrecorded' /\ Accounted' /\ Told'
  BY <1>3, <1>4, <1>s, NewsStays, ApartStays, UnrecordedStays, AccountedStays, ToldStays DEF Sound
<1>7. Claims'
  BY <1>2, <1>3, <1>4 DEF Sound, Claims, Quiet, Active, Answers
<1>8. writing
  BY <1>2 DEF Sound, Claims, Heard, Flushing
<1>9. \A i \in Places : ~IsFlush(Pend[i], "caller")
  BY <1>2, <1>8 DEF Sound, Flushing
<1>10. \A i \in Places : Pend[i].op # "discard"
  BY <1>9 DEF Sound, Flushing
<1>11. Queued'
  BY <1>2, <1>3, <1>4, <1>9, <1>10 DEF Sound, Queued, Waits, Places, IsFlush
<1>12. Flushing'
  BY <1>2, <1>3, <1>4, <1>9, <1>10 DEF Sound, Flushing, Waits, Places, IsFlush
<1>13. Counted'
  BY <1>2, <1>3, <1>4 DEF Sound, Counted, Cap, Owed, Kept, Shown, Waits, Results, Answers, Marks, Places
<1> QED BY <1>t, <1>5, <1>6, <1>7, <1>11, <1>12, <1>13 DEF Sound

LEMMA FeedKeeps ==
  ASSUME Sound, Feed
  PROVE  Sound'
<1>1. TypeOK
  BY DEF Sound
<1>2. /\ UNCHANGED <<row, rows, records, buffer, live, broken, writing, flushed, status, num, next, claimed>>
      /\ UNCHANGED <<skips, fed, spoilt, events, looping, closing, deliveries, at, noted>>
      /\ UNCHANGED <<announced, caller, taken, lapses, lost>>
  BY DEF Feed, disk, writer, known, threads, ghosts
<1>3. UNCHANGED <<LastRun, Now, Number, Pend>>
  BY <1>2, RunStays, PendStays
<1>4. todo # <<>> /\ Running(LastRun) /\ todo' = Tail(todo)
  BY DEF Feed
<1>5. LastRun \in 1 .. RunsMax /\ Now = "running" /\ Number = num[LastRun]
  <2>1. LastRun \in 0 .. RunsMax
    BY <1>1, LastRunIs
  <2>2. status[LastRun] = "running"
    BY <1>4 DEF Running
  <2>3. LastRun # 0 => Now = "running" /\ Number = num[LastRun]
    BY <2>2 DEF Now, Number
  <2>4. LastRun # 0
    BY <1>4 DEF Sound, Staged, Now
  <2> QED BY <2>1, <2>3, <2>4
<1>6. PICK h \in Chunks, n \in Nat :
        /\ h = Head(todo) /\ h = todo[1] /\ Len(todo) = n + 1 /\ todo' \in Seq(Chunks) /\ Len(todo') = n
        /\ \A i \in 1 .. n : todo'[i] = todo[i + 1]
  <2>1. todo \in Seq(Chunks) /\ todo # <<>>
    BY <1>1, <1>4 DEF TypeOK
  <2>2. Head(todo) \in Chunks /\ Head(todo) = todo[1] /\ todo' \in Seq(Chunks) /\ Len(todo) \in Nat /\ Len(todo) # 0
        /\ Len(todo') = Len(todo) - 1 /\ \A i \in 1 .. Len(Tail(todo)) : todo'[i] = todo[i + 1]
    BY <2>1, <1>4, HeadTailProperties, LenProperties
  <2>3. Len(todo) - 1 \in Nat /\ Len(todo) = (Len(todo) - 1) + 1
    BY <2>2
  <2> QED BY <1>4, <2>2, <2>3
<1>7. /\ \A i \in 1 .. n : i + 1 \in 1 .. Len(todo) /\ i + 1 # 1
      /\ 1 \in 1 .. Len(todo)
  BY <1>6
<1>8. Seen(LastRun, h) <=> Shown(h)
  BY <1>5 DEF Seen, Shown
<1>9. \/ Shown(h) /\ UNCHANGED <<out, open>>
      \/ ~Shown(h) /\ out' = out \cup {h} /\ open' = open \cup {h}
  BY <1>6, <1>8 DEF Feed, Opened
<1>10. \A c \in Chunks : (\E i \in 1 .. n : todo'[i] = c) => \E i \in 1 .. Len(todo) : todo[i] = c
  BY <1>6, <1>7
<1>11. \A i \in 1 .. n : todo'[i] # h
  <2>1. \A i, j \in 1 .. Len(todo) : todo[i] = todo[j] => i = j
    BY DEF Sound, Apart
  <2> QED BY <2>1, <1>6, <1>7
<1>t. TypeOK'
  BY <1>1, <1>2, <1>6, <1>9 DEF TypeOK
<1>12. RunsInOrder' /\ Numbered' /\ Claims' /\ Heard' /\ Queued' /\ Flushing' /\ Late' /\ Told'
  BY <1>2, <1>3, WorkStays, RunsInOrderStays, NumberedStays, NewsStays, ClaimsStays, HeardStays, QueuedStays, FlushingStays, LateStays, ToldStays
     DEF Sound
<1>13. Staged'
  BY <1>2, <1>3, <1>5 DEF Sound, Staged, Quiet, Waits, Places, Results
<1>14. Apart'
  <2>1. \A i \in 1 .. Len(todo) :
          /\ todo[i] \notin open
          /\ \A j \in Results : deliveries[j].chunk # todo[i]
          /\ \A j \in Answers : events[j].chunk # todo[i]
          /\ \A j \in Marks : Pend[j].chunk # todo[i]
    BY DEF Sound, Apart
  <2>2. Results' = Results /\ Answers' = Answers /\ Marks' = Marks /\ UNCHANGED <<deliveries, events, Pend>>
    BY <1>2, <1>3 DEF Results, Answers, Marks, Places
  <2>3. \A i, j \in 1 .. Len(todo') : todo'[i] = todo'[j] => i = j
    <3>1. SUFFICES ASSUME NEW i \in 1 .. n, NEW j \in 1 .. n, todo'[i] = todo'[j] PROVE i = j
      BY <1>6
    <3>2. todo[i + 1] = todo[j + 1]
      BY <3>1, <1>6
    <3>3. i + 1 = j + 1
      BY <3>2, <1>7 DEF Sound, Apart
    <3> QED BY <3>3
  <2>4. \A i \in 1 .. Len(todo') :
          /\ todo'[i] \notin open'
          /\ \A j \in Results : deliveries[j].chunk # todo'[i]
          /\ \A j \in Answers : events[j].chunk # todo'[i]
          /\ \A j \in Marks : Pend[j].chunk # todo'[i]
    BY <2>1, <1>6, <1>7, <1>9, <1>11
  <2>5. \A c \in out' : c \in out \/ c = todo[1]
    BY <1>6, <1>9
  <2>6. \A c \in out' :
          /\ \A j \in Results : deliveries[j].chunk # c
          /\ \A j \in Answers : events[j].chunk # c
          /\ \A j \in Marks : Pend[j].chunk # c
    BY <2>1, <2>5, <1>7 DEF Sound, Apart
  <2> QED BY <2>2, <2>3, <2>4, <2>6 DEF Sound, Apart
<1>15. Unrecorded'
  <2>1. \A c \in out' : <<Number, c>> \notin rows
    BY <1>5, <1>6, <1>7, <1>9 DEF Sound, Unrecorded, Shown
  <2>2. \A i \in 1 .. n : ~skips => <<Number, todo'[i]>> \notin rows
    BY <1>5, <1>6, <1>7 DEF Sound, Unrecorded
  <2> QED BY <1>2, <1>3, <1>5, <1>6, <2>1, <2>2 DEF Sound, Unrecorded, Active, Resumable, Results, Answers, Marks, Places
<1>16. Accounted'
  <2>1. Shown(h) => taken[h] > 0
    <3>1. Shown(h) => <<Number, h>> \in rows /\ Number = row.n
      BY DEF Shown, Sound, Numbered
    <3> QED BY <3>1 DEF Sound, Counted
  <2>2. ~fed
    BY <1>4, <1>5 DEF Sound, Accounted
  <2>3. \A c \in Chunks : \/ \E i \in 1 .. n : todo'[i] = c
                         \/ c \in open' \cup spoilt
                         \/ taken[c] > 0
    <3>1. SUFFICES ASSUME NEW c \in Chunks, NEW i \in 1 .. Len(todo), todo[i] = c, c # h
                   PROVE  \E j \in 1 .. n : todo'[j] = c
      BY <1>5, <1>9, <2>1 DEF Sound, Accounted
    <3>2. i # 1
      BY <3>1, <1>6
    <3>3. i - 1 \in 1 .. n /\ (i - 1) + 1 = i
      BY <3>2, <1>6
    <3> QED BY <3>1, <3>3, <1>6
  <2>4. \A c \in open' :
          c \in out' \/ (\E i \in Results : deliveries[i].chunk = c) \/ \E i \in Answers : events[i].chunk = c
    BY <1>5, <1>9 DEF Sound, Accounted
  <2>5. (\A i \in Results : deliveries[i].chunk \in open') /\ \A i \in Answers : events[i].chunk \in open'
    BY <1>5, <1>9 DEF Sound, Accounted
  <2> QED BY <1>2, <1>3, <1>6, <2>2, <2>3, <2>4, <2>5 DEF Accounted, Results, Answers
<1>17. Counted'
  <2>1. \A c \in Chunks : Owed(c)' => Owed(c)
    <3>1. SUFFICES ASSUME NEW c \in Chunks, Owed(c)' PROVE Owed(c)
      OBVIOUS
    <3>2. CASE \E i \in 1 .. Len(todo') : todo'[i] = c /\ ~Shown(c)'
      <4>1. (\E i \in 1 .. Len(todo) : todo[i] = c) /\ ~Shown(c)
        BY <3>2, <1>2, <1>3, <1>6, <1>10 DEF Shown
      <4> QED BY <4>1 DEF Owed
    <3>3. CASE c \in out'
      BY <3>3, <1>6, <1>7, <1>9 DEF Owed
    <3>4. CASE ~(\E i \in 1 .. Len(todo') : todo'[i] = c /\ ~Shown(c)') /\ c \notin out'
      BY <3>1, <3>4, <1>2, <1>3 DEF Owed, Results
    <3> QED BY <3>2, <3>3, <3>4
  <2>2. Cap' = Cap /\ \A c \in Chunks : Kept(c)' <=> Kept(c)
    BY <1>2, <1>3 DEF Cap, Kept, Waits, Answers, Marks, Places
  <2>3. Chunks' = Chunks /\ Answers' = Answers /\ Marks' = Marks
    BY <1>2, <1>3 DEF Answers, Marks, Places
  <2> QED BY <1>2, <1>3, <2>1, <2>2, <2>3 DEF Sound, Counted
<1> QED BY <1>t, <1>12, <1>13, <1>14, <1>15, <1>16, <1>17 DEF Sound

\* With no run that holds the key, all is quiet.
LEMMA AllQuiet ==
  ASSUME Sound, Patient, ~Hasty, ~claimed
  PROVE  Quiet
<1>1. TypeOK /\ \A r \in Runs : status[r] \in Ended => r \in announced
  BY DEF Sound, Patient
<1>2. LastRun \in 0 .. RunsMax
  BY <1>1, LastRunIs
<1>3. CASE LastRun = 0
  BY <1>3 DEF Quiet, Now
<1>4. CASE LastRun # 0
  <2>1. LastRun \in Runs /\ Now = status[LastRun]
    BY <1>2, <1>4 DEF Runs, Now
  <2>2. Now # "new"
    BY <2>1, <1>2 DEF Sound, RunsInOrder
  <2>3. Now \in {"new", "submitted", "running", "gone"} \cup Ended
    BY <2>1, <1>1 DEF TypeOK
  <2>4. Now \notin {"submitted", "running"}
    BY DEF Sound, Claims, Active
  <2> QED BY <1>1, <2>1, <2>2, <2>3, <2>4 DEF Quiet
<1> QED BY <1>3, <1>4

LEMMA SubmitBeginsKeeps ==
  ASSUME Sound, SubmitBegins, ~Hasty
  PROVE  Sound'
<1>1. TypeOK
  BY DEF Sound
<1>2. /\ UNCHANGED <<row, rows, buffer, live, broken, writing, flushed, status, num, next>>
      /\ UNCHANGED <<skips, todo, fed, out, open, spoilt, events, looping, closing, deliveries, at, noted>>
      /\ UNCHANGED <<announced, taken, lapses, lost>>
  BY DEF SubmitBegins, disk, work, threads, ghosts
<1>3. UNCHANGED <<LastRun, Now, Number>>
  BY <1>2, RunStays
<1>4. ~closing /\ ~broken /\ caller = "idle" /\ ~claimed /\ claimed' /\ caller' = "claiming"
  BY DEF SubmitBegins, Claimable
<1>5. PICK x \in Records : x = Bare("flush") /\ records' = Append(records, x)
  <2>1. Bare("flush") \in Records
    BY JournalAssumption DEF Bare, Item, Records, Items
  <2> QED BY <2>1 DEF SubmitBegins, Record
<1>6. x.op = "flush" /\ x.run = 0
  BY <1>5 DEF Bare, Item
<1>7. records' \in Seq(Records)
  BY <1>1, <1>2, <1>5, Queues
<1>8. PICK last \in Places' :
        /\ Places \subseteq Places' /\ last \notin Places /\ Pend'[last] = x
        /\ \A i \in Places : Pend'[i] = Pend[i] /\ i < last
        /\ \A i \in Places' : i \in Places \/ i = last
  BY <1>1, <1>2, <1>5, Behind
<1>9. SameWork
  BY <1>1, <1>2, <1>5, <1>6, WorkQueuedToo DEF OfJob
<1>10. Quiet
  BY <1>4, AllQuiet DEF SubmitBegins
<1>11. looping
  BY <1>4 DEF Sound, Heard
<1>12. Answers = {}
  <2>1. Now \in {"none", "gone"} => Answers = {}
    BY DEF Sound, Heard, Answers
  <2>2. SUFFICES ASSUME Now \notin {"none", "gone"}, Answers # {} PROVE FALSE
    BY <2>1
  <2>3. LastRun \in announced /\ LastRun # 0 /\ Now = status[LastRun]
    BY <1>10, <2>2 DEF Quiet, Now
  <2>4. Now \in Ended
    BY <2>3 DEF Sound, RunsInOrder
  <2>5. Now \in Resumable \/ Now \in Final
    BY <2>4 DEF Ended, Resumable, Final
  <2>6. Now \in Resumable => Answers = {}
    BY <2>3, <1>11 DEF Sound, Late
  <2>7. Now \in Final => Answers = {}
    BY <1>4 DEF Sound, Late
  <2> QED BY <2>2, <2>5, <2>6, <2>7
<1>13. ~Waits("end") /\ ~Waits("discard")
  <2>1. ~Waits("end")
    BY <1>11 DEF Sound, Flushing
  <2>2. ~Waits("discard")
    BY <1>4 DEF Sound, Queued, Waits
  <2> QED BY <2>1, <2>2
<1>t. TypeOK'
  BY <1>1, <1>2, <1>4, <1>7 DEF TypeOK, Records
<1>16. RunsInOrder' /\ Numbered' /\ Heard' /\ Staged' /\ Late'
  BY <1>2, <1>3, <1>9, RunsInOrderStays, NumberedStays, HeardStays, StagedStays, LateStays DEF Sound
<1>17. Apart' /\ Unrecorded' /\ Accounted' /\ Told'
  BY <1>2, <1>3, <1>9, NewsStays, ApartStays, UnrecordedStays, AccountedStays, ToldStays DEF Sound
<1>18. Claims'
  <2>1. Quiet' /\ Answers' = {}
    BY <1>2, <1>3, <1>10, <1>12 DEF Quiet, Answers
  <2>2. LastRun < RunsMax
    BY DEF SubmitBegins
  <2> QED BY <2>1, <2>2, <1>2, <1>3, <1>4 DEF Claims
<1>19. Queued'
  <2>1. \A i \in Places' :
       /\ Pend'[i].op \in OfJob => Pend'[i].run = LastRun /\ Now \notin {"none", "gone"}
       /\ Pend'[i].op = "chunk" => Pend'[i].chunk \in Chunks
       /\ Pend'[i].op = "ended" => Now \in Ended /\ Pend'[i].ok = (Now \notin Resumable)
       /\ Pend'[i].op # "discard" /\ Pend'[i].op # "end"
       /\ IsFlush(Pend'[i], "delivery") => at.op = "flushing"
    BY <1>6, <1>13, <1>8 DEF Sound, Queued, OfJob, Waits, IsFlush
  <2>2. \A i, j \in Places' :
       /\ Pend'[i].op = "job" /\ Pend'[j].op \in OfJob => i <= j
       /\ Pend'[i].op = "ended" /\ Pend'[j].op = "ended" => i = j
    BY <1>6, <1>8 DEF Sound, Queued, OfJob
  <2>3. \A op \in OfJob : Waits(op)' <=> Waits(op)
    BY <1>9 DEF SameWork
  <2> QED BY <1>2, <1>3, <1>4, <2>1, <2>2, <2>3 DEF Sound, Queued, OfJob
<1>20. Flushing'
  <2>1. \A i \in Places' : Pend'[i].op \in OfJob /\ at.op = "flushing" =>
            \E j \in Places' : j > i /\ IsFlush(Pend'[j], "delivery")
    <3>1. SUFFICES ASSUME NEW i \in Places', Pend'[i].op \in OfJob, at.op = "flushing"
                   PROVE  \E j \in Places' : j > i /\ IsFlush(Pend'[j], "delivery")
      OBVIOUS
    <3>2. i \in Places /\ Pend[i].op \in OfJob
      BY <3>1, <1>6, <1>8 DEF OfJob
    <3>3. PICK j \in Places : j > i /\ IsFlush(Pend[j], "delivery")
      BY <3>1, <3>2 DEF Sound, Flushing
    <3>4. Pend'[j] = Pend[j]
      BY <3>3, <1>8
    <3> QED BY <3>3, <3>4, <1>8
  <2>2. \A i \in Places' : Pend'[i].op # "discard" /\ Pend'[i].op # "end"
    BY <1>6, <1>13, <1>8 DEF Waits
  <2>3. "caller" \notin flushed /\ writing
    BY <1>4, <1>11 DEF Sound, Flushing
  <2>4. "delivery" \in flushed => at.op = "flushing" /\ \A i \in Places' : ~IsFlush(Pend'[i], "delivery")
    BY <1>6, <1>8 DEF Sound, Flushing, IsFlush
  <2>u. \A i, j \in Places' : \A who \in {"caller", "delivery"} :
          IsFlush(Pend'[i], who) /\ IsFlush(Pend'[j], who) => i = j
    BY <1>4, <1>6, <1>8 DEF Sound, Queued, Flushing, IsFlush
  <2> QED BY <1>2, <2>1, <2>2, <2>3, <2>4, <2>u DEF Flushing, Waits
<1>21. Counted'
  <2>1. \A c \in Chunks : Kept(c)' <=> Kept(c)
    BY <1>2, <1>3, <1>9 DEF Kept, SameWork, OfJob, Answers
  <2>2. \A c \in Chunks : Owed(c)' <=> Owed(c)
    BY <1>2, <1>3 DEF Owed, Shown, Results
  <2>3. Cap' = Cap /\ Answers' = Answers
    BY <1>2 DEF Cap, Answers
  <2> QED BY <1>2, <1>3, <1>4, <1>9, <2>1, <2>2, <2>3 DEF Sound, Counted, SameWork
<1> QED BY <1>t, <1>16, <1>17, <1>18, <1>19, <1>20, <1>21 DEF Sound
LEMMA DiscardBeginsKeeps ==
  ASSUME Sound, DiscardBegins, ~Hasty
  PROVE  Sound'
<1>1. TypeOK
  BY DEF Sound
<1>2. /\ UNCHANGED <<row, rows, buffer, live, broken, writing, flushed, status, num, next, claimed>>
      /\ UNCHANGED <<skips, todo, fed, out, open, spoilt, events, looping, closing, deliveries, at, noted>>
      /\ UNCHANGED <<announced, taken, lapses, lost>>
  BY DEF DiscardBegins, disk, known, work, threads, ghosts
<1>3. UNCHANGED <<LastRun, Now, Number>>
  BY <1>2, RunStays
<1>4. ~closing /\ caller = "idle" /\ ~claimed /\ caller' = "discarding" /\ Patient
  BY DEF DiscardBegins
<1>5. PICK x \in Records, y \in Records :
        x = Bare("discard") /\ y = Bare("flush") /\ records' = records \o <<x, y>>
  <2>1. Bare("discard") \in Records /\ Bare("flush") \in Records
    BY JournalAssumption DEF Bare, Item, Records, Items
  <2> QED BY <2>1 DEF DiscardBegins
<1>6. x.op = "discard" /\ y.op = "flush" /\ y.run = 0
  BY <1>5 DEF Bare, Item
<1>7. records' \in Seq(Records)
  BY <1>1, <1>2, <1>5, QueuesTwo
<1>8. PICK l \in Places', last \in Places' :
        /\ Places \subseteq Places' /\ l \notin Places /\ last \notin Places /\ l < last
        /\ Pend'[l] = x /\ Pend'[last] = y
        /\ \A i \in Places : Pend'[i] = Pend[i] /\ i < l
        /\ \A i \in Places' : i \in Places \/ i = l \/ i = last
  BY <1>1, <1>2, <1>5, BehindTwo
<1>9. SameWork
  <2>1. \A op \in OfJob : Waits(op)' <=> Waits(op)
    BY <1>6, <1>8 DEF Waits, OfJob
  <2>2. Marks' = Marks /\ \A i \in Marks : Pend'[i] = Pend[i]
    BY <1>6, <1>8 DEF Marks
  <2> QED BY <2>1, <2>2 DEF SameWork
<1>10. Quiet
  BY <1>4, AllQuiet
<1>11. looping
  BY <1>4 DEF Sound, Heard
<1>13. ~Waits("end")
  BY <1>11 DEF Sound, Flushing
<1>t. TypeOK'
  BY <1>1, <1>2, <1>4, <1>7 DEF TypeOK, Records
<1>16. RunsInOrder' /\ Numbered' /\ Heard' /\ Staged' /\ Late'
  BY <1>2, <1>3, <1>9, RunsInOrderStays, NumberedStays, HeardStays, StagedStays, LateStays DEF Sound
<1>17. Apart' /\ Unrecorded' /\ Accounted' /\ Told'
  BY <1>2, <1>3, <1>9, NewsStays, ApartStays, UnrecordedStays, AccountedStays, ToldStays DEF Sound
<1>18. Claims'
  <2>1. Quiet'
    BY <1>2, <1>3, <1>10 DEF Quiet
  <2> QED BY <2>1, <1>2, <1>3, <1>4 DEF Sound, Claims, Active
<1>19. Queued'
  <2>1. \A i \in Places' :
       /\ Pend'[i].op \in OfJob => Pend'[i].run = LastRun /\ Now \notin {"none", "gone"}
       /\ Pend'[i].op = "chunk" => Pend'[i].chunk \in Chunks
       /\ Pend'[i].op = "ended" => Now \in Ended /\ Pend'[i].ok = (Now \notin Resumable)
       /\ Pend'[i].op # "end"
       /\ IsFlush(Pend'[i], "delivery") => at.op = "flushing"
    BY <1>6, <1>13, <1>8 DEF Sound, Queued, OfJob, Waits, IsFlush
  <2>2. \A i, j \in Places' :
       /\ Pend'[i].op = "job" /\ Pend'[j].op \in OfJob => i <= j
       /\ Pend'[i].op = "ended" /\ Pend'[j].op = "ended" => i = j
    BY <1>6, <1>8 DEF Sound, Queued, OfJob
  <2>3. \A op \in OfJob : Waits(op)' <=> Waits(op)
    BY <1>9 DEF SameWork
  <2> QED BY <1>2, <1>3, <1>4, <1>11, <2>1, <2>2, <2>3 DEF Sound, Queued, OfJob
<1>20. Flushing'
  <2>1. \A i \in Places' : Pend'[i].op \in OfJob /\ at.op = "flushing" =>
            \E j \in Places' : j > i /\ IsFlush(Pend'[j], "delivery")
    <3>1. SUFFICES ASSUME NEW i \in Places', Pend'[i].op \in OfJob, at.op = "flushing"
                   PROVE  \E j \in Places' : j > i /\ IsFlush(Pend'[j], "delivery")
      OBVIOUS
    <3>2. i \in Places /\ Pend[i].op \in OfJob
      BY <3>1, <1>6, <1>8 DEF OfJob
    <3>3. PICK j \in Places : j > i /\ IsFlush(Pend[j], "delivery")
      BY <3>1, <3>2 DEF Sound, Flushing
    <3>4. Pend'[j] = Pend[j]
      BY <3>3, <1>8
    <3> QED BY <3>3, <3>4, <1>8
  <2>2. \A i \in Places' : Pend'[i].op # "end"
    BY <1>6, <1>13, <1>8 DEF Waits
  <2>3. "caller" \notin flushed /\ writing
    BY <1>4, <1>11 DEF Sound, Flushing
  <2>4. "delivery" \in flushed => at.op = "flushing" /\ \A i \in Places' : ~IsFlush(Pend'[i], "delivery")
    BY <1>6, <1>8 DEF Sound, Flushing, IsFlush
  <2>5. \A i \in Places' : Pend'[i].op = "discard" => i < last
    <3>1. \A i \in Places : i < last
      BY <1>8 DEF Places
    <3> QED BY <3>1, <1>6, <1>8
  <2>6. \A i \in Places' : i < last => last > i
    BY DEF Places
  <2>7. \A i \in Places' : Pend'[i].op = "discard" => \E j \in Places' : j > i /\ IsFlush(Pend'[j], "caller")
    BY <2>5, <2>6, <1>6, <1>8 DEF IsFlush
  <2>u. \A i, j \in Places' : \A who \in {"caller", "delivery"} :
          IsFlush(Pend'[i], who) /\ IsFlush(Pend'[j], who) => i = j
    BY <1>4, <1>6, <1>8 DEF Sound, Queued, Flushing, IsFlush
  <2> QED BY <1>2, <2>1, <2>2, <2>3, <2>4, <2>7, <2>u DEF Flushing, Waits
<1>21. Counted'
  <2>1. \A c \in Chunks : Kept(c)' <=> Kept(c)
    BY <1>2, <1>3, <1>9 DEF Kept, SameWork, OfJob, Answers
  <2>2. \A c \in Chunks : Owed(c)' <=> Owed(c)
    BY <1>2, <1>3 DEF Owed, Shown, Results
  <2>3. Cap' = Cap /\ Answers' = Answers
    BY <1>2 DEF Cap, Answers
  <2> QED BY <1>2, <1>3, <1>4, <1>9, <2>1, <2>2, <2>3 DEF Sound, Counted, SameWork
<1> QED BY <1>t, <1>16, <1>17, <1>18, <1>19, <1>20, <1>21 DEF Sound

\* One more event waits for the loop.
LEMMA Tells ==
  ASSUME TypeOK, NEW x \in Events, events' = Append(events, x)
  PROVE  /\ events' \in Seq(Events)
         /\ \E last \in 1 .. Len(events') :
              /\ last = Len(events') /\ last = Len(events) + 1 /\ events'[last] = x
              /\ \A i \in 1 .. Len(events) : i \in 1 .. Len(events') /\ events'[i] = events[i] /\ i < last
              /\ \A i \in 1 .. Len(events') : i \in 1 .. Len(events) \/ i = last
<1>1. events \in Seq(Events)
  BY DEF TypeOK, Events
<1>2. PICK n \in Nat : n = Len(events)
  BY <1>1, LenProperties
<1>3. events' \in Seq(Events) /\ Len(events') = n + 1 /\ events'[n + 1] = x
      /\ \A i \in 1 .. n : events'[i] = events[i]
  BY <1>1, <1>2, AppendProperties
<1>4. /\ n + 1 \in 1 .. n + 1
      /\ \A i \in 1 .. n : i \in 1 .. n + 1 /\ i < n + 1
      /\ \A i \in 1 .. n + 1 : i \in 1 .. n \/ i = n + 1
  BY <1>2
<1> QED BY <1>2, <1>3, <1>4

\* One more thing waits for the delivery thread.
LEMMA Delivers ==
  ASSUME TypeOK, NEW x \in Tidings, deliveries' = Append(deliveries, x)
  PROVE  /\ deliveries' \in Seq(Tidings)
         /\ \E last \in 1 .. Len(deliveries') :
              /\ last = Len(deliveries') /\ last \notin 1 .. Len(deliveries) /\ deliveries'[last] = x
              /\ \A i \in 1 .. Len(deliveries) :
                   i \in 1 .. Len(deliveries') /\ deliveries'[i] = deliveries[i] /\ i < last
              /\ \A i \in 1 .. Len(deliveries') : i \in 1 .. Len(deliveries) \/ i = last
<1>1. deliveries \in Seq(Tidings)
  BY DEF TypeOK, Tidings
<1>2. PICK n \in Nat : n = Len(deliveries)
  BY <1>1, LenProperties
<1>3. deliveries' \in Seq(Tidings) /\ Len(deliveries') = n + 1 /\ deliveries'[n + 1] = x
      /\ \A i \in 1 .. n : deliveries'[i] = deliveries[i]
  BY <1>1, <1>2, AppendProperties
<1>4. /\ n + 1 \in 1 .. n + 1 /\ n + 1 \notin 1 .. n
      /\ \A i \in 1 .. n : i \in 1 .. n + 1 /\ i < n + 1
      /\ \A i \in 1 .. n + 1 : i \in 1 .. n \/ i = n + 1
  BY <1>2
<1> QED BY <1>2, <1>3, <1>4

\* A run that is on is the last one.
LEMMA RunningIsLast ==
  ASSUME Sound, NEW r \in Runs, Running(r)
  PROVE  LastRun \in Runs /\ r = LastRun /\ Now = "running" /\ Number = num[r]
<1>1. TypeOK
  BY DEF Sound
<1>2. LastRun \in 0 .. RunsMax
  BY <1>1, LastRunIs
<1>3. ~(r > LastRun)
  BY DEF Sound, RunsInOrder, Running
<1>4. ~(r < LastRun)
  BY DEF Sound, RunsInOrder, Running, Ended
<1>5. r \in Nat /\ r # 0
  BY DEF Runs
<1>6. r = LastRun /\ LastRun # 0
  BY <1>2, <1>3, <1>4, <1>5
<1> QED BY <1>6 DEF Now, Number, Running

LEMMA CancelKeeps ==
  ASSUME Sound, NEW r \in Runs, Cancel(r)
  PROVE  Sound'
<1>1. TypeOK
  BY DEF Sound
<1>2. /\ UNCHANGED <<row, rows, records, buffer, live, broken, writing, flushed, status, num, next, claimed>>
      /\ UNCHANGED <<skips, todo, fed, out, open, spoilt, looping, closing, deliveries, at, noted>>
      /\ UNCHANGED <<announced, caller, taken, lapses, lost>>
  BY DEF Cancel, disk, writer, known, work, ghosts
<1>3. UNCHANGED <<LastRun, Now, Number, Pend>> /\ SameWork
  BY <1>2, RunStays, PendStays, WorkStays
<1>4. PICK x \in Events : x = OfRun("cancel", r) /\ events' = Append(events, x)
  <2>1. OfRun("cancel", r) \in Events
    BY DEF OfRun, Item, Events, Items, Runs
  <2> QED BY <2>1 DEF Cancel, Tell
<1>5. x.op = "cancel" /\ x.run = r
  BY <1>4 DEF OfRun, Item
<1>6. SameAnswers /\ SameResults
  BY <1>1, <1>2, <1>4, <1>5, AnswersToldOn DEF SameResults, Results
<1>7. events' \in Seq(Events)
  BY <1>1, <1>4, Tells
<1>8. PICK last \in 1 .. Len(events') :
        /\ events'[last] = x
        /\ \A i \in 1 .. Len(events) : i \in 1 .. Len(events') /\ events'[i] = events[i] /\ i < last
        /\ \A i \in 1 .. Len(events') : i \in 1 .. Len(events) \/ i = last
  BY <1>1, <1>4, Tells
<1>9. r = LastRun /\ Now = "running"
  BY RunningIsLast DEF Cancel, Running
<1>10. looping /\ ~Waits("end") /\ writing
  BY <1>9 DEF Sound, Heard, Flushing, Active
<1>11. Answers' = Answers /\ \A i \in Answers : events'[i] = events[i]
  BY <1>5, <1>8 DEF Answers
<1>t. TypeOK'
  BY SMTT(30), <1>1, <1>2, <1>7 DEF TypeOK, Events
<1>12. RunsInOrder' /\ Numbered' /\ Claims' /\ Staged' /\ Queued'
  BY <1>2, <1>3, <1>6, RunsInOrderStays, NumberedStays, ClaimsStays, StagedStays, QueuedStays DEF Sound
<1>13. Apart' /\ Unrecorded' /\ Accounted' /\ Counted' /\ Told'
  BY <1>2, <1>3, <1>6, ApartStays, UnrecordedStays, AccountedStays, CountedStays, ToldStays DEF Sound
<1>14. Heard'
  <2>1. \A i \in 1 .. Len(events') :
       /\ events'[i].op = "submit" => events'[i].run = LastRun /\ Now = "submitted"
       /\ events'[i].op = "cancel" => events'[i].run \in 1 .. LastRun
       /\ events'[i].op = "close" => closing
       /\ events'[i].op = "delivered" =>
            events'[i].run = LastRun /\ Now \notin {"none", "gone"} /\ events'[i].chunk \in Chunks
            /\ (events'[i].ok \/ events'[i].chunk \in Sour)
       /\ events'[i].op = "noted" /\ looping => at.op = "noting" /\ ~noted
    BY <1>5, <1>8, <1>9 DEF Sound, Heard, Runs
  <2>2. \A i, j \in 1 .. Len(events') :
       /\ events'[i].op = "close" /\ j > i => events'[j].op # "submit"
       /\ events'[i].op = "submit" /\ events'[j].op = "submit" => i = j
       /\ events'[i].op = "noted" /\ events'[j].op = "noted" /\ looping => i = j
    BY <1>5, <1>8 DEF Sound, Heard
  <2> QED BY <1>2, <1>3, <1>9, <1>10, <2>1, <2>2, <1>11 DEF Sound, Heard, Active
<1>15. Flushing'
  BY <1>2, <1>3, <1>10 DEF Sound, Flushing, Waits, Places
<1>16. Late'
  BY <1>2, <1>3, <1>8, <1>9, <1>11 DEF Sound, Late, Resumable, Final, Results, Ended
<1> QED BY <1>t, <1>12, <1>13, <1>14, <1>15, <1>16 DEF Sound

LEMMA CloseBeginsKeeps ==
  ASSUME Sound, CloseBegins
  PROVE  Sound'
<1>1. TypeOK
  BY DEF Sound
<1>2. /\ UNCHANGED <<row, rows, records, buffer, live, broken, writing, flushed, status, num, next, claimed>>
      /\ UNCHANGED <<skips, todo, fed, out, open, spoilt, looping, deliveries, at, noted>>
      /\ UNCHANGED <<announced, caller, taken, lapses, lost>>
  BY DEF CloseBegins, disk, writer, known, work, ghosts
<1>3. UNCHANGED <<LastRun, Now, Number, Pend>> /\ SameWork
  BY <1>2, RunStays, PendStays, WorkStays
<1>4. PICK x \in Events : x = Bare("close") /\ events' = Append(events, x)
  <2>1. Bare("close") \in Events
    BY JournalAssumption DEF Bare, Item, Events, Items
  <2> QED BY <2>1 DEF CloseBegins, Tell
<1>5. x.op = "close"
  BY <1>4 DEF Bare, Item
<1>6. SameAnswers /\ SameResults
  BY <1>1, <1>2, <1>4, <1>5, AnswersToldOn DEF SameResults, Results
<1>7. events' \in Seq(Events)
  BY <1>1, <1>4, Tells
<1>8. PICK last \in 1 .. Len(events') :
        /\ events'[last] = x
        /\ \A i \in 1 .. Len(events) : i \in 1 .. Len(events') /\ events'[i] = events[i] /\ i < last
        /\ \A i \in 1 .. Len(events') : i \in 1 .. Len(events) \/ i = last
  BY <1>1, <1>4, Tells
<1>9. ~closing /\ caller = "idle" /\ closing'
  BY DEF CloseBegins
<1>10. looping /\ ~Waits("end") /\ writing
  BY <1>9 DEF Sound, Heard, Flushing
<1>11. Answers' = Answers /\ \A i \in Answers : events'[i] = events[i]
  BY <1>5, <1>8 DEF Answers
<1>t. TypeOK'
  BY <1>1, <1>2, <1>7, <1>9 DEF TypeOK, Events
<1>12. RunsInOrder' /\ Numbered' /\ Staged' /\ Queued'
  BY <1>2, <1>3, <1>6, RunsInOrderStays, NumberedStays, StagedStays, QueuedStays DEF Sound
<1>13. Apart' /\ Unrecorded' /\ Accounted' /\ Counted' /\ Told'
  BY <1>2, <1>3, <1>6, ApartStays, UnrecordedStays, AccountedStays, CountedStays, ToldStays DEF Sound
<1>c. Claims'
  BY <1>2, <1>3, <1>9 DEF Sound, Claims, Active
<1>14. Heard'
  <2>1. \A i \in 1 .. Len(events') :
       /\ events'[i].op = "submit" => events'[i].run = LastRun /\ Now = "submitted"
       /\ events'[i].op = "cancel" => events'[i].run \in 1 .. LastRun
       /\ events'[i].op = "delivered" =>
            events'[i].run = LastRun /\ Now \notin {"none", "gone"} /\ events'[i].chunk \in Chunks
            /\ (events'[i].ok \/ events'[i].chunk \in Sour)
       /\ events'[i].op = "noted" /\ looping => at.op = "noting" /\ ~noted
    BY <1>5, <1>8 DEF Sound, Heard
  <2>2. \A i, j \in 1 .. Len(events') :
       /\ events'[i].op = "close" /\ j > i => events'[j].op # "submit"
       /\ events'[i].op = "submit" /\ events'[j].op = "submit" => i = j
       /\ events'[i].op = "noted" /\ events'[j].op = "noted" /\ looping => i = j
    <3>4. \A i, j \in 1 .. Len(events') :
            /\ events'[i].op = "noted" /\ events'[j].op = "noted" /\ looping => i = j
            /\ events'[i].op = "submit" /\ events'[j].op = "submit" => i = j
      BY <1>5, <1>8 DEF Sound, Heard
    <3>1. \A i \in 1 .. Len(events) : events[i].op # "close"
      BY <1>9 DEF Sound, Heard
    <3>2. \A i, j \in 1 .. Len(events') : events'[i].op = "close" => i = last
      BY <3>1, <1>8
    <3>3. \A j \in 1 .. Len(events') : j > last => FALSE
      BY <1>8
    <3> QED BY <3>2, <3>3, <3>4
  <2>3. Now = "submitted" => \E i \in 1 .. Len(events') : events'[i].op = "submit"
    BY <1>8 DEF Sound, Heard
  <2> QED BY <1>2, <1>3, <1>9, <1>10, <2>1, <2>2, <2>3, <1>11 DEF Sound, Heard, Active
<1>15. Flushing'
  BY <1>2, <1>3, <1>10 DEF Sound, Flushing, Waits, Places
<1>16. Late'
  <2>1. at.op = "noting" => \/ noted /\ Answers = {}
                            \/ ~noted /\ \E i \in 1 .. Len(events') : events'[i].op = "noted" /\ \A j \in Answers : j < i
    BY <1>8, <1>10 DEF Sound, Late
  <2> QED BY <2>1, <1>2, <1>3, <1>11 DEF Sound, Late, Results
<1> QED BY <1>t, <1>12, <1>13, <1>c, <1>14, <1>15, <1>16 DEF Sound
-----------------------------------------------------------------------------
(* Results on their way to the callback, and what it answers *)

\* The loop hears the first of the events.
LEMMA Hearing ==
  ASSUME TypeOK, NEW op, Hears(op)
  PROVE  /\ looping /\ events # <<>> /\ 1 \in 1 .. Len(events) /\ Head(events) = events[1] /\ events[1].op = op
         /\ events[1] \in Events /\ events' \in Seq(Events) /\ events' = Tail(events)
         /\ \A i \in 1 .. Len(events') : i + 1 \in 1 .. Len(events) /\ i + 1 # 1 /\ events'[i] = events[i + 1]
         /\ \A i \in 1 .. Len(events) : i = 1 \/ (i - 1 \in 1 .. Len(events') /\ events'[i - 1] = events[i])
<1>1. events \in Seq(Events) /\ events # <<>> /\ events' = Tail(events) /\ looping /\ Head(events).op = op
  BY DEF TypeOK, Events, Hears
<1>2. Len(events) \in Nat /\ Len(events) # 0 /\ Len(events') = Len(events) - 1 /\ Head(events) = events[1]
      /\ events' \in Seq(Events)
      /\ \A i \in 1 .. Len(Tail(events)) : events'[i] = events[i + 1]
  BY <1>1, HeadTailProperties, LenProperties
<1>3. Len(events) - 1 \in Nat
  BY <1>2
<1>4. PICK n \in Nat : n = Len(events) - 1
  BY <1>3
<1>5. Len(events) = n + 1 /\ Len(events') = n /\ \A i \in 1 .. n : events'[i] = events[i + 1]
  BY <1>1, <1>2, <1>4
<1>6. /\ 1 \in 1 .. n + 1
      /\ \A i \in 1 .. n : i + 1 \in 1 .. n + 1 /\ i + 1 # 1
      /\ \A i \in 1 .. n + 1 : i = 1 \/ (i - 1 \in 1 .. n /\ (i - 1) + 1 = i)
  BY <1>4
<1>7. events[1] \in Events
  BY <1>1, <1>5, <1>6, ElementOfSeq
<1>8. \A i \in 1 .. n + 1 : i = 1 \/ (i - 1 \in 1 .. n /\ events'[i - 1] = events[i])
  <2>1. SUFFICES ASSUME NEW i \in 1 .. n + 1, i # 1 PROVE i - 1 \in 1 .. n /\ events'[i - 1] = events[i]
    OBVIOUS
  <2>2. i - 1 \in 1 .. n /\ (i - 1) + 1 = i
    BY <1>6, <2>1
  <2>3. events'[i - 1] = events[(i - 1) + 1]
    BY <1>5, <2>2
  <2> QED BY <2>2, <2>3
<1> QED BY <1>1, <1>2, <1>5, <1>6, <1>7, <1>8

\* The order in which what is left is heard stays.
LEMMA HeardInOrder ==
  ASSUME Sound, NEW op, Hears(op)
  PROVE  \A i, j \in 1 .. Len(events') :
           /\ events'[i].op = "close" /\ j > i => events'[j].op # "submit"
           /\ events'[i].op = "submit" /\ events'[j].op = "submit" => i = j
           /\ events'[i].op = "noted" /\ events'[j].op = "noted" /\ looping => i = j
<1>1. TypeOK
  BY DEF Sound
<1>2. SUFFICES ASSUME NEW i \in 1 .. Len(events'), NEW j \in 1 .. Len(events')
               PROVE  /\ events'[i].op = "close" /\ j > i => events'[j].op # "submit"
                      /\ events'[i].op = "submit" /\ events'[j].op = "submit" => i = j
                      /\ events'[i].op = "noted" /\ events'[j].op = "noted" /\ looping => i = j
  OBVIOUS
<1>3. i + 1 \in 1 .. Len(events) /\ j + 1 \in 1 .. Len(events) /\ events'[i] = events[i + 1] /\ events'[j] = events[j + 1]
  BY <1>1, Hearing
<1>4. (j > i => j + 1 > i + 1) /\ (i + 1 = j + 1 => i = j)
  OBVIOUS
<1>5. /\ events[i + 1].op = "close" /\ j + 1 > i + 1 => events[j + 1].op # "submit"
      /\ events[i + 1].op = "submit" /\ events[j + 1].op = "submit" => i + 1 = j + 1
      /\ events[i + 1].op = "noted" /\ events[j + 1].op = "noted" /\ looping => i + 1 = j + 1
  BY <1>3 DEF Sound, Heard
<1> QED BY <1>3, <1>4, <1>5

LEMMA OnNotedKeeps ==
  ASSUME Sound, OnNoted
  PROVE  Sound'
<1>1. TypeOK
  BY DEF Sound
<1>2. /\ UNCHANGED <<row, rows, records, buffer, live, broken, writing, flushed, status, num, next, claimed>>
      /\ UNCHANGED <<skips, todo, fed, out, open, spoilt, looping, closing, deliveries, at>>
      /\ UNCHANGED <<announced, caller, taken, lapses, lost>>
      /\ Hears("noted") /\ noted'
  BY DEF OnNoted, others, ofWriter, disk, known, work, ghosts
<1>3. UNCHANGED <<LastRun, Now, Number, Pend>> /\ SameWork
  BY <1>2, RunStays, PendStays, WorkStays
<1>4. /\ looping /\ events # <<>> /\ 1 \in 1 .. Len(events) /\ Head(events) = events[1] /\ events[1].op = "noted"
      /\ events' \in Seq(Events) /\ events' = Tail(events)
      /\ \A i \in 1 .. Len(events') : i + 1 \in 1 .. Len(events) /\ i + 1 # 1 /\ events'[i] = events[i + 1]
  BY <1>1, <1>2, Hearing
<1>5. SameAnswers /\ SameResults
  BY <1>1, <1>2, <1>4, AnswersMoveUp DEF SameResults, Results
<1>6. at.op = "noting" /\ ~noted
  BY <1>4 DEF Sound, Heard
<1>7. Answers = {}
  <2>1. PICK i \in 1 .. Len(events) : events[i].op = "noted" /\ \A j \in Answers : j < i
    BY <1>4, <1>6 DEF Sound, Late
  <2>2. i = 1
    BY <1>4, <2>1 DEF Sound, Heard
  <2>3. \A j \in Answers : j \in 1 .. Len(events)
    BY DEF Answers
  <2>4. \A j \in 1 .. Len(events) : ~(j < 1)
    OBVIOUS
  <2> QED BY <2>1, <2>2, <2>3, <2>4
<1>8. Answers' = {}
  BY <1>5, <1>7 DEF SameAnswers
<1>9. ~Waits("end") /\ writing
  BY <1>4 DEF Sound, Flushing
<1>t. TypeOK'
  BY <1>1, <1>2, <1>4 DEF TypeOK, Events
<1>12. RunsInOrder' /\ Numbered' /\ Claims' /\ Staged' /\ Queued'
  BY <1>2, <1>3, <1>5, RunsInOrderStays, NumberedStays, ClaimsStays, StagedStays, QueuedStays DEF Sound
<1>13. Apart' /\ Unrecorded' /\ Accounted' /\ Counted' /\ Told'
  BY <1>2, <1>3, <1>5, ApartStays, UnrecordedStays, AccountedStays, CountedStays, ToldStays DEF Sound
<1>14. Heard'
  <2>1. \A i \in 1 .. Len(events') : events'[i].op # "noted"
    BY <1>4 DEF Sound, Heard
  <2>2. \A i \in 1 .. Len(events') :
       /\ events'[i].op = "submit" => events'[i].run = LastRun /\ Now = "submitted"
       /\ events'[i].op = "cancel" => events'[i].run \in 1 .. LastRun
       /\ events'[i].op = "close" => closing
       /\ events'[i].op = "delivered" =>
            events'[i].run = LastRun /\ Now \notin {"none", "gone"} /\ events'[i].chunk \in Chunks
            /\ (events'[i].ok \/ events'[i].chunk \in Sour)
    BY <1>4 DEF Sound, Heard
  <2>3. \A i, j \in 1 .. Len(events') :
       /\ events'[i].op = "close" /\ j > i => events'[j].op # "submit"
       /\ events'[i].op = "submit" /\ events'[j].op = "submit" => i = j
       /\ events'[i].op = "noted" /\ events'[j].op = "noted" /\ looping => i = j
    BY <1>2, HeardInOrder
  <2>4. Now # "submitted"
    BY <1>6 DEF Sound, Late, Resumable
  <2> QED BY <1>2, <1>3, <1>4, <1>6, <1>8, <2>1, <2>2, <2>3, <2>4 DEF Sound, Heard, Active
<1>15. Flushing'
  BY <1>2, <1>3, <1>9 DEF Sound, Flushing, Waits, Places
<1>16. Late'
  BY <1>2, <1>3, <1>6, <1>7, <1>8 DEF Sound, Late, Results
<1> QED BY <1>t, <1>12, <1>13, <1>14, <1>15, <1>16 DEF Sound

LEMMA OnDoneKeeps ==
  ASSUME Sound, NEW c \in Chunks, OnDone(c)
  PROVE  Sound'
<1>1. TypeOK
  BY DEF Sound
<1>2. /\ UNCHANGED <<row, rows, records, buffer, live, broken, writing, flushed, status, num, next, claimed>>
      /\ UNCHANGED <<skips, todo, fed, open, spoilt, events, looping, closing, at, noted>>
      /\ UNCHANGED <<announced, caller, taken, lapses, lost>>
  BY DEF OnDone, others, ofWriter, disk, known, ghosts
<1>3. UNCHANGED <<LastRun, Now, Number, Pend>> /\ SameWork /\ SameAnswers
  BY <1>2, RunStays, PendStays, WorkStays DEF SameAnswers, Answers
<1>4. looping /\ c \in out /\ out' = out \ {c}
  BY DEF OnDone
<1>5. Now = "running" /\ LastRun \in 1 .. RunsMax
  <2>1. Now = "running"
    BY <1>4 DEF Sound, Staged
  <2> QED BY <2>1, <1>1, LastRunIs DEF Now
<1>6. PICK x \in Tidings : x = Item("result", LastRun, c, TRUE) /\ deliveries' = Append(deliveries, x)
  <2>1. Item("result", LastRun, c, TRUE) \in Tidings
    BY <1>5 DEF Item, Tidings, Items
  <2> QED BY <2>1 DEF OnDone, Deliver
<1>7. x.op = "result" /\ x.run = LastRun /\ x.chunk = c
  BY <1>6 DEF Item
<1>10. deliveries' \in Seq(Tidings)
  BY <1>1, <1>6, Delivers
<1>11. PICK last \in 1 .. Len(deliveries') :
         /\ last = Len(deliveries') /\ last \notin 1 .. Len(deliveries) /\ deliveries'[last] = x
         /\ \A i \in 1 .. Len(deliveries) :
              i \in 1 .. Len(deliveries') /\ deliveries'[i] = deliveries[i] /\ i < last
         /\ \A i \in 1 .. Len(deliveries') : i \in 1 .. Len(deliveries) \/ i = last
  BY ONLY <1>1, <1>6, Delivers
<1>12. /\ last \in Results' /\ last \notin Results /\ deliveries'[last].chunk = c
       /\ \A i \in Results : i \in Results' /\ deliveries'[i] = deliveries[i]
       /\ \A i \in Results' : i \in Results \/ i = last
  BY <1>7, <1>11 DEF Results
<1>t. TypeOK'
  BY SMTT(30), <1>1, <1>2, <1>4, <1>10 DEF TypeOK, Tidings
<1>13. RunsInOrder' /\ Numbered' /\ Claims' /\ Heard' /\ Queued'
  BY <1>2, <1>3, RunsInOrderStays, NumberedStays, ClaimsStays, HeardStays, QueuedStays DEF Sound
<1>14. Staged'
  <2>1. \A i \in 1 .. Len(deliveries') : deliveries'[i].op = "result"
    BY <1>5, <1>7, <1>11 DEF Sound, Staged
  <2>2. \A i \in Results' : deliveries'[i].run = LastRun /\ deliveries'[i].chunk \in Chunks
    BY <1>7, <1>11, <1>12 DEF Sound, Staged
  <2>3. \A op \in OfJob : Waits(op)' <=> Waits(op)
    BY <1>3 DEF SameWork
  <2>4. ~Quiet
    BY <1>5 DEF Quiet, Sound, RunsInOrder, Now, Ended
  <2>5. ~Quiet'
    BY <2>4, <1>2, <1>3 DEF Quiet
  <2> QED BY <1>2, <1>3, <1>5, <2>1, <2>2, <2>3, <2>5 DEF Sound, Staged, OfJob, Ended
<1>15. Flushing'
  <2>1. ~Waits("end") /\ writing
    BY <1>4 DEF Sound, Flushing
  <2> QED BY <1>2, <1>3, <2>1 DEF Sound, Flushing, Waits, Places
<1>16. Late'
  BY <1>2, <1>3, <1>5 DEF Sound, Late, Answers, Final, Resumable
<1>17. Apart'
  <2>1. /\ \A i \in Results : deliveries[i].chunk # c
        /\ \A i \in Answers : events[i].chunk # c
        /\ \A i \in Marks : Pend[i].chunk # c
        /\ \A i \in 1 .. Len(todo) : todo[i] # c
    <3>1. c \in open
      BY <1>1, <1>4 DEF TypeOK
    <3> QED BY <1>4, <3>1 DEF Sound, Apart
  <2>2. \A i, j \in Results' : deliveries'[i].chunk = deliveries'[j].chunk => i = j
    BY <1>12, <2>1 DEF Sound, Apart
  <2>3. \A i \in Results' : \/ deliveries'[i].chunk = c
                            \/ i \in Results /\ deliveries'[i] = deliveries[i]
    BY <1>12
  <2>4. /\ \A i \in 1 .. Len(todo) : \A j \in Results' : deliveries'[j].chunk # todo[i]
        /\ \A i \in Results' : \A j \in Answers : events[j].chunk # deliveries'[i].chunk
        /\ \A i \in Results' : \A j \in Marks : Pend[j].chunk # deliveries'[i].chunk
    BY <2>1, <2>3 DEF Sound, Apart
  <2>5. \A d \in out' : \A j \in Results' : deliveries'[j].chunk # d
    BY <1>4, <2>3 DEF Sound, Apart
  <2>6. Answers' = Answers /\ Marks' = Marks
    BY <1>2, <1>3 DEF Answers, SameWork
  <2> QED BY <1>2, <1>3, <1>4, <2>2, <2>4, <2>5, <2>6 DEF Sound, Apart
<1>18. Unrecorded'
  <2>1. <<Number, c>> \notin rows
    BY <1>4 DEF Sound, Unrecorded
  <2>2. \A i \in Results' : <<Number, deliveries'[i].chunk>> \notin rows
    BY <1>12, <2>1 DEF Sound, Unrecorded
  <2>3. Answers' = Answers /\ Marks' = Marks
    BY <1>2, <1>3 DEF Answers, SameWork
  <2>4. Now \notin Resumable
    BY <1>5 DEF Resumable
  <2> QED BY <1>2, <1>3, <1>4, <2>2, <2>3, <2>4 DEF Sound, Unrecorded, Active
<1>19. Accounted'
  <2>1. c \in open
    BY <1>1, <1>4 DEF TypeOK
  <2>2. \A i \in Results' : deliveries'[i].chunk \in open
    BY <1>5, <1>12, <2>1 DEF Sound, Accounted
  <2>3. \A d \in open : d \in out' \/ (\E i \in Results' : deliveries'[i].chunk = d) \/ \E i \in Answers : events[i].chunk = d
    BY <1>4, <1>5, <1>12 DEF Sound, Accounted
  <2>4. Answers' = Answers
    BY <1>2 DEF Answers
  <2> QED BY <1>2, <1>3, <2>2, <2>3, <2>4 DEF Sound, Accounted
<1>20. Counted'
  <2>1. \A d \in Chunks : Owed(d)' => Owed(d)
    BY <1>2, <1>3, <1>4, <1>12 DEF Owed, Shown
  <2>2. \A d \in Chunks : Kept(d)' <=> Kept(d)
    BY <1>2, <1>3 DEF Kept, SameWork, OfJob, Answers
  <2>3. Cap' = Cap /\ Answers' = Answers
    BY <1>2 DEF Cap, Answers
  <2> QED BY <1>2, <1>3, <2>1, <2>2, <2>3 DEF Sound, Counted, SameWork
<1>21. Told'
  <2>1. row.s # "completed"
    BY <1>5 DEF Sound, Told, Active, Final
  <2>2. \A op \in OfJob : Waits(op)' <=> Waits(op)
    BY <1>3 DEF SameWork
  <2> QED BY <1>2, <1>3, <1>5, <2>1, <2>2 DEF Sound, Told, Active, OfJob
<1> QED BY <1>t, <1>13, <1>14, <1>15, <1>16, <1>17, <1>18, <1>19, <1>20, <1>21 DEF Sound

\* The delivery thread gets what came first.
LEMMA Getting ==
  ASSUME TypeOK, NEW op, Gets(op)
  PROVE  /\ at = Nothing /\ deliveries # <<>> /\ 1 \in 1 .. Len(deliveries)
         /\ Head(deliveries) = deliveries[1] /\ deliveries[1].op = op
         /\ deliveries[1] \in Tidings /\ deliveries' \in Seq(Tidings)
         /\ \A i \in 1 .. Len(deliveries') :
              i + 1 \in 1 .. Len(deliveries) /\ i + 1 # 1 /\ deliveries'[i] = deliveries[i + 1]
         /\ \A i \in 1 .. Len(deliveries) :
              i = 1 \/ (i - 1 \in 1 .. Len(deliveries') /\ deliveries'[i - 1] = deliveries[i])
         /\ Len(deliveries) = Len(deliveries') + 1
<1>1. deliveries \in Seq(Tidings) /\ deliveries # <<>> /\ deliveries' = Tail(deliveries) /\ Head(deliveries).op = op
  BY DEF TypeOK, Tidings, Gets
<1>2. Len(deliveries) \in Nat /\ Len(deliveries) # 0 /\ Len(deliveries') = Len(deliveries) - 1
      /\ Head(deliveries) = deliveries[1] /\ deliveries' \in Seq(Tidings)
      /\ \A i \in 1 .. Len(Tail(deliveries)) : deliveries'[i] = deliveries[i + 1]
  BY <1>1, HeadTailProperties, LenProperties
<1>3. Len(deliveries) - 1 \in Nat
  BY <1>2
<1>4. PICK n \in Nat : n = Len(deliveries) - 1
  BY <1>3
<1>5. Len(deliveries) = n + 1 /\ Len(deliveries') = n /\ \A i \in 1 .. n : deliveries'[i] = deliveries[i + 1]
  BY <1>1, <1>2, <1>4
<1>6. /\ 1 \in 1 .. n + 1
      /\ \A i \in 1 .. n : i + 1 \in 1 .. n + 1 /\ i + 1 # 1
      /\ \A i \in 1 .. n + 1 : i = 1 \/ (i - 1 \in 1 .. n /\ (i - 1) + 1 = i)
  BY <1>4
<1>7. deliveries[1] \in Tidings
  BY <1>1, <1>5, <1>6, ElementOfSeq
<1>8. \A i \in 1 .. n + 1 : i = 1 \/ (i - 1 \in 1 .. n /\ deliveries'[i - 1] = deliveries[i])
  <2>1. SUFFICES ASSUME NEW i \in 1 .. n + 1, i # 1
                 PROVE  i - 1 \in 1 .. n /\ deliveries'[i - 1] = deliveries[i]
    OBVIOUS
  <2>2. i - 1 \in 1 .. n /\ (i - 1) + 1 = i
    BY <1>6, <2>1
  <2>3. deliveries'[i - 1] = deliveries[(i - 1) + 1]
    BY <1>5, <2>2
  <2> QED BY <2>2, <2>3
<1>9. at = Nothing
  BY DEF Gets
<1> QED BY <1>1, <1>2, <1>5, <1>6, <1>7, <1>8, <1>9

\* While something waits for the callback, the run is on or its end has yet to be announced.
LEMMA Unsettled ==
  ASSUME Sound, deliveries # <<>> \/ at.op # "nothing"
  PROVE  /\ ~Quiet /\ Now \in {"running"} \cup Ended /\ LastRun \in Runs /\ Now = status[LastRun]
         /\ caller = "idle" /\ LastRun \notin announced
<1>1. TypeOK /\ LastRun \in 0 .. RunsMax
  BY LastRunIs DEF Sound
<1>2. ~Quiet /\ Now # "submitted"
  BY DEF Sound, Staged, Nothing, Bare, Item
<1>3. LastRun \in Runs /\ Now = status[LastRun]
  BY <1>1, <1>2 DEF Quiet, Now, Runs
<1>4. Now # "new"
  BY <1>1, <1>3 DEF Sound, RunsInOrder
<1>5. Now \in {"running"} \cup Ended
  BY <1>1, <1>2, <1>3, <1>4 DEF TypeOK, Quiet
<1>6. caller = "idle"
  BY <1>1, <1>2 DEF Sound, Claims, TypeOK
<1> QED BY <1>2, <1>3, <1>5, <1>6 DEF Quiet

LEMMA HandOverKeeps ==
  ASSUME Sound, NEW ok \in BOOLEAN, HandOver(ok)
  PROVE  Sound'
<1>1. TypeOK
  BY DEF Sound
<1>2. /\ UNCHANGED <<row, rows, records, buffer, live, broken, writing, flushed, status, num, next, claimed>>
      /\ UNCHANGED <<skips, todo, fed, out, open, spoilt, looping, closing, at, noted>>
      /\ UNCHANGED <<announced, caller, lapses, lost>>
  BY DEF HandOver, disk, writer, known, work
<1>3. UNCHANGED <<LastRun, Now, Number, Pend>> /\ SameWork
  BY <1>2, RunStays, PendStays, WorkStays
<1>4. Gets("result")
  BY DEF HandOver
<1>5. /\ at = Nothing /\ deliveries # <<>> /\ 1 \in 1 .. Len(deliveries)
      /\ Head(deliveries) = deliveries[1] /\ deliveries[1].op = "result"
      /\ deliveries[1] \in Tidings /\ deliveries' \in Seq(Tidings)
      /\ \A i \in 1 .. Len(deliveries') :
           i + 1 \in 1 .. Len(deliveries) /\ i + 1 # 1 /\ deliveries'[i] = deliveries[i + 1]
      /\ \A i \in 1 .. Len(deliveries) :
           i = 1 \/ (i - 1 \in 1 .. Len(deliveries') /\ deliveries'[i - 1] = deliveries[i])
      /\ Len(deliveries) = Len(deliveries') + 1
  BY <1>1, <1>4, Getting
<1>6. /\ ~Quiet /\ Now \in {"running"} \cup Ended /\ LastRun \in Runs /\ Now = status[LastRun]
      /\ caller = "idle" /\ LastRun \notin announced
  BY <1>5, Unsettled
<1>7. 1 \in Results
  BY <1>5 DEF Results
<1>8. PICK c \in Chunks : c = deliveries[1].chunk
  BY <1>7 DEF Sound, Staged
<1>9. PICK x \in Events : /\ x.op = "delivered" /\ x.run = LastRun /\ x.chunk = c /\ x.ok = ok
                          /\ events' = Append(events, x)
  <2> DEFINE e == [deliveries[1] EXCEPT !.op = "delivered", !.ok = ok]
  <2>1. events' = Append(events, e)
    BY <1>5 DEF HandOver, Tell
  <2>2. deliveries[1].run = LastRun
    BY <1>7 DEF Sound, Staged
  <2>3. e \in Events /\ e.op = "delivered" /\ e.run = deliveries[1].run /\ e.chunk = deliveries[1].chunk /\ e.ok = ok
    BY <1>5 DEF Tidings, Events, Items
  <2> QED BY <1>8, <2>1, <2>2, <2>3
<1>10. ok \/ c \in Sour
  BY <1>5, <1>8 DEF HandOver
<1>11. events' \in Seq(Events)
  BY <1>1, <1>9, Tells
<1>12. PICK last \in 1 .. Len(events') :
         /\ last = Len(events') /\ last = Len(events) + 1 /\ events'[last] = x
         /\ \A i \in 1 .. Len(events) : i \in 1 .. Len(events') /\ events'[i] = events[i] /\ i < last
         /\ \A i \in 1 .. Len(events') : i \in 1 .. Len(events) \/ i = last
  BY ONLY <1>1, <1>9, Tells
<1>13. /\ last \in Answers' /\ events'[last].chunk = c /\ events'[last].ok = ok
       /\ \A i \in Answers : i \in Answers' /\ events'[i] = events[i] /\ i # last
       /\ \A i \in Answers' : i = last \/ (i \in Answers /\ events'[i] = events[i])
  BY <1>9, <1>12 DEF Answers
<1>14. /\ \A i \in Results' : i + 1 \in Results /\ i + 1 # 1 /\ deliveries'[i] = deliveries[i + 1]
       /\ \A i \in Results : i = 1 \/ (i - 1 \in Results' /\ deliveries'[i - 1] = deliveries[i])
  BY <1>5 DEF Results
<1>15. /\ taken' \in [Chunks -> Nat]
       /\ \A d \in Chunks : /\ taken[d] \in Nat /\ taken'[d] \in Nat
                            /\ taken'[d] >= taken[d]
                            /\ d # c \/ ~ok => taken'[d] = taken[d]
                            /\ taken'[d] <= taken[d] + 1
       /\ ok => taken'[c] > 0
  <2>1. taken \in [Chunks -> Nat]
    BY <1>1 DEF TypeOK
  <2>2. taken' = IF ok THEN [taken EXCEPT ![c] = @ + 1] ELSE taken
    BY <1>5, <1>8 DEF HandOver
  <2> QED BY <2>1, <2>2
<1>16. /\ \A i \in 1 .. Len(todo) : todo[i] # c
       /\ c \notin out
       /\ \A i \in Results' : deliveries'[i].chunk # c
       /\ \A i \in Answers : events[i].chunk # c
       /\ \A i \in Marks : Pend[i].chunk # c
  <2>1. \A i \in Results' : deliveries'[i].chunk # c
    BY <1>7, <1>8, <1>14 DEF Sound, Apart
  <2>2. \A i \in 1 .. Len(todo) : todo[i] # c
    BY <1>7, <1>8 DEF Sound, Apart
  <2>3. c \notin out
    BY <1>7, <1>8 DEF Sound, Apart
  <2> QED BY <1>7, <1>8, <2>1, <2>2, <2>3 DEF Sound, Apart
<1>t. TypeOK'
  BY SMTT(30), <1>1, <1>2, <1>5, <1>11, <1>15 DEF TypeOK, Events, Tidings
<1>17. RunsInOrder' /\ Numbered' /\ Queued'
  BY <1>2, <1>3, RunsInOrderStays, NumberedStays, QueuedStays DEF Sound
<1>18. Claims'
  BY <1>2, <1>3, <1>6 DEF Sound, Claims, Active
<1>19. Heard'
  <2>1. \A i \in 1 .. Len(events') :
       /\ events'[i].op = "submit" => events'[i].run = LastRun /\ Now = "submitted"
       /\ events'[i].op = "cancel" => events'[i].run \in 1 .. LastRun
       /\ events'[i].op = "close" => closing
       /\ events'[i].op = "delivered" =>
            events'[i].run = LastRun /\ Now \notin {"none", "gone"} /\ events'[i].chunk \in Chunks
            /\ (events'[i].ok \/ events'[i].chunk \in Sour)
       /\ events'[i].op = "noted" /\ looping => at.op = "noting" /\ ~noted
    BY <1>6, <1>9, <1>10, <1>12 DEF Sound, Heard, Ended
  <2>2. \A i, j \in 1 .. Len(events') :
       /\ events'[i].op = "close" /\ j > i => events'[j].op # "submit"
       /\ events'[i].op = "submit" /\ events'[j].op = "submit" => i = j
       /\ events'[i].op = "noted" /\ events'[j].op = "noted" /\ looping => i = j
    BY <1>9, <1>12 DEF Sound, Heard
  <2> QED BY <1>2, <1>3, <1>6, <2>1, <2>2 DEF Sound, Heard, Active, Ended
<1>20. Staged'
  <2>1. ~Quiet' /\ Now' # "submitted"
    BY <1>2, <1>3, <1>6 DEF Quiet, Ended
  <2>2. Now = "running" => \A i \in 1 .. Len(deliveries') : deliveries'[i].op = "result"
    BY <1>5 DEF Sound, Staged
  <2>3. Now \in Ended =>
          /\ deliveries' # <<>>
          /\ \A i \in 1 .. Len(deliveries') : deliveries'[i].op = "announce" <=> i = Len(deliveries')
          /\ deliveries'[Len(deliveries')].run = LastRun
    <3>1. SUFFICES ASSUME Now \in Ended
                   PROVE  /\ deliveries' # <<>>
                          /\ \A i \in 1 .. Len(deliveries') : deliveries'[i].op = "announce" <=> i = Len(deliveries')
                          /\ deliveries'[Len(deliveries')].run = LastRun
      OBVIOUS
    <3>2. /\ \A i \in 1 .. Len(deliveries) : deliveries[i].op = "announce" <=> i = Len(deliveries)
          /\ deliveries[Len(deliveries)].run = LastRun
      BY <1>5, <1>6, <3>1 DEF Sound, Staged
    <3>3. PICK n \in Nat : n = Len(deliveries')
      BY <1>5, LenProperties
    <3>4. n # 0
      BY <1>5, <3>2, <3>3
    <3>5. deliveries' # <<>> /\ n \in 1 .. Len(deliveries')
      BY <3>3, <3>4
    <3>6. deliveries'[n] = deliveries[n + 1] /\ Len(deliveries) = n + 1
      BY <1>5, <3>3, <3>5
    <3>7. \A i \in 1 .. n : i + 1 \in 1 .. Len(deliveries) /\ deliveries'[i] = deliveries[i + 1] /\ (i + 1 = n + 1 <=> i = n)
      BY <1>5, <3>3
    <3> QED BY <3>2, <3>3, <3>5, <3>6, <3>7
  <2>4. \A i \in Results' : deliveries'[i].run = LastRun /\ deliveries'[i].chunk \in Chunks
    BY <1>14 DEF Sound, Staged
  <2>5. \A op \in OfJob : Waits(op)' <=> Waits(op)
    BY <1>3 DEF SameWork
  <2> QED BY <1>2, <1>3, <1>5, <2>1, <2>2, <2>3, <2>4, <2>5 DEF Sound, Staged, OfJob
<1>21. Flushing'
  <2>1. ~Waits("end") /\ writing
    BY <1>5 DEF Sound, Flushing
  <2> QED BY <1>2, <1>3, <2>1 DEF Sound, Flushing, Waits, Places
<1>22. Late'
  <2>1. at.op = "nothing"
    BY <1>5 DEF Nothing, Bare, Item
  <2>2. Now \in Final => broken
    BY <1>7 DEF Sound, Late
  <2> QED BY <1>2, <1>3, <1>6, <2>1, <2>2 DEF Late
<1>23. Apart'
  <2>1. \A i, j \in Results' : deliveries'[i].chunk = deliveries'[j].chunk => i = j
    <3>1. SUFFICES ASSUME NEW i \in Results', NEW j \in Results', deliveries'[i].chunk = deliveries'[j].chunk
                   PROVE  i = j
      OBVIOUS
    <3>2. i + 1 = j + 1
      BY <1>14, <3>1 DEF Sound, Apart
    <3>3. i \in Int /\ j \in Int
      BY DEF Results
    <3> QED BY <3>2, <3>3
  <2>2. \A i, j \in Answers' : events'[i].chunk = events'[j].chunk => i = j
    BY <1>13, <1>16 DEF Sound, Apart
  <2>3. Marks' = Marks
    BY <1>3 DEF SameWork
  <2>4. /\ \A i \in 1 .. Len(todo) : \A j \in Results' : deliveries'[j].chunk # todo[i]
        /\ \A d \in out : \A j \in Results' : deliveries'[j].chunk # d
        /\ \A i \in Results' : \A j \in Answers : events[j].chunk # deliveries'[i].chunk
        /\ \A i \in Results' : \A j \in Marks : Pend[j].chunk # deliveries'[i].chunk
    BY <1>14 DEF Sound, Apart
  <2>5. /\ \A i \in 1 .. Len(todo) : \A j \in Answers' : events'[j].chunk # todo[i]
        /\ \A d \in out : \A j \in Answers' : events'[j].chunk # d
        /\ \A i \in Results' : \A j \in Answers' : events'[j].chunk # deliveries'[i].chunk
        /\ \A i \in Answers' : \A j \in Marks : Pend[j].chunk # events'[i].chunk
    BY <1>13, <1>16, <2>4 DEF Sound, Apart
  <2> QED BY <1>2, <1>3, <2>1, <2>2, <2>3, <2>4, <2>5 DEF Sound, Apart
<1>24. Unrecorded'
  <2>1. <<Number, c>> \notin rows
    BY <1>7, <1>8 DEF Sound, Unrecorded
  <2>2. \A i \in Results' : <<Number, deliveries'[i].chunk>> \notin rows
    BY <1>14 DEF Sound, Unrecorded
  <2>3. \A i \in Answers' : <<Number, events'[i].chunk>> \notin rows
    BY <1>13, <2>1 DEF Sound, Unrecorded
  <2>4. Marks' = Marks
    BY <1>3 DEF SameWork
  <2>5. Waits("job")' <=> Waits("job")
    BY <1>3 DEF SameWork, OfJob
  <2>6. Now \in Resumable => Waits("job") \/ row.n = Number
    BY <1>6 DEF Sound, Staged, Resumable, Ended
  <2> QED BY <1>2, <1>3, <2>2, <2>3, <2>4, <2>5, <2>6 DEF Sound, Unrecorded, Active
<1>25. Accounted'
  <2>1. SUFFICES ASSUME Now = "running" PROVE Accounted'
    BY <1>3 DEF Accounted
  <2>2. c \in open
    BY <1>7, <1>8, <2>1 DEF Sound, Accounted
  <2>3. /\ \A i \in Results' : deliveries'[i].chunk \in open
        /\ \A i \in Answers' : events'[i].chunk \in open
    BY <1>13, <1>14, <2>1, <2>2 DEF Sound, Accounted
  <2>4. \A d \in open : d \in out \/ (\E i \in Results' : deliveries'[i].chunk = d) \/ \E i \in Answers' : events'[i].chunk = d
    <3>1. SUFFICES ASSUME NEW d \in open, d \notin out, d # c
                   PROVE  (\E i \in Results' : deliveries'[i].chunk = d) \/ \E i \in Answers' : events'[i].chunk = d
      BY <1>13
    <3>2. CASE \E i \in Results : deliveries[i].chunk = d
      BY <3>1, <3>2, <1>8, <1>14
    <3>3. CASE \E i \in Answers : events[i].chunk = d
      BY <3>3, <1>13
    <3> QED BY <2>1, <3>1, <3>2, <3>3 DEF Sound, Accounted
  <2>5. \A d \in Chunks : (\E i \in 1 .. Len(todo) : todo[i] = d) \/ d \in open \cup spoilt \/ taken'[d] > 0
    BY <1>15, <2>1 DEF Sound, Accounted
  <2> QED BY <1>2, <1>3, <2>1, <2>3, <2>4, <2>5 DEF Sound, Accounted
<1>26. Counted'
  <2>1. \A d \in Chunks : Owed(d)' => Owed(d) /\ d # c
    <3>1. SUFFICES ASSUME NEW d \in Chunks, Owed(d)' PROVE Owed(d) /\ d # c
      OBVIOUS
    <3>2. \/ \E i \in 1 .. Len(todo) : todo[i] = d /\ ~Shown(d)
          \/ d \in out
          \/ \E i \in Results' : deliveries'[i].chunk = d
      BY <1>2, <1>3, <1>6, <3>1 DEF Owed, Shown, Ended
    <3> QED BY <3>2, <1>14, <1>16 DEF Owed
  <2>2. Cap' = Cap /\ Cap \in Nat
    BY <1>1, <1>2 DEF Cap, TypeOK
  <2>3. Owed(c)
    BY <1>7, <1>8 DEF Owed
  <2>4. \A d \in Chunks : taken'[d] <= Cap
    <3>1. \A d \in Chunks : taken[d] <= Cap /\ (Owed(d) => taken[d] < Cap)
      BY DEF Sound, Counted
    <3> QED BY <1>15, <2>2, <2>3, <3>1
  <2>5. \A d \in Chunks : Owed(d)' => taken'[d] < Cap
    BY <1>15, <2>1 DEF Sound, Counted
  <2>6. \A d \in Chunks : Kept(d) => Kept(d)'
    BY <1>2, <1>3, <1>13 DEF Kept, SameWork, OfJob
  <2>7. ~broken => \A d \in Chunks : taken'[d] = Cap => Kept(d)'
    <3>1. SUFFICES ASSUME ~broken, NEW d \in Chunks, taken'[d] = Cap PROVE Kept(d)'
      OBVIOUS
    <3>2. CASE d = c /\ ok
      BY <3>2, <1>13 DEF Kept
    <3>3. CASE ~(d = c /\ ok)
      BY <3>1, <3>3, <1>15, <2>6 DEF Sound, Counted
    <3> QED BY <3>2, <3>3
  <2>8. \A d \in Chunks : taken[d] > 0 => taken'[d] > 0
    BY <1>15
  <2>9. Now \in {"running"} \cup Resumable => \A i \in Answers' : events'[i].ok => taken'[events'[i].chunk] > 0
    <3>1. SUFFICES ASSUME Now \in {"running"} \cup Resumable, NEW i \in Answers', events'[i].ok
                   PROVE  taken'[events'[i].chunk] > 0
      OBVIOUS
    <3>2. CASE i = last
      BY <3>1, <3>2, <1>13, <1>15
    <3>3. CASE i # last
      <4>1. i \in Answers /\ events'[i] = events[i]
        BY <3>3, <1>13
      <4>2. taken[events[i].chunk] > 0 /\ events[i].chunk \in Chunks
        BY <3>1, <4>1 DEF Sound, Counted, Heard, Answers
      <4> QED BY <4>1, <4>2, <2>8
    <3> QED BY <3>2, <3>3
  <2>10. \A i \in Marks : Pend[i].ok => taken'[Pend[i].chunk] > 0
    <3>1. \A i \in Marks : Pend[i].chunk \in Chunks
      BY DEF Sound, Queued, Marks
    <3> QED BY <3>1, <2>8 DEF Sound, Counted
  <2>11. \A d \in Chunks : <<row.n, d>> \in rows => taken'[d] > 0
    BY <2>8 DEF Sound, Counted
  <2>12. Marks' = Marks /\ (broken => lapses > 0)
    BY <1>3 DEF SameWork, Sound, Counted
  <2> QED BY <1>2, <1>3, <1>6, <2>2, <2>4, <2>5, <2>7, <2>9, <2>10, <2>11, <2>12 DEF Counted
<1>27. Told'
  <2>1. row.s # "completed" /\ (Results' # {} => Results # {})
    BY <1>7, <1>14 DEF Sound, Told
  <2>2. \A op \in OfJob : Waits(op)' <=> Waits(op)
    BY <1>3 DEF SameWork
  <2>3. Now = "completed" /\ (live # 0 \/ Waits("job") \/ Waits("ended")) =>
          \A d \in Chunks : taken'[d] > 0 \/ d \in spoilt
    BY <1>15 DEF Sound, Told
  <2> QED BY <1>2, <1>3, <2>1, <2>2, <2>3 DEF Sound, Told, Active, OfJob
<1> QED BY <1>t, <1>17, <1>18, <1>19, <1>20, <1>21, <1>22, <1>23, <1>24, <1>25, <1>26, <1>27 DEF Sound
-----------------------------------------------------------------------------
(* The end of a run is announced *)

\* The delivery thread waits for the disk, with a flush behind all that is queued.
LEMMA FlushAsked ==
  ASSUME Sound, NEW r \in Runs, at.op # "flushing", deliveries # <<>> \/ at.op # "nothing",
         records' = Append(records, OfRun("flush", r)), at'.op = "flushing",
         UNCHANGED <<buffer, caller, looping, flushed, writing, events>>,
         UNCHANGED <<LastRun, Now, Number, row>>
  PROVE  SameWork /\ records' \in Seq(Records) /\ Queued' /\ Flushing'
<1>1. TypeOK
  BY DEF Sound
<1>2. PICK x \in Records : x = OfRun("flush", r)
  <2>1. OfRun("flush", r) \in Records
    BY JournalAssumption DEF OfRun, Item, Records, Items, Runs
  <2> QED BY <2>1
<1>3. x.op = "flush" /\ x.run = r /\ r # 0
  BY <1>2 DEF OfRun, Item, Runs
<1>4. records' \in Seq(Records)
  BY <1>1, <1>2, Queues
<1>5. SameWork
  BY <1>1, <1>2, <1>3, WorkQueuedToo DEF OfJob
<1>6. PICK last \in Places' :
        /\ Places \subseteq Places' /\ last = Len(Pend') /\ last \notin Places
        /\ Pend'[last] = x
        /\ \A i \in Places : Pend'[i] = Pend[i] /\ i < last
        /\ \A i \in Places' : i \in Places \/ i = last
  BY ONLY <1>1, <1>2, records' = Append(records, OfRun("flush", r)), UNCHANGED buffer, Behind
<1>7. ~Waits("end") /\ writing
  BY DEF Sound, Flushing, Nothing, Bare, Item
<1>8. \A i \in Places : i < last => last > i
  BY DEF Places
<1>9. Queued'
  <2>1. \A i \in Places' :
       /\ Pend'[i].op \in OfJob => Pend'[i].run = LastRun /\ Now \notin {"none", "gone"}
       /\ Pend'[i].op = "chunk" => Pend'[i].chunk \in Chunks
       /\ Pend'[i].op = "ended" => Now \in Ended /\ Pend'[i].ok = (Now \notin Resumable)
       /\ Pend'[i].op = "discard" => caller = "discarding" /\ looping
       /\ IsFlush(Pend'[i], "caller") => caller # "idle"
       /\ Pend'[i].op # "end"
    BY <1>3, <1>6, <1>7 DEF Sound, Queued, OfJob, Waits, IsFlush
  <2>2. \A i, j \in Places' :
       /\ Pend'[i].op = "job" /\ Pend'[j].op \in OfJob => i <= j
       /\ Pend'[i].op = "ended" /\ Pend'[j].op = "ended" => i = j
    BY <1>3, <1>6 DEF Sound, Queued, OfJob
  <2>3. \A op \in OfJob : Waits(op)' <=> Waits(op)
    BY <1>5 DEF SameWork
  <2> QED BY <2>1, <2>2, <2>3 DEF Sound, Queued, OfJob
<1>10. Flushing'
  <2>1. \A i \in Places' : Pend'[i].op \in OfJob => \E j \in Places' : j > i /\ IsFlush(Pend'[j], "delivery")
    BY <1>3, <1>6, <1>8 DEF OfJob, IsFlush
  <2>2. "delivery" \notin flushed
    BY DEF Sound, Flushing
  <2>3. \A i \in Places' : Pend'[i].op = "discard" => \E j \in Places' : j > i /\ IsFlush(Pend'[j], "caller")
    <3>1. SUFFICES ASSUME NEW i \in Places, Pend[i].op = "discard"
                   PROVE  \E j \in Places' : j > i /\ IsFlush(Pend'[j], "caller")
      BY <1>3, <1>6
    <3>2. PICK j \in Places : j > i /\ IsFlush(Pend[j], "caller")
      BY <3>1 DEF Sound, Flushing
    <3>3. Pend'[j] = Pend[j] /\ j \in Places'
      BY <1>6
    <3> QED BY <3>2, <3>3
  <2>4. ~Waits("end")'
    BY <1>3, <1>6, <1>7 DEF Waits
  <2>5. "caller" \in flushed => caller # "idle" /\ \A i \in Places' : ~IsFlush(Pend'[i], "caller")
    BY <1>3, <1>6 DEF Sound, Flushing, IsFlush
  <2>u. \A i, j \in Places' : \A who \in {"caller", "delivery"} :
          IsFlush(Pend'[i], who) /\ IsFlush(Pend'[j], who) => i = j
    BY <1>3, <1>6 DEF Sound, Queued, Flushing, IsFlush
  <2> QED BY <1>7, <2>1, <2>2, <2>3, <2>4, <2>5, <2>u DEF Flushing
<1> QED BY <1>4, <1>5, <1>9, <1>10

LEMMA AnnounceBeginsKeeps ==
  ASSUME Sound, AnnounceBegins
  PROVE  Sound'
<1>1. TypeOK
  BY DEF Sound
<1>2. /\ UNCHANGED <<row, rows, buffer, live, broken, writing, flushed, status, num, next, claimed>>
      /\ UNCHANGED <<skips, todo, fed, out, open, spoilt, looping, closing, noted>>
      /\ UNCHANGED <<announced, caller, taken, lapses, lost>>
      /\ Gets("announce")
  BY DEF AnnounceBegins, disk, ofWriter, known, work, ghosts
<1>3. UNCHANGED <<LastRun, Now, Number>>
  BY <1>2, RunStays
<1>4. /\ at = Nothing /\ deliveries # <<>> /\ 1 \in 1 .. Len(deliveries)
      /\ Head(deliveries) = deliveries[1] /\ deliveries[1].op = "announce"
      /\ deliveries' \in Seq(Tidings)
      /\ Len(deliveries) = Len(deliveries') + 1
  BY <1>1, <1>2, Getting
<1>5. /\ ~Quiet /\ Now \in {"running"} \cup Ended /\ LastRun \in Runs /\ Now = status[LastRun]
      /\ caller = "idle" /\ LastRun \notin announced
  BY <1>4, Unsettled
<1>6. Now \in Ended
  BY <1>4, <1>5 DEF Sound, Staged
<1>7. at.op = "nothing"
  BY <1>4 DEF Nothing, Bare, Item
<1>8. Len(deliveries) = 1 /\ deliveries[1].run = LastRun
  <2>1. /\ \A i \in 1 .. Len(deliveries) : deliveries[i].op = "announce" <=> i = Len(deliveries)
        /\ deliveries[Len(deliveries)].run = LastRun
    BY <1>4, <1>5, <1>6, <1>7 DEF Sound, Staged
  <2>2. 1 = Len(deliveries)
    BY <1>4, <2>1
  <2> QED BY <2>1, <2>2
<1>9. deliveries' = <<>>
  <2>1. PICK n \in Nat : n = Len(deliveries')
    BY <1>4, LenProperties
  <2>2. n + 1 = 1
    BY <1>4, <1>8, <2>1
  <2>3. n = 0
    BY <2>2
  <2> QED BY <1>4, <2>1, <2>3, EmptySeq
<1>10. Results = {} /\ Results' = {}
  <2>1. \A i \in 1 .. Len(deliveries) : i = 1
    BY <1>8
  <2>2. Results = {}
    BY <1>4, <2>1 DEF Results
  <2> QED BY <2>2, <1>9 DEF Results
<1>11. SameResults
  BY <1>10 DEF SameResults
<1>12. /\ RunsInOrder' /\ Numbered'
  BY <1>2, <1>3, RunsInOrderStays, NumberedStays DEF Sound
<1>13. Claims'
  BY <1>2, <1>3, <1>5 DEF Sound, Claims, Active
<1>14. ~Waits("end") /\ writing /\ ~noted
  BY <1>4, <1>7 DEF Sound, Flushing, Heard
<1>15. looping => \A i \in 1 .. Len(events) : events[i].op # "noted"
  BY <1>7 DEF Sound, Heard
<1>16. ASSUME at' = OfRun("noting", LastRun) \/ at' = OfRun("flushing", LastRun), SameWork
       PROVE  Staged'
  <2>1. ~Quiet' /\ Now' # "submitted"
    BY <1>2, <1>3, <1>5, <1>6 DEF Quiet, Ended
  <2>2. at'.op \in {"noting", "flushing"} /\ at'.run = LastRun
    BY <1>16 DEF OfRun, Item
  <2>3. \A op \in OfJob : Waits(op)' <=> Waits(op)
    BY <1>16 DEF SameWork
  <2>4. Waits("job")' \/ row.n = Number
    BY <1>5, <1>6, <2>3 DEF Sound, Staged, OfJob
  <2> QED BY <1>2, <1>3, <1>6, <1>9, <1>10, <2>1, <2>2, <2>3, <2>4 DEF Sound, Staged, OfJob, Ended
<1>17. ASSUME SameWork, SameAnswers
       PROVE  Apart' /\ Unrecorded' /\ Accounted' /\ Counted' /\ Told'
  BY <1>2, <1>3, <1>11, <1>17, ApartStays, UnrecordedStays, AccountedStays, CountedStays, ToldStays DEF Sound
<1>18. CASE status[LastRun] \in Resumable
  <2>1. at' = OfRun("noting", LastRun) /\ Tell(Bare("noted")) /\ records' = records
    BY <1>4, <1>8, <1>18 DEF AnnounceBegins
  <2>2. PICK x \in Events : x = Bare("noted") /\ events' = Append(events, x)
    <3>1. Bare("noted") \in Events
      BY JournalAssumption DEF Bare, Item, Events, Items
    <3> QED BY <3>1, <2>1 DEF Tell
  <2>3. x.op = "noted" /\ at'.op = "noting" /\ at' \in Items({"nothing", "noting", "flushing"})
    BY <2>1, <2>2, <1>5 DEF Bare, OfRun, Item, Items, Runs
  <2>4. Pend' = Pend /\ SameWork
    BY <1>2, <2>1, PendStays, WorkStays
  <2>5. SameAnswers
    BY <1>1, <2>2, <2>3, AnswersToldOn
  <2>6. events' \in Seq(Events)
    BY <1>1, <2>2, Tells
  <2>7. PICK last \in 1 .. Len(events') :
         /\ last = Len(events') /\ last = Len(events) + 1 /\ events'[last] = x
         /\ \A i \in 1 .. Len(events) : i \in 1 .. Len(events') /\ events'[i] = events[i] /\ i < last
         /\ \A i \in 1 .. Len(events') : i \in 1 .. Len(events) \/ i = last
    BY ONLY <1>1, <2>2, Tells
  <2>8. TypeOK'
    BY SMTT(30), <1>1, <1>2, <1>4, <2>1, <2>3, <2>6 DEF TypeOK, Events, Tidings
  <2>9. Heard'
    <3>1. \A i \in 1 .. Len(events') :
       /\ events'[i].op = "submit" => events'[i].run = LastRun /\ Now = "submitted"
       /\ events'[i].op = "cancel" => events'[i].run \in 1 .. LastRun
       /\ events'[i].op = "close" => closing
       /\ events'[i].op = "delivered" =>
            events'[i].run = LastRun /\ Now \notin {"none", "gone"} /\ events'[i].chunk \in Chunks
            /\ (events'[i].ok \/ events'[i].chunk \in Sour)
      BY <2>3, <2>7 DEF Sound, Heard
    <3>2. \A i, j \in 1 .. Len(events') :
       /\ events'[i].op = "close" /\ j > i => events'[j].op # "submit"
       /\ events'[i].op = "submit" /\ events'[j].op = "submit" => i = j
       /\ events'[i].op = "noted" /\ events'[j].op = "noted" /\ looping => i = j
      BY <2>3, <2>7, <1>15 DEF Sound, Heard
    <3> QED BY <1>2, <1>3, <1>6, <1>14, <2>3, <3>1, <3>2 DEF Sound, Heard, Active, Ended
  <2>10. Queued'
    BY <1>2, <1>3, <1>7, <2>1, <2>4 DEF Sound, Queued, Waits, Places, IsFlush
  <2>11. Flushing'
    BY <1>2, <1>7, <1>14, <2>3, <2>4 DEF Sound, Flushing, Waits, Places, IsFlush
  <2>12. Late'
    <3>1. \A j \in Answers' : j < last
      BY <2>3, <2>7 DEF Answers
    <3> QED BY <1>2, <1>3, <1>5, <1>6, <1>10, <1>14, <1>18, <2>3, <2>7, <3>1 DEF Late, Final, Resumable
  <2> QED BY <1>12, <1>13, <1>16, <1>17, <2>1, <2>4, <2>5, <2>8, <2>9, <2>10, <2>11, <2>12 DEF Sound
<1>19. CASE status[LastRun] \notin Resumable
  <2>1. at' = OfRun("flushing", LastRun) /\ records' = Append(records, OfRun("flush", LastRun)) /\ events' = events
    BY <1>4, <1>8, <1>19 DEF AnnounceBegins, Record
  <2>2. at'.op = "flushing" /\ at' \in Items({"nothing", "noting", "flushing"})
    BY <2>1, <1>5 DEF OfRun, Item, Items, Runs
  <2>3. SameWork /\ records' \in Seq(Records) /\ Queued' /\ Flushing'
    BY <1>2, <1>3, <1>4, <1>5, <1>7, <2>1, <2>2, FlushAsked
  <2>4. SameAnswers
    BY <2>1 DEF SameAnswers, Answers
  <2>5. TypeOK'
    BY SMTT(30), <1>1, <1>2, <1>4, <2>1, <2>2, <2>3 DEF TypeOK, Records, Tidings
  <2>6. Heard'
    BY <1>2, <1>3, <1>14, <1>15, <2>1 DEF Sound, Heard, Active, Answers
  <2>7. Late'
    BY <1>2, <1>3, <1>5, <1>6, <1>10, <1>19, <2>1, <2>2 DEF Sound, Late, Answers
  <2> QED BY <1>12, <1>13, <1>16, <1>17, <2>1, <2>3, <2>4, <2>5, <2>6, <2>7 DEF Sound
<1> QED BY <1>18, <1>19

LEMMA NotedKeeps ==
  ASSUME Sound, Noted
  PROVE  Sound'
<1>1. TypeOK
  BY DEF Sound
<1>2. /\ UNCHANGED <<row, rows, buffer, live, broken, writing, flushed, status, num, next, claimed>>
      /\ UNCHANGED <<skips, todo, fed, out, open, spoilt, events, looping, closing, deliveries>>
      /\ UNCHANGED <<announced, caller, taken, lapses, lost>>
  BY DEF Noted, disk, ofWriter, known, work, ghosts
<1>3. UNCHANGED <<LastRun, Now, Number>> /\ SameAnswers /\ SameResults
  BY <1>2, RunStays, NewsStays
<1>4. at.op = "noting" /\ (noted \/ ~looping) /\ at' = [at EXCEPT !.op = "flushing"] /\ noted' = FALSE
  BY DEF Noted, NotedOrAlone
<1>5. /\ ~Quiet /\ Now \in {"running"} \cup Ended /\ LastRun \in Runs /\ Now = status[LastRun]
      /\ caller = "idle" /\ LastRun \notin announced
  BY <1>4, Unsettled
<1>6. at # Nothing
  BY <1>4 DEF Nothing, Bare, Item
<1>7. Now \in Ended /\ deliveries = <<>> /\ at.run = LastRun
  BY <1>5, <1>6 DEF Sound, Staged
<1>8. at'.op = "flushing" /\ at'.run = LastRun /\ at' \in Items({"nothing", "noting", "flushing"})
  BY <1>1, <1>4, <1>7 DEF TypeOK, Items
<1>9. SameWork /\ records' \in Seq(Records) /\ Queued' /\ Flushing'
  <2>1. records' = Append(records, OfRun("flush", LastRun))
    BY <1>7 DEF Noted, Record
  <2> QED BY <1>2, <1>3, <1>4, <1>5, <1>8, <2>1, FlushAsked
<1>t. TypeOK'
  <2>1. noted' = FALSE
    BY <1>4
  <2>2. at' \in Items({"nothing", "noting", "flushing"}) /\ records' \in Seq(Records)
    BY <1>8, <1>9
  <2>3. noted' \in BOOLEAN
    BY <2>1
  <2> QED BY <1>1, <1>2, <2>2, <2>3 DEF TypeOK, Records
<1>10. RunsInOrder' /\ Numbered' /\ Claims'
  BY <1>2, <1>3, RunsInOrderStays, NumberedStays, ClaimsStays DEF Sound
<1>11. Apart' /\ Unrecorded' /\ Accounted' /\ Counted' /\ Told'
  BY <1>2, <1>3, <1>9, ApartStays, UnrecordedStays, AccountedStays, CountedStays, ToldStays DEF Sound
<1>12. Heard'
  <2>1. looping => \A i \in 1 .. Len(events) : events[i].op # "noted"
    BY <1>4 DEF Sound, Heard
  <2> QED BY <1>2, <1>3, <1>4, <2>1 DEF Sound, Heard, Active, Answers
<1>13. Staged'
  <2>1. ~Quiet' /\ Now' # "submitted"
    BY <1>2, <1>3, <1>5, <1>7 DEF Quiet, Ended
  <2>2. \A op \in OfJob : Waits(op)' <=> Waits(op)
    BY <1>9 DEF SameWork
  <2>3. Waits("job")' \/ row.n = Number
    BY <1>5, <1>7, <2>2 DEF Sound, Staged, OfJob
  <2> QED BY <1>2, <1>3, <1>7, <1>8, <2>1, <2>2, <2>3 DEF Sound, Staged, OfJob, Ended, Results
<1>14. Late'
  BY <1>2, <1>3, <1>4, <1>5, <1>7, <1>8 DEF Sound, Late, Answers, Results
<1> QED BY <1>t, <1>9, <1>10, <1>11, <1>12, <1>13, <1>14 DEF Sound

LEMMA AnnouncesKeeps ==
  ASSUME Sound, Announces
  PROVE  Sound'
<1>1. TypeOK
  BY DEF Sound
<1>2. /\ UNCHANGED <<row, rows, records, buffer, live, broken, writing, status, num, next, claimed>>
      /\ UNCHANGED <<skips, todo, fed, out, open, spoilt, events, looping, closing, deliveries, noted>>
      /\ UNCHANGED <<caller, taken, lapses, lost>>
  BY DEF Announces, disk, known, work, ghosts
<1>3. UNCHANGED <<LastRun, Now, Number, Pend>> /\ SameAnswers /\ SameResults /\ SameWork
  BY <1>2, RunStays, NewsStays, PendStays, WorkStays
<1>4. /\ at.op = "flushing" /\ ("delivery" \in flushed \/ ~writing)
      /\ announced' = announced \cup {at.run} /\ at' = Nothing /\ flushed' = flushed \ {"delivery"}
  BY DEF Announces, OnDisk
<1>5. /\ ~Quiet /\ Now \in {"running"} \cup Ended /\ LastRun \in Runs /\ Now = status[LastRun]
      /\ caller = "idle" /\ LastRun \notin announced
  BY <1>4, Unsettled
<1>6. at # Nothing
  BY <1>4 DEF Nothing, Bare, Item
<1>7. Now \in Ended /\ deliveries = <<>> /\ at.run = LastRun
  BY <1>5, <1>6 DEF Sound, Staged
<1>8. at' \in Items({"nothing", "noting", "flushing"}) /\ at'.op = "nothing"
  BY <1>4, JournalAssumption DEF Nothing, Bare, Item, Items
<1>9. "delivery" \in flushed
  BY <1>4, <1>6 DEF Sound, Flushing
<1>10. \A i \in Places : ~IsFlush(Pend[i], "delivery") /\ Pend[i].op \notin OfJob
  BY <1>4, <1>9 DEF Sound, Flushing
<1>11. ~Waits("job") /\ ~Waits("ended") /\ ~Waits("chunk") /\ live = 0
  <2>1. ~Waits("job") /\ ~Waits("ended") /\ ~Waits("chunk")
    BY <1>10 DEF Waits, OfJob
  <2> QED BY <2>1, <1>7 DEF Sound, Staged
<1>12. announced' = announced \cup {LastRun}
  BY <1>4, <1>7
<1>13. Quiet'
  BY <1>3, <1>12 DEF Quiet
<1>t. TypeOK'
  BY SMTT(30), <1>1, <1>2, <1>4, <1>5, <1>8, <1>12 DEF TypeOK
<1>14. RunsInOrder'
  BY <1>2, <1>3, <1>5, <1>7, <1>12 DEF Sound, RunsInOrder
<1>15. Numbered'
  BY <1>2, <1>3, <1>13 DEF Sound, Numbered
<1>16. Claims'
  BY <1>2, <1>3, <1>5 DEF Sound, Claims, Active
<1>17. Heard'
  <2>1. (looping => \A i \in 1 .. Len(events) : events[i].op # "noted") /\ ~noted
    BY <1>4 DEF Sound, Heard
  <2> QED BY <1>2, <1>3, <2>1 DEF Sound, Heard, Active, Answers
<1>18. Staged'
  <2>1. ~Waits("job")' /\ ~Waits("ended")' /\ ~Waits("chunk")'
    BY <1>3, <1>11 DEF SameWork, OfJob
  <2>2. Results = {} /\ Results' = {}
    BY <1>2, <1>7 DEF Results
  <2> QED BY <1>2, <1>3, <1>4, <1>7, <1>11, <1>13, <2>1, <2>2 DEF Sound, Staged, Ended
<1>19. Queued'
  BY <1>2, <1>3, <1>10 DEF Sound, Queued, Waits, Places, IsFlush
<1>20. Flushing'
  <2>1. ~Waits("end") /\ writing
    BY <1>6 DEF Sound, Flushing
  <2> QED BY <1>2, <1>3, <1>4, <1>8, <2>1 DEF Sound, Flushing, Waits, Places, IsFlush
<1>21. Late'
  <2>1. Now \in Resumable /\ looping => Answers = {}
    BY <1>4 DEF Sound, Late
  <2>2. Now \in Final /\ Answers \cup Results # {} => broken
    BY DEF Sound, Late
  <2>3. Answers' = Answers /\ Results' = Results
    BY <1>2 DEF Answers, Results
  <2> QED BY <1>2, <1>3, <1>8, <2>1, <2>2, <2>3 DEF Late
<1>22. Apart' /\ Unrecorded' /\ Accounted' /\ Counted' /\ Told'
  BY <1>2, <1>3, ApartStays, UnrecordedStays, AccountedStays, CountedStays, ToldStays DEF Sound
<1> QED BY <1>t, <1>14, <1>15, <1>16, <1>17, <1>18, <1>19, <1>20, <1>21, <1>22 DEF Sound
-----------------------------------------------------------------------------
(* A run begins *)

LEMMA NowTyped ==
  ASSUME Sound
  PROVE  /\ LastRun \in 0 .. RunsMax /\ LastRun \in Nat
         /\ Now \in {"none", "submitted", "running", "gone"} \cup Ended
         /\ Now # "none" => LastRun \in Runs /\ Now = status[LastRun] /\ Number = num[LastRun]
         /\ Now = "none" => LastRun = 0
         /\ Number \in 0 .. RunsMax
<1>1. TypeOK /\ LastRun \in 0 .. RunsMax
  BY LastRunIs DEF Sound
<1>2. CASE LastRun = 0
  BY <1>1, <1>2, JournalAssumption DEF Now, Number
<1>3. CASE LastRun # 0
  <2>1. LastRun \in Runs /\ Now = status[LastRun] /\ Number = num[LastRun]
    BY <1>1, <1>3 DEF Now, Number, Runs
  <2>2. Now # "new"
    BY <1>1, <2>1 DEF Sound, RunsInOrder
  <2>3. Now \in {"new", "submitted", "running", "gone"} \cup Ended /\ Number \in 0 .. RunsMax
    BY <1>1, <2>1 DEF TypeOK
  <2>4. Now # "none"
    BY <2>3 DEF Ended
  <2> QED BY <1>1, <2>1, <2>2, <2>3, <2>4
<1> QED BY <1>2, <1>3

\* While all is quiet nothing is on its way for the run.
LEMMA QuietMeans ==
  ASSUME Sound, Quiet
  PROVE  /\ Now \in {"none", "gone"} \cup Ended /\ ~Active
         /\ LastRun \in Runs => status[LastRun] = "gone" \/ LastRun \in announced
         /\ deliveries = <<>> /\ Results = {} /\ at.op = "nothing" /\ live = 0 /\ ~noted
         /\ ~Waits("job") /\ ~Waits("ended")
<1>1. Now \in {"none", "gone"} \cup Ended
  BY NowTyped DEF Sound, RunsInOrder, Quiet
<1>2. deliveries = <<>> /\ at = Nothing /\ live = 0 /\ ~Waits("job") /\ ~Waits("ended")
  BY DEF Sound, Staged
<1>3. at.op = "nothing" /\ Results = {}
  BY <1>2 DEF Nothing, Bare, Item, Results
<1>4. ~noted
  BY <1>3 DEF Sound, Heard
<1>5. LastRun \in Runs => status[LastRun] = "gone" \/ LastRun \in announced
  BY NowTyped DEF Quiet, Now, Runs
<1> QED BY <1>1, <1>2, <1>3, <1>4, <1>5 DEF Active, Ended

LEMMA OnSubmitKeeps ==
  ASSUME Sound, OnSubmit
  PROVE  Sound'
<1>1. TypeOK
  BY DEF Sound
<1>2. /\ UNCHANGED <<row, rows, buffer, live, broken, writing, flushed, claimed>>
      /\ UNCHANGED <<skips, fed, out, open, looping, closing, deliveries, at, noted>>
      /\ UNCHANGED <<announced, caller, taken, lapses, lost>>
      /\ Hears("submit") /\ todo' = Source /\ spoilt' = {}
  BY DEF OnSubmit, others, ofWriter, disk, ghosts
<1>3. /\ looping /\ events # <<>> /\ 1 \in 1 .. Len(events) /\ Head(events) = events[1] /\ events[1].op = "submit"
      /\ events' \in Seq(Events)
      /\ \A i \in 1 .. Len(events') : i + 1 \in 1 .. Len(events) /\ i + 1 # 1 /\ events'[i] = events[i + 1]
  BY <1>1, <1>2, Hearing
<1>4. events[1].run = LastRun /\ Now = "submitted"
  BY <1>3 DEF Sound, Heard
<1>5. LastRun \in Runs /\ Now = status[LastRun] /\ Number = num[LastRun] /\ Number \in 0 .. RunsMax /\ LastRun \in 1 .. RunsMax
  BY <1>4, NowTyped DEF Runs
<1>6. /\ num' = [num EXCEPT ![LastRun] = IF Number = 0 THEN next ELSE num[LastRun]]
      /\ next' = IF Number = 0 THEN next + 1 ELSE next
      /\ records' = Append(records, OfRun("job", LastRun))
      /\ status' = [status EXCEPT ![LastRun] = "running"]
  BY <1>3, <1>4, <1>5 DEF OnSubmit, Record
<1>7. LastRun' = LastRun
  BY <1>1, <1>4, <1>5, <1>6, LastRunStays
<1>8. Now' = "running" /\ Number' = IF Number = 0 THEN next ELSE Number
  <2>1. status'[LastRun] = "running" /\ num'[LastRun] = IF Number = 0 THEN next ELSE Number
    BY <1>1, <1>5, <1>6 DEF TypeOK
  <2>2. LastRun' # 0
    BY <1>5, <1>7
  <2> QED BY <1>7, <2>1, <2>2 DEF Now, Number
<1>9. /\ next <= LastRun /\ Number = row.n /\ row.s \in {"none"} \cup Resumable /\ row.n < next /\ row.n \in Nat
      /\ next \in Nat /\ next >= 1
  BY <1>1, <1>4 DEF Sound, Numbered, TypeOK
<1>10. Number' \in 1 .. RunsMax /\ Number' < next' /\ next' \in 1 .. RunsMax + 1 /\ next' <= LastRun + 1 /\ row.n < next'
  <2>1. Number' = IF Number = 0 THEN next ELSE Number
    BY <1>8
  <2>2. next' = IF Number = 0 THEN next + 1 ELSE next
    BY <1>6
  <2>3. RunsMax \in Nat
    BY JournalAssumption
  <2>4. CASE Number = 0
    BY <1>5, <1>9, <2>1, <2>2, <2>3, <2>4
  <2>5. CASE Number # 0
    BY <1>5, <1>9, <2>1, <2>2, <2>3, <2>5
  <2> QED BY <2>4, <2>5
<1>11. ~Quiet /\ ~Quiet'
  <2>1. LastRun \notin announced
    BY <1>4, <1>5 DEF Sound, RunsInOrder, Ended
  <2> QED BY <2>1, <1>2, <1>4, <1>7, <1>8 DEF Quiet
<1>12. claimed /\ caller = "idle"
  <2>1. Active
    BY <1>4 DEF Active
  <2> QED BY <2>1, <1>1, <1>11 DEF Sound, Claims, TypeOK
<1>13. /\ deliveries = <<>> /\ at = Nothing /\ at.op = "nothing" /\ live = 0
       /\ ~Waits("job") /\ ~Waits("ended") /\ ~Waits("chunk") /\ out = {} /\ open = {} /\ ~fed
       /\ Answers = {} /\ ~Waits("end") /\ writing
  BY <1>3, <1>4 DEF Sound, Staged, Heard, Flushing, Nothing, Bare, Item
<1>14. Answers' = {} /\ Results' = {} /\ Results = {} /\ Marks = {}
  <2>1. Answers' = {}
    BY <1>3, <1>13 DEF Answers
  <2> QED BY <2>1, <1>2, <1>13 DEF Results, Marks, Waits
<1>15. PICK x \in Records : x = OfRun("job", LastRun)
  <2>1. OfRun("job", LastRun) \in Records
    BY <1>5, JournalAssumption DEF OfRun, Item, Records, Items, Runs
  <2> QED BY <2>1
<1>16. x.op = "job" /\ x.run = LastRun
  BY <1>15 DEF OfRun, Item
<1>17. records' \in Seq(Records)
  BY <1>1, <1>2, <1>6, <1>15, Queues
<1>18. PICK last \in Places' :
        /\ Places \subseteq Places' /\ last = Len(Pend') /\ last \notin Places
        /\ Pend'[last] = x
        /\ \A i \in Places : Pend'[i] = Pend[i] /\ i < last
        /\ \A i \in Places' : i \in Places \/ i = last
  <2>1. records' = Append(records, x) /\ buffer' = buffer
    BY <1>2, <1>6, <1>15
  <2> QED BY ONLY <1>1, <2>1, x \in Records, Behind
<1>19. \A i \in Places : Pend[i].op \notin OfJob /\ Pend[i].op \notin {"end", "discard"}
                         /\ ~IsFlush(Pend[i], "caller") /\ ~IsFlush(Pend[i], "delivery")
  BY <1>12, <1>13 DEF Sound, Queued, Waits, OfJob
<1>20. /\ Marks' = {} /\ ~Waits("chunk")' /\ ~Waits("ended")' /\ Waits("job")' /\ ~Waits("end")'
       /\ \A i \in Places' : Pend'[i].op \in OfJob => i = last
       /\ \A i \in Places' : Pend'[i].op \notin {"end", "discard", "chunk", "ended"}
                             /\ ~IsFlush(Pend'[i], "caller") /\ ~IsFlush(Pend'[i], "delivery")
  BY <1>16, <1>18, <1>19 DEF Marks, Waits, OfJob, IsFlush
<1>s. Source \in Seq(Chunks) /\ (\A i, j \in 1 .. Len(Source) : Source[i] = Source[j] => i = j)
      /\ \A c \in Chunks : \E i \in 1 .. Len(Source) : Source[i] = c
  <2>1. Source \in Seq(Chunks) /\ IsInjective(Source)
    BY JournalAssumption DEF Chunks
  <2>2. DOMAIN Source = 1 .. Len(Source)
    BY <2>1, LenProperties
  <2> QED BY <2>1, <2>2 DEF Chunks, ToSet, IsInjective
<1>t. TypeOK'
  <2>1. num' \in [Runs -> 0 .. RunsMax]
    <3>1. (IF Number = 0 THEN next ELSE num[LastRun]) \in 0 .. RunsMax
      BY <1>5, <1>8, <1>10
    <3> QED BY <1>1, <1>6, <3>1 DEF TypeOK
  <2>2. status' \in [Runs -> {"new", "submitted", "running", "gone"} \cup Ended]
    BY <1>1, <1>6 DEF TypeOK
  <2>3. todo' \in Seq(Chunks) /\ spoilt' \subseteq Sour
    BY <1>2, <1>s
  <2>4. next' \in 1 .. RunsMax + 1
    BY <1>10
  <2>5. events' \in Seq(Events) /\ records' \in Seq(Records)
    BY <1>3, <1>17
  <2> QED BY SMTT(60), <1>1, <1>2, <2>1, <2>2, <2>3, <2>4, <2>5 DEF TypeOK, Events, Records
<1>21. RunsInOrder'
  BY <1>1, <1>2, <1>4, <1>5, <1>6, <1>7 DEF Sound, RunsInOrder, TypeOK, Ended
<1>22. Numbered'
  <2>1. Number' >= 1
    BY <1>10
  <2> QED BY <1>2, <1>7, <1>8, <1>10, <2>1 DEF Sound, Numbered
<1>23. Claims'
  BY <1>2, <1>8, <1>12 DEF Claims, Active
<1>24. Heard'
  <2>1. \A i \in 1 .. Len(events') : events'[i].op # "submit"
    BY <1>3 DEF Sound, Heard
  <2>2. \A i \in 1 .. Len(events') :
       /\ events'[i].op = "cancel" => events'[i].run \in 1 .. LastRun
       /\ events'[i].op = "close" => closing
       /\ events'[i].op # "delivered"
       /\ events'[i].op = "noted" /\ looping => at.op = "noting" /\ ~noted
    <3>1. \A i \in 1 .. Len(events') : events'[i].op # "delivered"
      BY <1>14 DEF Answers
    <3> QED BY <1>3, <3>1 DEF Sound, Heard
  <2>3. \A i, j \in 1 .. Len(events') :
       /\ events'[i].op = "close" /\ j > i => events'[j].op # "submit"
       /\ events'[i].op = "noted" /\ events'[j].op = "noted" /\ looping => i = j
    BY <1>2, HeardInOrder
  <2> QED BY <1>2, <1>3, <1>7, <1>8, <1>13, <2>1, <2>2, <2>3 DEF Sound, Heard
<1>25. Staged'
  <2>1. \A i \in 1 .. Len(deliveries') : deliveries'[i].op = "result"
    BY <1>2, <1>13
  <2> QED BY <1>2, <1>8, <1>11, <1>13, <1>14, <1>20, <2>1 DEF Staged, Ended
<1>26. Queued'
  <2>1. \A i \in Places' : Pend'[i].op \in OfJob => Pend'[i].run = LastRun'
    BY <1>7, <1>16, <1>18, <1>20
  <2>2. \A i, j \in Places' : Pend'[i].op = "job" /\ Pend'[j].op \in OfJob => i <= j
    <3>1. last <= last
      BY DEF Places
    <3> QED BY <3>1, <1>20 DEF OfJob
  <2>3. row.n \in {0, Number'}
    BY <1>8, <1>9
  <2> QED BY <1>2, <1>7, <1>8, <1>20, <2>1, <2>2, <2>3 DEF Queued
<1>27. Flushing'
  <2>1. "caller" \notin flushed /\ "delivery" \notin flushed
    BY <1>12, <1>13 DEF Sound, Flushing
  <2> QED BY <1>2, <1>13, <1>20, <2>1 DEF Flushing
<1>28. Late'
  BY <1>2, <1>7, <1>8, <1>11, <1>13, <1>14 DEF Late, Resumable, Final
<1>29. Apart'
  BY <1>2, <1>13, <1>14, <1>20, <1>s DEF Apart
<1>30. Unrecorded'
  <2>1. ~skips => \A c \in Chunks : <<row.n, c>> \notin rows
    BY <1>4 DEF Sound, Unrecorded
  <2>2. \A p \in rows : p[1] = row.n
    BY DEF Sound, Numbered
  <2>3. ~skips => \A c \in Chunks : <<Number', c>> \notin rows
    BY <2>1, <2>2
  <2>4. \A i \in 1 .. Len(todo') : todo'[i] \in Chunks
    BY <1>2, <1>s, ElementOfSeq
  <2> QED BY <1>2, <1>8, <1>13, <1>14, <1>20, <2>3, <2>4 DEF Unrecorded, Active
<1>31. Accounted'
  BY <1>2, <1>13, <1>14, <1>s DEF Accounted
<1>32. Counted'
  <2>1. \A c \in Chunks : Owed(c)' => Owed(c)
    <3>1. SUFFICES ASSUME NEW c \in Chunks, Owed(c)', <<row.n, c>> \in rows PROVE FALSE
      BY <1>4 DEF Owed
    <3>2. ~Shown(c)'
      BY <1>2, <1>8, <1>13, <1>14, <3>1 DEF Owed
    <3>3. skips
      BY <1>4, <3>1 DEF Sound, Unrecorded
    <3>4. row.n # 0
      BY <1>1, <3>1 DEF TypeOK
    <3>5. Number' = row.n
      BY <1>8, <1>9, <3>4
    <3> QED BY <1>2, <3>1, <3>2, <3>3, <3>5 DEF Shown
  <2>2. \A c \in Chunks : Kept(c) => Kept(c)'
    BY <1>2, <1>13, <1>14 DEF Kept
  <2>3. Cap' = Cap
    BY <1>2 DEF Cap
  <2> QED BY <1>2, <1>14, <1>20, <2>1, <2>2, <2>3 DEF Sound, Counted
<1>33. Told'
  <2>1. row.s \notin Final
    BY <1>9 DEF Resumable, Final
  <2>2. row.s # "completed"
    BY <2>1 DEF Final
  <2> QED BY <1>2, <1>8, <2>1, <2>2 DEF Sound, Told, Resumable, Ended
<1> QED BY <1>t, <1>21, <1>22, <1>23, <1>24, <1>25, <1>26, <1>27, <1>28, <1>29, <1>30, <1>31, <1>32, <1>33 DEF Sound

LEMMA SubmitsKeeps ==
  ASSUME Sound, Submits
  PROVE  Sound'
<1>1. TypeOK
  BY DEF Sound
<1>2. /\ UNCHANGED <<row, rows, records, buffer, live, broken, writing, next, todo, fed, out, open, spoilt>>
      /\ UNCHANGED <<looping, closing, deliveries, at, noted>>
      /\ UNCHANGED <<announced, taken, lapses, lost>>
      /\ caller = "claiming" /\ ("caller" \in flushed \/ ~writing)
      /\ caller' = "idle" /\ flushed' = flushed \ {"caller"}
  BY DEF Submits, disk, ghosts
<1>3. Pend' = Pend /\ SameWork /\ Results' = Results /\ SameResults
  BY <1>2, PendStays, WorkStays DEF Results, SameResults
<1>4. claimed /\ Quiet /\ Answers = {} /\ ~closing /\ LastRun < RunsMax
  BY <1>2 DEF Sound, Claims
<1>5. /\ Now \in {"none", "gone"} \cup Ended /\ ~Active
      /\ deliveries = <<>> /\ Results = {} /\ at.op = "nothing" /\ live = 0 /\ ~noted
      /\ ~Waits("job") /\ ~Waits("ended")
  BY <1>4, QuietMeans
<1>6. looping /\ writing /\ ~Waits("end") /\ ~Waits("chunk") /\ "caller" \in flushed
  BY <1>2, <1>4 DEF Sound, Heard, Flushing, Staged
<1>7. \A i \in Places : ~IsFlush(Pend[i], "caller") /\ ~IsFlush(Pend[i], "delivery")
                        /\ Pend[i].op \notin OfJob /\ Pend[i].op \notin {"discard", "end"}
  BY <1>2, <1>5, <1>6 DEF Sound, Flushing, Queued, Waits, OfJob
<1>8. Marks = {} /\ Marks' = {}
  BY <1>3, <1>6 DEF Marks, Waits, SameWork
<1>9. \A op \in OfJob \cup {"end"} : ~Waits(op) /\ ~Waits(op)'
  BY <1>3, <1>7 DEF Waits, OfJob, Places
<1>10. "delivery" \notin flushed
  BY <1>5 DEF Sound, Flushing
<1>11. Flushing'
  BY <1>2, <1>3, <1>6, <1>7, <1>10 DEF Flushing, Waits, Places, IsFlush
<1>12. LastRun \in 0 .. RunsMax /\ LastRun \in Nat
  BY NowTyped
<1>13. CASE row.s \notin {"none"} \cup Resumable
  <2>1. UNCHANGED <<status, num, skips, events>> /\ claimed' = FALSE
    BY <1>13 DEF Submits
  <2>2. UNCHANGED <<LastRun, Now, Number>> /\ SameAnswers
    BY <1>2, <2>1, RunStays, NewsStays
  <2>3. TypeOK'
    BY <1>1, <1>2, <2>1 DEF TypeOK
  <2>4. RunsInOrder' /\ Numbered' /\ Heard' /\ Staged' /\ Late'
    BY <1>2, <1>3, <2>1, <2>2, RunsInOrderStays, NumberedStays, HeardStays, StagedStays, LateStays DEF Sound
  <2>5. Apart' /\ Unrecorded' /\ Accounted' /\ Told'
    BY <1>2, <1>3, <2>1, <2>2, ApartStays, UnrecordedStays, AccountedStays, ToldStays DEF Sound
  <2>6. Claims'
    BY <1>2, <1>5, <2>1, <2>2 DEF Claims, Active
  <2>7. Queued'
    BY <1>2, <1>3, <1>7, <2>2 DEF Sound, Queued, Waits, Places, IsFlush
  <2>8. Counted'
    <3>1. Answers' = Answers
      BY <2>1 DEF Answers
    <3>2. \A c \in Chunks : (Kept(c)' <=> Kept(c)) /\ (Owed(c)' <=> Owed(c))
      BY <1>2, <1>3, <2>1, <2>2, <3>1 DEF Kept, Owed, Shown, SameWork, OfJob
    <3>3. Cap' = Cap
      BY <1>2 DEF Cap
    <3> QED BY <1>2, <1>8, <2>2, <3>1, <3>2, <3>3, <1>4 DEF Sound, Counted
  <2> QED BY <1>11, <2>3, <2>4, <2>5, <2>6, <2>7, <2>8 DEF Sound
<1>14. CASE row.s \in {"none"} \cup Resumable
  <2>1. PICK r \in Runs : r = LastRun + 1
    <3>1. LastRun + 1 \in Runs
      BY <1>4, <1>12, JournalAssumption DEF Runs
    <3> QED BY <3>1
  <2>2. /\ status' = [status EXCEPT ![r] = "submitted"] /\ num' = [num EXCEPT ![r] = row.n]
        /\ skips' = (\E c \in Chunks : <<row.n, c>> \in rows)
        /\ events' = Append(events, OfRun("submit", r)) /\ claimed' = claimed
    BY <1>14, <2>1 DEF Submits, Tell
  <2>3. status[r] = "new" /\ r \in 1 .. RunsMax /\ r > LastRun
    <3>1. r > LastRun
      BY <1>12, <2>1
    <3> QED BY <3>1 DEF Sound, RunsInOrder, Runs
  <2>4. LastRun' = r
    <3> DEFINE S == {q \in Runs : status[q] # "new"}
    <3>1. {q \in Runs : status'[q] # "new"} = S \cup {r}
      BY <1>1, <2>2 DEF TypeOK
    <3>2. r \notin S
      BY <2>3
    <3>3. IsFiniteSet(S)
      <4>1. IsFiniteSet(Runs)
        BY JournalAssumption, FS_Interval DEF Runs
      <4> QED BY <4>1, FS_Subset
    <3>4. LastRun = Cardinality(S) /\ LastRun' = Cardinality(S \cup {r})
      BY <3>1 DEF LastRun
    <3> HIDE DEF S
    <3> QED BY <2>1, <3>2, <3>3, <3>4, FS_AddElement
  <2>5. Now' = "submitted" /\ Number' = row.n
    <3>1. status'[r] = "submitted" /\ num'[r] = row.n /\ r # 0
      BY <1>1, <2>2, <2>3 DEF TypeOK
    <3> QED BY <2>4, <3>1 DEF Now, Number
  <2>6. PICK x \in Events : x = OfRun("submit", r)
    <3>1. OfRun("submit", r) \in Events
      BY <2>3, JournalAssumption DEF OfRun, Item, Events, Items, Runs
    <3> QED BY <3>1
  <2>7. x.op = "submit" /\ x.run = r
    BY <2>6 DEF OfRun, Item
  <2>8. events' \in Seq(Events)
    BY <1>1, <2>2, <2>6, Tells
  <2>9. PICK last \in 1 .. Len(events') :
         /\ last = Len(events') /\ last = Len(events) + 1 /\ events'[last] = x
         /\ \A i \in 1 .. Len(events) : i \in 1 .. Len(events') /\ events'[i] = events[i] /\ i < last
         /\ \A i \in 1 .. Len(events') : i \in 1 .. Len(events) \/ i = last
    <3>1. events' = Append(events, x)
      BY <2>2, <2>6
    <3> QED BY ONLY <1>1, <3>1, x \in Events, Tells
  <2>10. Answers' = {}
    BY <1>4, <2>7, <2>9 DEF Answers
  <2>11. Now # "running" /\ todo = <<>> /\ out = {} /\ open = {} /\ ~fed
    BY <1>5 DEF Sound, Staged, Active
  <2>12. TypeOK'
    <3>1. status' \in [Runs -> {"new", "submitted", "running", "gone"} \cup Ended]
      BY <1>1, <2>2 DEF TypeOK
    <3>2. num' \in [Runs -> 0 .. RunsMax]
      BY <1>1, <2>2 DEF TypeOK
    <3>3. skips' \in BOOLEAN /\ claimed' \in BOOLEAN
      BY <1>1, <2>2 DEF TypeOK
    <3> QED BY <1>1, <1>2, <2>8, <3>1, <3>2, <3>3 DEF TypeOK, Events
  <2>13. RunsInOrder'
    <3>1. \A q \in Runs : status'[q] = IF q = r THEN "submitted" ELSE status[q]
      BY <1>1, <2>2 DEF TypeOK
    <3>2. \A q \in Runs : (q > r => q > LastRun) /\ (q > LastRun => q = r \/ q > r) /\ (q < r => q = LastRun \/ q < LastRun)
                          /\ ~(r > r) /\ (q < r => q # r)
      BY <1>12, <2>1 DEF Runs
    <3>3. \A q \in Runs : q < r => status[q] = "gone" \/ q \in announced
      <4>1. SUFFICES ASSUME LastRun \in Runs PROVE status[LastRun] = "gone" \/ LastRun \in announced
        BY <3>2 DEF Sound, RunsInOrder
      <4>2. Now = status[LastRun]
        BY <4>1 DEF Now, Runs
      <4>3. Now # "none"
        BY <4>1, NowTyped DEF Runs
      <4> QED BY <1>4, <4>2, <4>3 DEF Quiet
    <3>4. \A q \in announced : status'[q] \in Ended
      BY <1>1, <2>3, <3>1 DEF Sound, RunsInOrder, TypeOK, Ended
    <3>5. \A q \in Runs : status'[q] = "new" <=> q > r
      BY <2>3, <3>1, <3>2 DEF Sound, RunsInOrder
    <3> QED BY <1>2, <2>4, <3>1, <3>2, <3>3, <3>4, <3>5 DEF RunsInOrder
  <2>14. Numbered'
    <3>1. next <= r + 1 /\ next <= r /\ row.n < next
      BY <1>1, <1>12, <2>1 DEF Sound, Numbered, TypeOK
    <3> QED BY <1>2, <1>14, <2>4, <2>5, <3>1 DEF Sound, Numbered, Ended
  <2>15. Claims'
    BY <1>2, <1>4, <2>2, <2>5 DEF Claims, Active
  <2>16. Heard'
    <3>1. \A i \in 1 .. Len(events) : events[i].op \notin {"submit", "close", "delivered", "noted"}
      <4>1. \A i \in 1 .. Len(events) : events[i].op # "delivered"
        BY <1>4 DEF Answers
      <4> QED BY <1>4, <1>5, <1>6, <4>1 DEF Sound, Heard, Active
    <3>2. \A i \in 1 .. Len(events) : events[i].op = "cancel" => events[i].run \in 1 .. r
      <4>1. 1 .. LastRun \subseteq 1 .. r
        BY <1>12, <2>1
      <4> QED BY <4>1 DEF Sound, Heard
    <3>3. \A i \in 1 .. Len(events') :
            \/ i = last /\ events'[i].op = "submit" /\ events'[i].run = r
            \/ events'[i].op \notin {"submit", "close", "delivered", "noted"}
               /\ (events'[i].op = "cancel" => events'[i].run \in 1 .. r)
      BY <2>7, <2>9, <3>1, <3>2
    <3>4. \E i \in 1 .. Len(events') : events'[i].op = "submit"
      BY <2>7, <2>9
    <3> QED BY <1>2, <1>5, <1>6, <2>4, <2>5, <2>10, <3>3, <3>4 DEF Heard
  <2>17. Staged'
    <3>1. at = Nothing
      BY <1>4 DEF Sound, Staged
    <3> QED BY <1>2, <1>3, <1>5, <1>9, <2>5, <2>11, <3>1 DEF Staged, Ended, OfJob
  <2>18. Queued'
    BY <1>2, <1>3, <1>7, <1>9 DEF Queued, Places, OfJob
  <2>19. Late'
    BY <1>2, <1>5, <2>5 DEF Late, Resumable, Final
  <2>20. Apart'
    BY <1>2, <1>3, <1>5, <1>8, <2>10, <2>11 DEF Apart
  <2>21. Unrecorded'
    BY <1>2, <1>3, <1>5, <1>8, <2>2, <2>5, <2>10, <2>11 DEF Unrecorded, Active
  <2>22. Accounted'
    BY <2>5 DEF Accounted
  <2>23. Counted'
    <3>1. \A c \in Chunks : Kept(c) => row.s \in Final \/ <<row.n, c>> \in rows
      BY <1>4, <1>5, <1>8 DEF Kept
    <3>2. row.s \notin Final
      BY <1>14 DEF Final, Resumable
    <3>3. \A c \in Chunks : Owed(c)' => taken[c] < Cap
      <4>1. SUFFICES ASSUME NEW c \in Chunks, Owed(c)' PROVE taken[c] < Cap
        OBVIOUS
      <4>2. <<row.n, c>> \notin rows
        BY <1>2, <1>3, <1>5, <2>11, <4>1 DEF Owed
      <4>3. taken[c] # Cap
        BY <1>2, <3>1, <3>2, <4>2 DEF Sound, Counted
      <4>4. taken[c] <= Cap /\ taken[c] \in Nat /\ Cap \in Nat
        BY <1>1 DEF Sound, Counted, TypeOK, Cap
      <4> QED BY <4>3, <4>4
    <3>4. \A c \in Chunks : taken[c] = Cap => <<row.n, c>> \in rows
      BY <1>2, <3>1, <3>2 DEF Sound, Counted
    <3>5. \A c \in Chunks : <<row.n, c>> \in rows => Kept(c)'
      BY <1>2 DEF Kept
    <3>6. Cap' = Cap
      BY <1>2 DEF Cap
    <3> QED BY <1>2, <1>8, <2>10, <3>3, <3>4, <3>5, <3>6 DEF Sound, Counted
  <2>24. Told'
    <3>1. row.s \notin Final
      BY <1>14 DEF Final, Resumable
    <3> QED BY <1>2, <1>3, <1>5, <2>5, <3>1 DEF Sound, Told, Ended, Resumable
  <2> QED BY <1>11, <2>12, <2>13, <2>14, <2>15, <2>16, <2>17, <2>18, <2>19, <2>20, <2>21, <2>22, <2>23, <2>24 DEF Sound
<1> QED BY <1>13, <1>14
-----------------------------------------------------------------------------
(* A run ends *)

\* The record of the end of a run is queued, behind that of its last chunk if there is one.
LEMMA FinishQueues ==
  ASSUME TypeOK, NEW e \in Records, NEW before,
         before = <<>> \/ \E m \in Records : before = <<m>>,
         records' = records \o before \o <<e>>, buffer' = buffer
  PROVE  /\ records' \in Seq(Records)
         /\ \E last \in Places' : \E N \in SUBSET Places' :
              /\ Places \subseteq Places' /\ last = Len(Pend') /\ last \notin Places /\ last \notin N
              /\ Pend'[last] = e
              /\ \A i \in Places : Pend'[i] = Pend[i] /\ i < last /\ i \notin N
              /\ \A i \in N : before = <<Pend'[i]>> /\ \A j \in Places : j < i
              /\ \A i, j \in N : i = j
              /\ before # <<>> => N # {}
              /\ \A i \in Places' : i \in Places \/ i \in N \/ i = last
<1>1. records \in Seq(Records)
  BY DEF TypeOK, Records
<1>2. CASE before = <<>>
  <2>1. records' = Append(records, e)
    BY <1>1, <1>2, ConcatEmptySeq, AppendIsConcat
  <2>2. records' \in Seq(Records)
    BY <2>1, Queues
  <2>3. PICK last \in Places' :
        /\ Places \subseteq Places' /\ last = Len(Pend') /\ last \notin Places
        /\ Pend'[last] = e
        /\ \A i \in Places : Pend'[i] = Pend[i] /\ i < last
        /\ \A i \in Places' : i \in Places \/ i = last
    BY <2>1, Behind
  <2>4. {} \in SUBSET Places'
    OBVIOUS
  <2> QED BY <1>2, <2>2, <2>3, <2>4
<1>3. CASE \E m \in Records : before = <<m>>
  <2>1. PICK m \in Records : before = <<m>>
    BY <1>3
  <2>2. records' = records \o <<m, e>>
    <3>1. <<m>> \in Seq(Records) /\ <<e>> \in Seq(Records)
      OBVIOUS
    <3>2. Append(<<m>>, e) = <<m>> \o <<e>>
      BY <3>1, AppendIsConcat
    <3>3. Append(<<m>>, e) = <<m, e>>
      <4> DEFINE a == Append(<<m>>, e)
      <4>1. a \in Seq(Records) /\ Len(a) = 2 /\ a[2] = e /\ a[1] = m
        BY <3>1, AppendProperties
      <4>2. <<m, e>> \in Seq(Records) /\ Len(<<m, e>>) = 2 /\ <<m, e>>[1] = m /\ <<m, e>>[2] = e
        OBVIOUS
      <4> HIDE DEF a
      <4>3. \A i \in 1 .. Len(a) : a[i] = <<m, e>>[i]
        BY <4>1, <4>2
      <4>4. a = <<m, e>>
        BY <4>1, <4>2, <4>3, SeqEqual
      <4> QED BY <4>4 DEF a
    <3> QED BY <1>1, <2>1, <3>1, <3>2, <3>3, ConcatAssociative
  <2>3. records' \in Seq(Records)
    BY <2>2, QueuesTwo
  <2>4. PICK l \in Places', last \in Places' :
           /\ Places \subseteq Places' /\ last = Len(Pend') /\ l \notin Places /\ last \notin Places /\ l < last
           /\ Pend'[l] = m /\ Pend'[last] = e
           /\ \A i \in Places : Pend'[i] = Pend[i] /\ i < l
           /\ \A i \in Places' : i \in Places \/ i = l \/ i = last
    BY <2>2, BehindTwo
  <2>5. l # last /\ \A i \in Places : i < last
    <3>1. l \in Int /\ last \in Int /\ Places \subseteq Int
      BY DEF Places
    <3> QED BY <2>4, <3>1
  <2>6. {l} \in SUBSET Places'
    <3>1. \A y \in {l} : y \in Places'
      BY <2>4
    <3> QED BY <3>1
  <2>7. \A i \in {l} : before = <<Pend'[i]>> /\ \A j \in Places : j < i
    BY <2>1, <2>4
  <2> QED BY <2>3, <2>4, <2>5, <2>6, <2>7
<1> QED BY <1>2, <1>3

\* Whoever waits for the end of a run finds it on its way to be announced, and nothing is lost of
\* what the callback took before.
LEMMA FinishedKeeps ==
  ASSUME Sound, Now = "running", NEW s \in Ended, NEW failures \in SUBSET Sour, NEW before,
         Finishes(LastRun, s, failures, before),
         UNCHANGED <<row, rows, buffer, live, broken, writing, flushed, num, next>>,
         UNCHANGED <<closing, at, noted, announced, caller, taken, lapses, lost>>,
         looping' \in BOOLEAN, events' \in Seq(Events), Heard',
         NEW d \in {0, 1},
         \A i \in Answers' : i + d \in Answers /\ events'[i] = events[i + d],
         \A i \in Answers : \/ i - d \in Answers' /\ events'[i - d] = events[i]
                            \/ before = <<Item("chunk", LastRun, events[i].chunk, events[i].ok)>>,
         \/ before = <<>>
         \/ \E i \in Answers : /\ before = <<Item("chunk", LastRun, events[i].chunk, events[i].ok)>>
                               /\ \A j \in Answers' : events'[j].chunk # events[i].chunk,
         s \in Final => broken \/ (Answers' = {} /\ Results = {}),
         s = "completed" => Results = {} /\ \A c \in Chunks : taken[c] > 0 \/ c \in failures
  PROVE  Sound'
<1>1. TypeOK /\ LastRun \in Runs /\ Now = status[LastRun] /\ Number = num[LastRun]
  BY NowTyped DEF Sound
<1>2. /\ status' = [status EXCEPT ![LastRun] = s] /\ claimed' = FALSE
      /\ deliveries' = Append(deliveries, OfRun("announce", LastRun))
      /\ todo' = <<>> /\ out' = {} /\ open' = {} /\ fed' = FALSE /\ skips' = FALSE
      /\ spoilt' = IF s \in Resumable THEN {} ELSE failures
      /\ records' = records \o before \o <<Item("ended", LastRun, "none", s \notin Resumable)>>
  BY DEF Finishes, Deliver
<1>3. LastRun' = LastRun /\ Now' = s /\ Number' = Number
  <2>1. LastRun' = LastRun
    BY <1>1, <1>2, LastRunStays DEF Ended
  <2>2. status'[LastRun] = s /\ LastRun # 0
    BY <1>1, <1>2 DEF TypeOK, Runs
  <2> QED BY <1>1, <2>1, <2>2 DEF Now, Number
<1>4. PICK e \in Records : /\ e.op = "ended" /\ e.run = LastRun /\ e.ok = (s \notin Resumable)
                           /\ records' = records \o before \o <<e>>
  <2> DEFINE it == Item("ended", LastRun, "none", s \notin Resumable)
  <2>1. it \in Records /\ it.op = "ended" /\ it.run = LastRun /\ it.ok = (s \notin Resumable)
    BY <1>1 DEF Item, Records, Items, Runs
  <2> QED BY <1>2, <2>1
<1>5. \A i \in Answers : LET m == Item("chunk", LastRun, events[i].chunk, events[i].ok)
                         IN  m \in Records /\ m.op = "chunk" /\ m.run = LastRun /\ m.chunk = events[i].chunk /\ m.ok = events[i].ok
                             /\ events[i].chunk \in Chunks
  <2>1. SUFFICES ASSUME NEW i \in Answers
                 PROVE  LET m == Item("chunk", LastRun, events[i].chunk, events[i].ok)
                        IN  m \in Records /\ m.op = "chunk" /\ m.run = LastRun /\ m.chunk = events[i].chunk /\ m.ok = events[i].ok
                            /\ events[i].chunk \in Chunks
    OBVIOUS
  <2>2. events[i].chunk \in Chunks
    BY DEF Sound, Heard, Answers
  <2>3. events[i] \in Events
    <3>1. events \in Seq(Events)
      BY <1>1 DEF TypeOK, Events
    <3> QED BY <3>1, ElementOfSeq DEF Answers
  <2>4. events[i].ok \in BOOLEAN
    BY <2>3 DEF Events, Items
  <2> QED BY <1>1, <2>2, <2>4 DEF Item, Records, Items, Runs
<1>6. before = <<>> \/ \E m \in Records : before = <<m>>
  BY <1>5
<1>7. records' \in Seq(Records)
  BY <1>1, <1>4, <1>6, FinishQueues
<1>8. PICK last \in Places', N \in SUBSET Places' :
              /\ Places \subseteq Places' /\ last = Len(Pend') /\ last \notin Places /\ last \notin N
              /\ Pend'[last] = e
              /\ \A i \in Places : Pend'[i] = Pend[i] /\ i < last /\ i \notin N
              /\ \A i \in N : before = <<Pend'[i]>> /\ \A j \in Places : j < i
              /\ \A i, j \in N : i = j
              /\ before # <<>> => N # {}
              /\ \A i \in Places' : i \in Places \/ i \in N \/ i = last
  <2>1. records' = records \o before \o <<e>> /\ buffer' = buffer
    BY <1>4
  <2> QED BY ONLY <1>1, <1>6, <2>1, e \in Records, FinishQueues
\* the record of the last chunk says what the callback answered
<1>9. \A l \in N : \E i \in Answers :
         /\ Pend'[l].op = "chunk" /\ Pend'[l].run = LastRun /\ Pend'[l].chunk = events[i].chunk /\ Pend'[l].ok = events[i].ok
         /\ \A j \in Answers' : events'[j].chunk # events[i].chunk
  <2>1. SUFFICES ASSUME NEW l \in N
                 PROVE  \E i \in Answers :
         /\ Pend'[l].op = "chunk" /\ Pend'[l].run = LastRun /\ Pend'[l].chunk = events[i].chunk /\ Pend'[l].ok = events[i].ok
         /\ \A j \in Answers' : events'[j].chunk # events[i].chunk
    OBVIOUS
  <2>2. before = <<Pend'[l]>>
    BY <1>8
  <2>3. PICK i \in Answers : /\ before = <<Item("chunk", LastRun, events[i].chunk, events[i].ok)>>
                             /\ \A j \in Answers' : events'[j].chunk # events[i].chunk
    BY <2>2
  <2>4. Pend'[l] = Item("chunk", LastRun, events[i].chunk, events[i].ok)
    BY <2>2, <2>3
  <2> QED BY <1>5, <2>3, <2>4
<1>10. \A i \in Answers : \/ i - d \in Answers' /\ events'[i - d] = events[i]
                          \/ \E l \in N : /\ Pend'[l].op = "chunk" /\ Pend'[l].chunk = events[i].chunk
                                          /\ Pend'[l].ok = events[i].ok
  <2>1. SUFFICES ASSUME NEW i \in Answers, before = <<Item("chunk", LastRun, events[i].chunk, events[i].ok)>>
                 PROVE  \E l \in N : /\ Pend'[l].op = "chunk" /\ Pend'[l].chunk = events[i].chunk
                                     /\ Pend'[l].ok = events[i].ok
    OBVIOUS
  <2>2. PICK l \in N : before = <<Pend'[l]>>
    BY <1>8, <2>1
  <2>3. Pend'[l] = Item("chunk", LastRun, events[i].chunk, events[i].ok)
    BY <2>1, <2>2
  <2> QED BY <1>5, <2>3
<1>11. \A i \in Marks' : (i \in Marks /\ Pend'[i] = Pend[i]) \/ i \in N
  BY <1>4, <1>8 DEF Marks
<1>12. (\A i \in Marks : i \in Marks' /\ Pend'[i] = Pend[i]) /\ N \subseteq Marks'
  BY <1>8, <1>9 DEF Marks
<1>13. Waits("ended")' /\ (Waits("job")' <=> Waits("job")) /\ ~Waits("ended")
  <2>1. ~Waits("ended")
    BY DEF Sound, Staged
  <2> QED BY <1>4, <1>8, <1>9, <2>1 DEF Waits
<1>14. PICK x \in Tidings : x = OfRun("announce", LastRun)
  <2>1. OfRun("announce", LastRun) \in Tidings
    BY <1>1, JournalAssumption DEF OfRun, Item, Tidings, Items, Runs
  <2> QED BY <2>1
<1>15. x.op = "announce" /\ x.run = LastRun
  BY <1>14 DEF OfRun, Item
<1>16. deliveries' \in Seq(Tidings) /\ SameResults
  BY <1>1, <1>2, <1>14, <1>15, Delivers, ResultsToldOn
<1>17. PICK end \in 1 .. Len(deliveries') :
         /\ end = Len(deliveries') /\ end \notin 1 .. Len(deliveries) /\ deliveries'[end] = x
         /\ \A i \in 1 .. Len(deliveries) :
              i \in 1 .. Len(deliveries') /\ deliveries'[i] = deliveries[i] /\ i < end
         /\ \A i \in 1 .. Len(deliveries') : i \in 1 .. Len(deliveries) \/ i = end
  <2>1. deliveries' = Append(deliveries, x)
    BY <1>2, <1>14
  <2> QED BY ONLY <1>1, <2>1, x \in Tidings, Delivers
<1>18. Results' = Results /\ \A i \in Results : deliveries'[i] = deliveries[i]
  BY <1>16 DEF SameResults
<1>19. at = Nothing /\ at.op = "nothing" /\ \A i \in 1 .. Len(deliveries) : deliveries[i].op = "result"
  BY DEF Sound, Staged, Nothing, Bare, Item
<1>20. LastRun \notin announced /\ ~Quiet /\ ~Quiet'
  <2>1. LastRun \notin announced
    BY <1>1 DEF Sound, RunsInOrder, Ended
  <2> QED BY <2>1, <1>3 DEF Quiet, Ended
<1>21. claimed /\ caller = "idle" /\ looping
  <2>1. Active
    BY DEF Active
  <2> QED BY <2>1, <1>1, <1>20 DEF Sound, Claims, Heard, TypeOK
<1>22. ~Waits("end") /\ writing /\ "caller" \notin flushed /\ "delivery" \notin flushed
  BY <1>19, <1>21 DEF Sound, Flushing
<1>23. \A i \in Places : Pend[i].op \notin {"end", "discard"} /\ ~IsFlush(Pend[i], "caller") /\ ~IsFlush(Pend[i], "delivery")
  BY <1>19, <1>21, <1>22 DEF Sound, Queued, Waits
<1>24. \A i \in Places' : Pend'[i].op \notin {"end", "discard"} /\ ~IsFlush(Pend'[i], "caller") /\ ~IsFlush(Pend'[i], "delivery")
  BY <1>4, <1>8, <1>9, <1>23 DEF IsFlush
<1>t. TypeOK'
  <2>1. status' \in [Runs -> {"new", "submitted", "running", "gone"} \cup Ended]
    BY <1>1, <1>2 DEF TypeOK
  <2>2. spoilt' \subseteq Sour /\ todo' \in Seq(Chunks)
    BY <1>2, EmptySeq
  <2>3. out' = {} /\ open' = {} /\ fed' = FALSE /\ skips' = FALSE /\ claimed' = FALSE
    BY <1>2
  <2>4. /\ UNCHANGED <<row, rows, buffer, live, broken, writing, flushed, num, next>>
        /\ UNCHANGED <<closing, at, noted, announced, caller, taken, lapses, lost>>
        /\ looping' \in BOOLEAN /\ events' \in Seq(Events)
    OBVIOUS
  <2>5. records' \in Seq(Records) /\ deliveries' \in Seq(Tidings)
    BY <1>7, <1>16
  <2>6. out' \subseteq open' /\ open' \subseteq Chunks /\ fed' \in BOOLEAN /\ skips' \in BOOLEAN /\ claimed' \in BOOLEAN
    BY <2>3
  <2> QED BY ONLY <1>1, <2>1, <2>2, <2>4, <2>5, <2>6 DEF TypeOK, Events, Records, Tidings
<1>25. RunsInOrder'
  BY <1>1, <1>2, <1>3, <1>20 DEF Sound, RunsInOrder, TypeOK, Ended
<1>26. Numbered'
  BY <1>3, <1>20 DEF Sound, Numbered, Ended
<1>27. Claims'
  BY <1>2, <1>3, <1>21 DEF Claims, Active, Ended
<1>28. Staged'
  <2>1. Waits("job") \/ (live = LastRun /\ row.n = Number)
    BY DEF Sound, Staged
  <2>2. /\ deliveries' # <<>>
        /\ \A i \in 1 .. Len(deliveries') : deliveries'[i].op = "announce" <=> i = Len(deliveries')
        /\ deliveries'[Len(deliveries')].run = LastRun
    BY <1>15, <1>17, <1>19
  <2>3. \A i \in Results' : deliveries'[i].run = LastRun /\ deliveries'[i].chunk \in Chunks
    BY <1>18 DEF Sound, Staged
  <2>4. live # 0 => live = LastRun /\ ~Waits("job") /\ row.n = Number
    BY DEF Sound, Staged
  <2> QED BY <1>2, <1>3, <1>13, <1>19, <1>20, <2>1, <2>2, <2>3, <2>4 DEF Staged, Ended
<1>29. Queued'
  <2>1. \A i \in Places' :
       /\ Pend'[i].op \in OfJob => Pend'[i].run = LastRun
       /\ Pend'[i].op = "chunk" => Pend'[i].chunk \in Chunks
       /\ Pend'[i].op = "ended" => i = last
    <3>1. \A i \in Places : Pend[i].op # "ended"
      BY <1>13 DEF Waits
    <3>2. \A i \in Places : /\ Pend[i].op \in OfJob => Pend[i].run = LastRun
                            /\ Pend[i].op = "chunk" => Pend[i].chunk \in Chunks
      BY DEF Sound, Queued
    <3>3. \A i \in N : Pend'[i].op = "chunk" /\ Pend'[i].run = LastRun /\ Pend'[i].chunk \in Chunks
      BY <1>5, <1>9
    <3> QED BY ONLY <1>4, <1>8, <3>1, <3>2, <3>3
  <2>2. \A i, j \in Places' : Pend'[i].op = "job" /\ Pend'[j].op \in OfJob => i <= j
    <3>1. SUFFICES ASSUME NEW i \in Places', NEW j \in Places', Pend'[i].op = "job", Pend'[j].op \in OfJob PROVE i <= j
      OBVIOUS
    <3>2. i \in Places /\ Pend[i].op = "job"
      BY <1>4, <1>8, <1>9, <3>1
    <3>3. i \in Int /\ j \in Int
      BY DEF Places
    <3>4. CASE j \in Places
      BY <1>8, <3>1, <3>2, <3>4 DEF Sound, Queued
    <3>5. CASE j \notin Places
      <4>1. i < j
        BY <1>8, <3>2, <3>5
      <4> QED BY <4>1, <3>3
    <3> QED BY <3>4, <3>5
  <2>3. Waits("job") \/ row.n = Number
    BY DEF Sound, Staged
  <2>4. Waits("job") => row.n \in {0, Number}
    BY DEF Sound, Queued
  <2> QED BY <1>3, <1>4, <1>8, <1>13, <1>24, <2>1, <2>2, <2>3, <2>4 DEF Queued, Ended
<1>30. Flushing'
  BY <1>19, <1>22, <1>24 DEF Flushing, Waits
<1>31. Late'
  BY <1>3, <1>18, <1>19, <1>20 DEF Late
<1>32. Apart'
  <2>1. \A i, j \in Answers' : events'[i].chunk = events'[j].chunk => i = j
    <3>1. SUFFICES ASSUME NEW i \in Answers', NEW j \in Answers', events'[i].chunk = events'[j].chunk PROVE i = j
      OBVIOUS
    <3>2. i + d = j + d
      BY <3>1 DEF Sound, Apart
    <3>3. i \in Int /\ j \in Int
      BY DEF Answers
    <3> QED BY <3>2, <3>3
  <2>2. \A i, j \in Marks' : Pend'[i].chunk = Pend'[j].chunk => i = j
    <3>1. \A i \in Marks, l \in N : Pend'[l].chunk # Pend[i].chunk
      BY <1>9 DEF Sound, Apart
    <3>2. \A i, j \in Marks : Pend[i].chunk = Pend[j].chunk => i = j
      BY DEF Sound, Apart
    <3> QED BY <1>8, <1>11, <3>1, <3>2
  <2>3. \A i \in Results' : \A j \in Answers' : events'[j].chunk # deliveries'[i].chunk
    BY <1>18 DEF Sound, Apart
  <2>4. \A i \in Results' : \A j \in Marks' : Pend'[j].chunk # deliveries'[i].chunk
    BY <1>9, <1>11, <1>18 DEF Sound, Apart
  <2>5. \A i \in Answers' : \A j \in Marks' : Pend'[j].chunk # events'[i].chunk
    <3>1. SUFFICES ASSUME NEW i \in Answers', NEW j \in Marks' PROVE Pend'[j].chunk # events'[i].chunk
      OBVIOUS
    <3>2. CASE j \in N
      BY <1>9, <3>2
    <3>3. CASE j \notin N
      BY <1>11, <3>3 DEF Sound, Apart
    <3> QED BY <3>2, <3>3
  <2>6. \A i, j \in Results' : deliveries'[i].chunk = deliveries'[j].chunk => i = j
    BY <1>18 DEF Sound, Apart
  <2>7. 1 .. Len(todo') = {} /\ out' = {}
    BY <1>2
  <2> QED BY ONLY <2>1, <2>2, <2>3, <2>4, <2>5, <2>6, <2>7 DEF Apart
<1>33. Unrecorded'
  <2>1. \A i \in Results' : <<Number, deliveries'[i].chunk>> \notin rows
    BY <1>18 DEF Sound, Unrecorded
  <2>2. \A i \in Answers' : <<Number, events'[i].chunk>> \notin rows
    BY DEF Sound, Unrecorded
  <2>3. \A i \in Marks' : <<Number, Pend'[i].chunk>> \notin rows
    BY <1>9, <1>11 DEF Sound, Unrecorded
  <2>4. Waits("job")' \/ row.n = Number
    BY <1>13 DEF Sound, Staged
  <2> QED BY <1>2, <1>3, <2>1, <2>2, <2>3, <2>4 DEF Unrecorded, Ended
<1>34. Accounted'
  BY <1>3 DEF Accounted, Ended
<1>35. Counted'
  <2>1. \A c \in Chunks : Owed(c)' => Owed(c)
    <3>1. 1 .. Len(todo') = {} /\ out' = {}
      BY <1>2
    <3> QED BY <1>3, <1>18, <3>1 DEF Owed, Ended
  <2>2. \A c \in Chunks : Kept(c) => Kept(c)'
    <3>1. SUFFICES ASSUME NEW c \in Chunks, Kept(c) PROVE Kept(c)'
      OBVIOUS
    <3>2. CASE \E i \in Answers : events[i].chunk = c /\ events[i].ok
      BY <1>10, <1>12, <3>2 DEF Kept
    <3>3. CASE \E i \in Marks : Pend[i].chunk = c /\ Pend[i].ok
      BY <1>12, <3>3 DEF Kept
    <3>4. CASE row.s \in Final \/ <<row.n, c>> \in rows
      BY <3>4 DEF Kept
    <3> QED BY <1>13, <3>1, <3>2, <3>3, <3>4 DEF Kept
  <2>3. Cap' = Cap
    BY DEF Cap
  <2>4. \A i \in Answers : events[i].ok => taken[events[i].chunk] > 0
    BY DEF Sound, Counted
  <2>5. \A i \in Answers' : events'[i].ok => taken[events'[i].chunk] > 0
    BY <2>4
  <2>6. \A i \in Marks' : Pend'[i].ok => taken[Pend'[i].chunk] > 0
    BY <1>9, <1>11, <2>4 DEF Sound, Counted
  <2> QED BY <2>1, <2>2, <2>3, <2>5, <2>6 DEF Sound, Counted
<1>36. Told'
  <2>1. row.s \notin Final
    BY DEF Sound, Told, Active, Final
  <2>2. s = "completed" => Results' = {} /\ \A c \in Chunks : taken[c] > 0 \/ c \in spoilt'
    BY <1>2, <1>16 DEF Resumable, SameResults
  <2>3. s # "none"
    BY DEF Ended
  <2> QED BY <1>2, <1>3, <1>13, <2>1, <2>2, <2>3 DEF Sound, Told, Final
<1> QED BY <1>t, <1>25, <1>26, <1>27, <1>28, <1>29, <1>30, <1>31, <1>32, <1>33, <1>34, <1>35, <1>36 DEF Sound

\* The run that ends stays the last one.
LEMMA RunEnds ==
  ASSUME Sound, Now = "running", NEW s \in Ended, num' = num,
         status' = [status EXCEPT ![LastRun] = s]
  PROVE  LastRun' = LastRun /\ Now' = s /\ Number' = Number
<1>1. TypeOK /\ LastRun \in Runs /\ Now = status[LastRun] /\ Number = num[LastRun]
  BY NowTyped DEF Sound
<1>2. LastRun' = LastRun
  BY <1>1, LastRunStays DEF Ended
<1>3. status'[LastRun] = s /\ LastRun # 0
  BY <1>1 DEF TypeOK, Runs
<1> QED BY <1>1, <1>2, <1>3 DEF Now, Number

\* What waits for the loop is still in order once the run ended.
LEMMA HeardAtEnd ==
  ASSUME Sound, Now = "running", Now' \in Ended, LastRun' = LastRun, UNCHANGED <<closing, at, noted>>,
         events' = events \/ \E op \in {"cancel", "close", "delivered"} : Hears(op),
         looping' = looping \/ (closing /\ looping' = FALSE)
  PROVE  Heard'
<1>1. TypeOK
  BY DEF Sound
<1>2. looping /\ at = Nothing
  BY DEF Sound, Heard, Staged, Active
<1>3. at.op # "noting" /\ ~noted
  BY <1>2 DEF Nothing, Bare, Item, Sound, Heard
<1>4. \A i \in 1 .. Len(events) :
         /\ events[i].op \notin {"submit", "noted"}
         /\ events[i].op = "cancel" => events[i].run \in 1 .. LastRun
         /\ events[i].op = "close" => closing
         /\ events[i].op = "delivered" =>
              events[i].run = LastRun /\ events[i].chunk \in Chunks /\ (events[i].ok \/ events[i].chunk \in Sour)
  BY <1>2, <1>3 DEF Sound, Heard
<1>5. \A i \in 1 .. Len(events') : \E k \in 1 .. Len(events) : events'[i] = events[k]
  <2>1. CASE events' = events
    BY <2>1
  <2>2. CASE \E op \in {"cancel", "close", "delivered"} : Hears(op)
    <3>1. PICK op \in {"cancel", "close", "delivered"} : Hears(op)
      BY <2>2
    <3>2. \A i \in 1 .. Len(events') : i + 1 \in 1 .. Len(events) /\ events'[i] = events[i + 1]
      BY <1>1, <3>1, Hearing
    <3> QED BY <3>2
  <2> QED BY <2>1, <2>2
<1>6. \A i \in 1 .. Len(events') :
         /\ events'[i].op \notin {"submit", "noted"}
         /\ events'[i].op = "cancel" => events'[i].run \in 1 .. LastRun
         /\ events'[i].op = "close" => closing
         /\ events'[i].op = "delivered" =>
              events'[i].run = LastRun /\ events'[i].chunk \in Chunks /\ (events'[i].ok \/ events'[i].chunk \in Sour)
  BY <1>4, <1>5
<1>7. ~looping' => closing
  BY <1>2
<1> QED BY <1>3, <1>6, <1>7 DEF Heard, Active, Ended

LEMMA SourceEndsKeeps ==
  ASSUME Sound, SourceEnds
  PROVE  Sound'
<1>1. TypeOK
  BY DEF Sound
<1>2. /\ UNCHANGED <<row, rows, buffer, live, broken, writing, flushed, num, next>>
      /\ UNCHANGED <<closing, at, noted, announced, caller, taken, lapses, lost>>
      /\ events' = events /\ looping' = looping /\ looping /\ todo = <<>> /\ ~fed
  BY DEF SourceEnds, others, ofWriter, disk, ghosts
<1>3. Now = "running"
  BY DEF SourceEnds, Running, Now
<1>4. CASE Over(TRUE, open) /\ Finishes(LastRun, StatusWith(spoilt), spoilt, <<>>)
  <2>1. open = {}
    BY <1>4 DEF Over
  <2>2. PICK s \in Ended : s = StatusWith(spoilt)
    <3>1. StatusWith(spoilt) \in Ended
      BY DEF StatusWith, Ended
    <3> QED BY <3>1
  <2>3. spoilt \in SUBSET Sour
    BY <1>1 DEF TypeOK
  <2>4. Finishes(LastRun, s, spoilt, <<>>)
    BY <1>4, <2>2
  <2>5. Answers = {} /\ Results = {} /\ Answers' = {}
    <3>1. Answers = {} /\ Results = {}
      BY <1>3, <2>1 DEF Sound, Accounted
    <3> QED BY <3>1, <1>2 DEF Answers
  <2>6. \A c \in Chunks : taken[c] > 0 \/ c \in spoilt
    <3>1. 1 .. Len(todo) = {}
      BY <1>2
    <3> QED BY <1>3, <2>1, <3>1 DEF Sound, Accounted
  <2>7. LastRun' = LastRun /\ Now' = s
    BY <1>2, <1>3, <2>4, RunEnds DEF Finishes
  <2>8. Heard'
    BY <1>2, <1>3, <2>7, HeardAtEnd
  <2>9. looping' \in BOOLEAN /\ events' \in Seq(Events)
    BY <1>1, <1>2 DEF TypeOK, Events
  <2>10. 0 \in {0, 1}
    OBVIOUS
  <2>11. /\ \A i \in Answers' : i + 0 \in Answers /\ events'[i] = events[i + 0]
         /\ \A i \in Answers : \/ i - 0 \in Answers' /\ events'[i - 0] = events[i]
                               \/ <<>> = <<Item("chunk", LastRun, events[i].chunk, events[i].ok)>>
    BY <2>5
  <2> QED BY <1>2, <1>3, <2>3, <2>4, <2>5, <2>6, <2>8, <2>9, <2>10, <2>11, FinishedKeeps
<1>5. CASE /\ fed' = TRUE
           /\ UNCHANGED <<status, records, claimed, deliveries, skips, todo, out, open, spoilt>>
  <2>1. UNCHANGED <<LastRun, Now, Number, Pend>> /\ SameWork /\ SameAnswers /\ SameResults
    BY <1>2, <1>5, RunStays, PendStays, WorkStays, NewsStays
  <2>2. TypeOK'
    BY <1>1, <1>2, <1>5 DEF TypeOK
  <2>3. RunsInOrder' /\ Numbered' /\ Claims' /\ Heard' /\ Queued' /\ Flushing' /\ Late'
    BY <1>2, <1>5, <2>1, RunsInOrderStays, NumberedStays, ClaimsStays, HeardStays, QueuedStays, FlushingStays, LateStays
       DEF Sound
  <2>4. Apart' /\ Unrecorded' /\ Counted' /\ Told'
    BY <1>2, <1>5, <2>1, ApartStays, UnrecordedStays, CountedStays, ToldStays DEF Sound
  <2>5. Staged'
    BY <1>2, <1>3, <1>5, <2>1 DEF Sound, Staged, Quiet, Waits, Places, Results
  <2>6. Accounted'
    BY <1>2, <1>3, <1>5, <2>1 DEF Sound, Accounted, Answers, Results
  <2> QED BY <2>2, <2>3, <2>4, <2>5, <2>6 DEF Sound
<1> QED BY <1>4, <1>5 DEF SourceEnds

LEMMA StopBrokenKeeps ==
  ASSUME Sound, StopBroken
  PROVE  Sound'
<1>1. TypeOK
  BY DEF Sound
<1>2. /\ UNCHANGED <<row, rows, buffer, live, broken, writing, flushed, num, next>>
      /\ UNCHANGED <<closing, at, noted, announced, caller, taken, lapses, lost>>
      /\ events' = events /\ looping' = looping /\ broken
      /\ Finishes(LastRun, "failed", spoilt, <<>>)
  BY DEF StopBroken, others, ofWriter, disk, ghosts
<1>3. Now = "running"
  BY DEF StopBroken, Running, Now
<1>4. "failed" \in Ended /\ spoilt \in SUBSET Sour
  BY <1>1 DEF Ended, TypeOK
<1>5. LastRun' = LastRun /\ Now' = "failed"
  BY <1>2, <1>3, <1>4, RunEnds DEF Finishes
<1>6. Heard'
  BY <1>2, <1>3, <1>4, <1>5, HeardAtEnd
<1>7. looping' \in BOOLEAN /\ events' \in Seq(Events) /\ Answers' = Answers
  BY <1>1, <1>2 DEF TypeOK, Events, Answers
<1>8. \A i \in Answers : i + 0 = i /\ i - 0 = i
  BY DEF Answers
<1>9. 0 \in {0, 1}
  OBVIOUS
<1>10. /\ \A i \in Answers' : i + 0 \in Answers /\ events'[i] = events[i + 0]
       /\ \A i \in Answers : \/ i - 0 \in Answers' /\ events'[i - 0] = events[i]
                             \/ <<>> = <<Item("chunk", LastRun, events[i].chunk, events[i].ok)>>
  BY <1>2, <1>7, <1>8
<1> QED BY <1>2, <1>3, <1>4, <1>6, <1>7, <1>9, <1>10, FinishedKeeps

\* The loop hears something that says nothing of the run.
LEMMA DroppedKeeps ==
  ASSUME Sound, NEW op \in {"cancel", "close"}, Hears(op),
         UNCHANGED <<row, rows, records, buffer, live, broken, writing, flushed, status, num, next, claimed>>,
         UNCHANGED <<skips, todo, fed, out, open, spoilt, closing, deliveries, at, noted>>,
         UNCHANGED <<announced, caller, taken, lapses, lost>>,
         looping' = looping \/ (looping' = FALSE /\ op = "close" /\ Now # "running")
  PROVE  Sound'
<1>1. TypeOK
  BY DEF Sound
<1>3. UNCHANGED <<LastRun, Now, Number, Pend>> /\ SameWork
  BY RunStays, PendStays, WorkStays
<1>4. /\ looping /\ events # <<>> /\ 1 \in 1 .. Len(events) /\ Head(events) = events[1] /\ events[1].op = op
      /\ events' \in Seq(Events) /\ events' = Tail(events)
      /\ \A i \in 1 .. Len(events') : i + 1 \in 1 .. Len(events) /\ i + 1 # 1 /\ events'[i] = events[i + 1]
      /\ \A i \in 1 .. Len(events) : i = 1 \/ (i - 1 \in 1 .. Len(events') /\ events'[i - 1] = events[i])
  BY <1>1, Hearing
<1>5. SameAnswers /\ SameResults
  BY <1>1, <1>4, AnswersMoveUp DEF SameResults, Results
<1>6. Answers = {} => Answers' = {}
  BY <1>5 DEF SameAnswers
<1>7. looping' \in BOOLEAN /\ (looping' => looping) /\ (~looping' => closing /\ op = "close" /\ Now # "running")
  BY <1>1, <1>4 DEF TypeOK, Sound, Heard
\* the loop ends only where no run is on, and no submission waits behind the end
<1>8. ~looping' => ~Active
  <2>1. SUFFICES ASSUME Now = "submitted", op = "close" PROVE FALSE
    BY <1>7 DEF Active
  <2>2. PICK i \in 1 .. Len(events) : events[i].op = "submit"
    BY <2>1 DEF Sound, Heard
  <2>3. i > 1
    BY <1>4, <2>1, <2>2
  <2> QED BY <1>4, <2>1, <2>2, <2>3 DEF Sound, Heard
<1>9. ~looping' => ~Waits("discard")
  BY <1>7 DEF Sound, Queued, Claims, Waits
<1>10. ~Waits("end") /\ writing
  BY <1>4 DEF Sound, Flushing
<1>t. TypeOK'
  BY <1>1, <1>4, <1>7 DEF TypeOK, Events
<1>12. RunsInOrder' /\ Numbered' /\ Claims'
  BY <1>3, <1>5, RunsInOrderStays, NumberedStays, ClaimsStays DEF Sound
<1>13. Apart' /\ Unrecorded' /\ Accounted' /\ Counted' /\ Told'
  BY <1>3, <1>5, ApartStays, UnrecordedStays, AccountedStays, CountedStays, ToldStays DEF Sound
<1>14. Heard'
  <2>1. \A i \in 1 .. Len(events') :
       /\ events'[i].op = "submit" => events'[i].run = LastRun /\ Now = "submitted"
       /\ events'[i].op = "cancel" => events'[i].run \in 1 .. LastRun
       /\ events'[i].op = "close" => closing
       /\ events'[i].op = "delivered" =>
            events'[i].run = LastRun /\ Now \notin {"none", "gone"} /\ events'[i].chunk \in Chunks
            /\ (events'[i].ok \/ events'[i].chunk \in Sour)
       /\ events'[i].op = "noted" /\ looping => at.op = "noting" /\ ~noted
    BY <1>4 DEF Sound, Heard
  <2>2. \A i, j \in 1 .. Len(events') :
       /\ events'[i].op = "close" /\ j > i => events'[j].op # "submit"
       /\ events'[i].op = "submit" /\ events'[j].op = "submit" => i = j
       /\ events'[i].op = "noted" /\ events'[j].op = "noted" /\ looping => i = j
    BY HeardInOrder
  <2>3. Now = "submitted" => looping' /\ Answers' = {} /\ \E i \in 1 .. Len(events') : events'[i].op = "submit"
    <3>1. SUFFICES ASSUME Now = "submitted" PROVE looping' /\ Answers' = {} /\ \E i \in 1 .. Len(events') : events'[i].op = "submit"
      OBVIOUS
    <3>2. PICK i \in 1 .. Len(events) : events[i].op = "submit"
      BY <3>1 DEF Sound, Heard
    <3>3. i - 1 \in 1 .. Len(events') /\ events'[i - 1] = events[i]
      BY <1>4, <3>2
    <3>4. Answers = {}
      BY <3>1 DEF Sound, Heard
    <3> QED BY <1>6, <1>7, <1>8, <3>1, <3>2, <3>3, <3>4 DEF Active
  <2>4. ~looping' => closing /\ ~Active
    BY <1>7, <1>8
  <2>5. noted => at.op = "noting"
    BY DEF Sound, Heard
  <2>6. Active' <=> Active
    BY <1>3 DEF Active
  <2> QED BY <1>3, <1>7, <2>1, <2>2, <2>3, <2>4, <2>5, <2>6 DEF Heard
<1>15. Staged'
  <2>1. \A o \in OfJob : Waits(o)' <=> Waits(o)
    BY <1>3 DEF SameWork
  <2> QED BY <1>3, <1>7, <2>1 DEF Sound, Staged, Quiet, Results, OfJob
<1>16. Queued'
  <2>1. \A i \in Places : Pend[i].op = "discard" => looping'
    BY <1>7, <1>9 DEF Waits
  <2> QED BY <1>3, <2>1 DEF Sound, Queued, Waits, Places, IsFlush
<1>17. Flushing'
  BY <1>3, <1>10 DEF Sound, Flushing, Waits, Places, IsFlush
<1>18. Late'
  <2>1. at.op = "noting" /\ looping' =>
       \/ noted /\ Answers' = {}
       \/ ~noted /\ \E i \in 1 .. Len(events') : events'[i].op = "noted" /\ \A j \in Answers' : j < i
    <3>1. SUFFICES ASSUME at.op = "noting", ~(noted /\ Answers = {})
                   PROVE  ~noted /\ \E i \in 1 .. Len(events') : events'[i].op = "noted" /\ \A j \in Answers' : j < i
      BY <1>6
    <3>2. ~noted
      BY <1>4, <3>1 DEF Sound, Late
    <3>3. PICK i \in 1 .. Len(events) : events[i].op = "noted" /\ \A j \in Answers : j < i
      BY <1>4, <3>1 DEF Sound, Late
    <3>4. i - 1 \in 1 .. Len(events') /\ events'[i - 1] = events[i]
      BY <1>4, <3>3
    <3>5. \A j \in Answers' : j + 1 \in Answers
      BY <1>4 DEF Answers
    <3>6. \A j \in Answers' : j \in Int
      BY DEF Answers
    <3>7. \A j \in Answers' : j < i - 1
      <4>1. \A j \in Int : j + 1 < i => j < i - 1
        OBVIOUS
      <4> QED BY <3>3, <3>5, <3>6, <4>1
    <3> QED BY <3>2, <3>3, <3>4, <3>7
  <2>2. Now \in Final /\ Answers' \cup Results' # {} => broken
    BY <1>6 DEF Sound, Late, Results
  <2> QED BY <1>3, <1>6, <1>7, <2>1, <2>2 DEF Sound, Late
<1> QED BY <1>t, <1>12, <1>13, <1>14, <1>15, <1>16, <1>17, <1>18 DEF Sound

\* The loop hears that a run that is on is to be stopped.
LEMMA StoppedKeeps ==
  ASSUME Sound, NEW op \in {"cancel", "close"}, Hears(op), NEW r \in Runs, Running(r),
         NEW s \in Resumable, Finishes(r, s, {}, <<>>),
         UNCHANGED <<row, rows, buffer, live, broken, writing, flushed, num, next>>,
         UNCHANGED <<closing, at, noted, announced, caller, taken, lapses, lost>>,
         looping' = looping \/ (looping' = FALSE /\ op = "close")
  PROVE  Sound'
<1>1. TypeOK
  BY DEF Sound
<1>2. LastRun \in Runs /\ r = LastRun /\ Now = "running"
  BY RunningIsLast
<1>3. /\ looping /\ events # <<>> /\ 1 \in 1 .. Len(events) /\ Head(events) = events[1] /\ events[1].op = op
      /\ events' \in Seq(Events) /\ events' = Tail(events)
      /\ \A i \in 1 .. Len(events') : i + 1 \in 1 .. Len(events) /\ i + 1 # 1 /\ events'[i] = events[i + 1]
      /\ \A i \in 1 .. Len(events) : i = 1 \/ (i - 1 \in 1 .. Len(events') /\ events'[i - 1] = events[i])
  BY <1>1, Hearing
<1>4. s \in Ended /\ s \notin Final /\ s # "completed"
  BY DEF Resumable, Ended, Final
<1>5. LastRun' = LastRun /\ Now' = s
  BY <1>2, <1>4, RunEnds DEF Finishes
<1>6. looping' = looping \/ (closing /\ looping' = FALSE)
  BY <1>3 DEF Sound, Heard
<1>7. Heard'
  <2>1. op \in {"cancel", "close", "delivered"}
    OBVIOUS
  <2> QED BY <1>2, <1>4, <1>5, <1>6, <2>1, HeardAtEnd
<1>8. looping' \in BOOLEAN /\ events' \in Seq(Events) /\ {} \in SUBSET Sour
  BY <1>1, <1>3, <1>6 DEF TypeOK
<1>9. 1 \in {0, 1}
  OBVIOUS
<1>10. /\ \A i \in Answers' : i + 1 \in Answers /\ events'[i] = events[i + 1]
       /\ \A i \in Answers : \/ i - 1 \in Answers' /\ events'[i - 1] = events[i]
                             \/ <<>> = <<Item("chunk", LastRun, events[i].chunk, events[i].ok)>>
  BY <1>3 DEF Answers
<1>11. Finishes(LastRun, s, {}, <<>>)
  BY <1>2
<1> QED BY <1>2, <1>4, <1>7, <1>8, <1>9, <1>10, <1>11, FinishedKeeps

LEMMA OnCancelKeeps ==
  ASSUME Sound, OnCancel
  PROVE  Sound'
<1>1. TypeOK
  BY DEF Sound
<1>2. /\ UNCHANGED <<row, rows, buffer, live, broken, writing, flushed, num, next>>
      /\ UNCHANGED <<looping, closing, at, noted, announced, caller, taken, lapses, lost>>
      /\ Hears("cancel")
  BY DEF OnCancel, others, ofWriter, disk, ghosts
<1>3. Head(events) = events[1] /\ 1 \in 1 .. Len(events) /\ events[1].op = "cancel"
  BY <1>1, <1>2, Hearing
<1>4. Head(events).run \in Runs
  <2>1. events[1].run \in 1 .. LastRun
    BY <1>3 DEF Sound, Heard
  <2>2. LastRun \in 0 .. RunsMax /\ RunsMax \in Nat
    BY NowTyped, JournalAssumption
  <2> QED BY <1>3, <2>1, <2>2 DEF Runs
<1>5. CASE Running(Head(events).run) /\ Finishes(Head(events).run, "canceled", {}, <<>>)
  BY <1>2, <1>4, <1>5, StoppedKeeps DEF Resumable
<1>6. CASE UNCHANGED <<status, records, claimed, deliveries, work>>
  BY <1>2, <1>6, DroppedKeeps DEF work
<1> QED BY <1>5, <1>6 DEF OnCancel

LEMMA OnCloseKeeps ==
  ASSUME Sound, OnClose
  PROVE  Sound'
<1>2. /\ UNCHANGED <<row, rows, buffer, live, broken, writing, flushed, num, next>>
      /\ UNCHANGED <<closing, at, noted, announced, caller, taken, lapses, lost>>
      /\ Hears("close") /\ looping' = FALSE
  BY DEF OnClose, others, ofWriter, disk, ghosts
<1>3. CASE \E r \in Runs : Running(r) /\ Finishes(r, "interrupted", {}, <<>>)
  BY <1>2, <1>3, StoppedKeeps DEF Resumable
<1>4. CASE (~\E r \in Runs : Running(r)) /\ UNCHANGED <<status, records, claimed, deliveries, work>>
  <2>1. Now # "running"
    BY <1>4, NowTyped DEF Running
  <2> QED BY <1>2, <1>4, <2>1, DroppedKeeps DEF work
<1> QED BY <1>3, <1>4 DEF OnClose
-----------------------------------------------------------------------------
(* The loop hears what the callback answered *)

LEMMA Answered ==
  ASSUME Sound, Hears("delivered")
  PROVE  /\ looping /\ 1 \in 1 .. Len(events) /\ Head(events) = events[1] /\ events' \in Seq(Events)
         /\ events[1].run = LastRun /\ events[1].chunk \in Chunks /\ events[1].ok \in BOOLEAN
         /\ events[1].ok \/ events[1].chunk \in Sour
         /\ Now \in {"running"} \cup Ended /\ LastRun \in Runs /\ Now = status[LastRun]
         /\ Now \in Resumable => ~Quiet
         /\ 1 \in Answers /\ caller # "claiming"
         /\ \A i \in Answers' : i + 1 \in Answers /\ i + 1 # 1 /\ events'[i] = events[i + 1]
         /\ \A i \in Answers : i = 1 \/ (i - 1 \in Answers' /\ events'[i - 1] = events[i])
         /\ \A i \in Answers' : events'[i].chunk # events[1].chunk
<1>1. TypeOK
  BY DEF Sound
<1>2. /\ looping /\ 1 \in 1 .. Len(events) /\ Head(events) = events[1] /\ events[1].op = "delivered"
      /\ events[1] \in Events /\ events' \in Seq(Events)
      /\ \A i \in 1 .. Len(events') : i + 1 \in 1 .. Len(events) /\ i + 1 # 1 /\ events'[i] = events[i + 1]
      /\ \A i \in 1 .. Len(events) : i = 1 \/ (i - 1 \in 1 .. Len(events') /\ events'[i - 1] = events[i])
  BY <1>1, Hearing
<1>3. 1 \in Answers
  BY <1>2 DEF Answers
<1>4. /\ events[1].run = LastRun /\ events[1].chunk \in Chunks /\ (events[1].ok \/ events[1].chunk \in Sour)
      /\ Now \notin {"none", "gone"} /\ Now # "submitted"
  BY <1>2, <1>3 DEF Sound, Heard
<1>5. events[1].ok \in BOOLEAN
  BY <1>2 DEF Events, Items
<1>6. Now \in {"running"} \cup Ended /\ LastRun \in Runs /\ Now = status[LastRun]
  BY <1>4, NowTyped
<1>7. Now \in Resumable => ~Quiet
  BY <1>2, <1>3, <1>4 DEF Sound, Late, Quiet
<1>8. caller # "claiming"
  BY <1>3 DEF Sound, Claims
<1>9. /\ \A i \in Answers' : i + 1 \in Answers /\ i + 1 # 1 /\ events'[i] = events[i + 1]
      /\ \A i \in Answers : i = 1 \/ (i - 1 \in Answers' /\ events'[i - 1] = events[i])
  BY <1>2 DEF Answers
<1>10. \A i \in Answers' : events'[i].chunk # events[1].chunk
  BY <1>3, <1>9 DEF Sound, Apart
<1> QED BY <1>2, <1>3, <1>4, <1>5, <1>6, <1>7, <1>8, <1>9, <1>10

\* What is left to be heard, and what `_announce` waits for, once an answer was heard.
LEMMA HeardOn ==
  ASSUME Sound, Hears("delivered"), UNCHANGED <<looping, closing, at, noted, LastRun, Now>>
  PROVE  /\ Heard'
         /\ at.op = "noting" /\ looping =>
              \/ noted /\ Answers' = {}
              \/ ~noted /\ \E i \in 1 .. Len(events') : events'[i].op = "noted" /\ \A j \in Answers' : j < i
<1>1. TypeOK
  BY DEF Sound
<1>2. /\ looping /\ 1 \in 1 .. Len(events) /\ Head(events) = events[1] /\ events[1].op = "delivered"
      /\ events[1] \in Events /\ events' \in Seq(Events)
      /\ \A i \in 1 .. Len(events') : i + 1 \in 1 .. Len(events) /\ i + 1 # 1 /\ events'[i] = events[i + 1]
      /\ \A i \in 1 .. Len(events) : i = 1 \/ (i - 1 \in 1 .. Len(events') /\ events'[i - 1] = events[i])
  BY <1>1, Hearing
<1>3. 1 \in Answers /\ Now # "submitted"
  BY <1>2 DEF Answers, Sound, Heard
<1>4. Heard'
  <2>1. \A i \in 1 .. Len(events') :
       /\ events'[i].op = "submit" => events'[i].run = LastRun /\ Now = "submitted"
       /\ events'[i].op = "cancel" => events'[i].run \in 1 .. LastRun
       /\ events'[i].op = "close" => closing
       /\ events'[i].op = "delivered" =>
            events'[i].run = LastRun /\ Now \notin {"none", "gone"} /\ events'[i].chunk \in Chunks
            /\ (events'[i].ok \/ events'[i].chunk \in Sour)
       /\ events'[i].op = "noted" /\ looping => at.op = "noting" /\ ~noted
    BY <1>2 DEF Sound, Heard
  <2>2. \A i, j \in 1 .. Len(events') :
       /\ events'[i].op = "close" /\ j > i => events'[j].op # "submit"
       /\ events'[i].op = "submit" /\ events'[j].op = "submit" => i = j
       /\ events'[i].op = "noted" /\ events'[j].op = "noted" /\ looping => i = j
    BY HeardInOrder
  <2> QED BY <1>2, <1>3, <2>1, <2>2 DEF Sound, Heard, Active
<1>5. ASSUME at.op = "noting" /\ looping
      PROVE  ~noted /\ \E i \in 1 .. Len(events') : events'[i].op = "noted" /\ \A j \in Answers' : j < i
  <2>1. PICK i \in 1 .. Len(events) : events[i].op = "noted" /\ ~noted /\ \A j \in Answers : j < i
    BY <1>3, <1>5 DEF Sound, Late
  <2>2. i # 1
    BY <1>2, <2>1
  <2>3. i - 1 \in 1 .. Len(events') /\ events'[i - 1] = events[i]
    BY <1>2, <2>2
  <2>4. \A j \in Answers' : j + 1 \in Answers /\ j \in Int
    BY <1>2 DEF Answers
  <2>5. \A j \in Int : j + 1 < i => j < i - 1
    OBVIOUS
  <2>6. \A j \in Answers' : j < i - 1
    BY <2>1, <2>4, <2>5
  <2> QED BY <2>1, <2>3, <2>6
<1> QED BY <1>4, <1>5

\* The chunk is recorded, and its run goes on or was stopped meanwhile.
LEMMA RecordedKeeps ==
  ASSUME Sound, Hears("delivered"),
         records' = Append(records, ChunkFinished(LastRun, events[1].chunk, events[1].ok)),
         UNCHANGED <<row, rows, buffer, live, broken, writing, flushed, status, num, next, claimed>>,
         UNCHANGED <<skips, todo, fed, out, looping, closing, deliveries, at, noted>>,
         UNCHANGED <<announced, caller, taken, lapses, lost>>,
         \/ Now = "running" /\ open' = open \ {events[1].chunk}
            /\ spoilt' = IF events[1].ok THEN spoilt ELSE spoilt \cup {events[1].chunk}
         \/ Now \in Resumable /\ open' = open /\ spoilt' = spoilt
  PROVE  Sound'
<1>1. TypeOK
  BY DEF Sound
<1>2. UNCHANGED <<LastRun, Now, Number>>
  BY RunStays
<1>3. PICK c \in Chunks, ok \in BOOLEAN : c = events[1].chunk /\ ok = events[1].ok
  BY Answered
<1>4. /\ looping /\ events' \in Seq(Events) /\ (ok \/ c \in Sour)
      /\ Now \in {"running"} \cup Ended /\ LastRun \in Runs /\ Now = status[LastRun]
      /\ 1 \in Answers /\ caller # "claiming"
      /\ \A i \in Answers' : i + 1 \in Answers /\ i + 1 # 1 /\ events'[i] = events[i + 1]
      /\ \A i \in Answers : i = 1 \/ (i - 1 \in Answers' /\ events'[i - 1] = events[i])
      /\ \A i \in Answers' : events'[i].chunk # c
  BY <1>3, Answered
<1>5. ~Quiet /\ ~Quiet' /\ Now # "submitted"
  <2>1. ~Quiet
    BY Answered DEF Quiet, Sound, RunsInOrder, Ended
  <2> QED BY <2>1, <1>2, <1>4 DEF Quiet, Ended
<1>6. PICK x \in Records : /\ x.op = "chunk" /\ x.run = LastRun /\ x.chunk = c /\ x.ok = ok
                           /\ records' = Append(records, x)
  <2> DEFINE it == Item("chunk", LastRun, c, ok)
  <2>1. it \in Records /\ it.op = "chunk" /\ it.run = LastRun /\ it.chunk = c /\ it.ok = ok
    BY <1>4 DEF Item, Records, Items, Runs
  <2>2. records' = Append(records, it)
    BY <1>3 DEF ChunkFinished
  <2> QED BY <2>1, <2>2
<1>7. records' \in Seq(Records)
  BY <1>1, <1>6, Queues
<1>8. PICK last \in Places' :
        /\ Places \subseteq Places' /\ last = Len(Pend') /\ last \notin Places
        /\ Pend'[last] = x
        /\ \A i \in Places : Pend'[i] = Pend[i] /\ i < last
        /\ \A i \in Places' : i \in Places \/ i = last
  <2>1. records' = Append(records, x) /\ buffer' = buffer
    BY <1>6
  <2> QED BY ONLY <1>1, <2>1, x \in Records, Behind
<1>9. /\ last \in Marks' /\ \A i \in Marks : i \in Marks' /\ Pend'[i] = Pend[i]
      /\ \A i \in Marks' : i = last \/ (i \in Marks /\ Pend'[i] = Pend[i])
  BY <1>6, <1>8 DEF Marks
<1>10. (Waits("job")' <=> Waits("job")) /\ (Waits("ended")' <=> Waits("ended")) /\ (Waits("end")' <=> Waits("end"))
  BY <1>6, <1>8 DEF Waits
<1>11. ~Waits("end") /\ writing
  BY <1>4 DEF Sound, Flushing
\* nobody is past waiting for the loop
<1>12. at.op # "flushing"
  <2>1. Now = "running" => at.op # "flushing"
    BY DEF Sound, Staged, Nothing, Bare, Item
  <2>2. Now \in Resumable => at.op # "flushing"
    BY <1>4 DEF Sound, Late
  <2> QED BY <2>1, <2>2
<1>13. /\ \A i \in 1 .. Len(todo) : todo[i] # c
       /\ c \notin out
       /\ \A i \in Results : deliveries[i].chunk # c
       /\ \A i \in Marks : Pend[i].chunk # c
       /\ <<Number, c>> \notin rows
  <2>1. /\ \A i \in 1 .. Len(todo) : todo[i] # c
        /\ \A i \in Marks : Pend[i].chunk # c
    BY <1>3, <1>4 DEF Sound, Apart
  <2>2. /\ c \notin out
        /\ \A i \in Results : deliveries[i].chunk # c
    BY <1>3, <1>4 DEF Sound, Apart
  <2>3. <<Number, c>> \notin rows
    BY <1>3, <1>4 DEF Sound, Unrecorded
  <2> QED BY <2>1, <2>2, <2>3
<1>14. ok => taken[c] > 0
  BY <1>3, <1>4 DEF Sound, Counted
<1>15. Results' = Results
  BY DEF Results
<1>t. TypeOK'
  <2>1. out' \subseteq open' /\ open' \subseteq Chunks /\ spoilt' \subseteq Sour
    BY <1>1, <1>3, <1>4, <1>13 DEF TypeOK
  <2>2. /\ UNCHANGED <<row, rows, buffer, live, broken, writing, flushed, status, num, next, claimed>>
        /\ UNCHANGED <<skips, todo, fed, looping, closing, deliveries, at, noted>>
        /\ UNCHANGED <<announced, caller, taken, lapses, lost>>
        /\ events' \in Seq(Events)
    BY <1>4
  <2> QED BY ONLY <1>1, <1>7, <2>1, <2>2 DEF TypeOK, Events, Records
<1>16. RunsInOrder' /\ Numbered'
  BY <1>2, RunsInOrderStays, NumberedStays DEF Sound
<1>17. Claims'
  BY <1>2, <1>4, <1>5 DEF Sound, Claims, Active
<1>18. Heard'
  BY <1>2, HeardOn
<1>19. Staged'
  <2>1. Now # "running" => open' = {}
    BY DEF Sound, Staged
  <2> QED BY <1>2, <1>5, <1>10, <1>15, <2>1 DEF Sound, Staged
<1>20. Queued'
  <2>1. Waits("job") \/ row.n = Number
    BY <1>4, <1>5 DEF Sound, Staged
  <2>2. \A i \in Places' :
       /\ Pend'[i].op \in OfJob => Pend'[i].run = LastRun /\ Now \notin {"none", "gone"}
       /\ Pend'[i].op = "chunk" => Pend'[i].chunk \in Chunks
       /\ Pend'[i].op = "ended" => Now \in Ended /\ Pend'[i].ok = (Now \notin Resumable)
       /\ Pend'[i].op = "discard" => caller = "discarding" /\ looping
       /\ IsFlush(Pend'[i], "delivery") => at.op = "flushing"
       /\ IsFlush(Pend'[i], "caller") => caller # "idle"
       /\ Pend'[i].op # "end"
    <3>1. \A i \in Places : Pend[i].op # "end"
      BY <1>11 DEF Waits
    <3>2. Now \notin {"none", "gone"}
      BY <1>4 DEF Ended
    <3> QED BY <1>6, <1>8, <3>1, <3>2 DEF Sound, Queued, OfJob, IsFlush
  <2>3. \A i, j \in Places' :
       /\ Pend'[i].op = "job" /\ Pend'[j].op \in OfJob => i <= j
       /\ Pend'[i].op = "ended" /\ Pend'[j].op = "ended" => i = j
    <3>1. \A i \in Places : i <= last
      BY <1>8 DEF Places
    <3> QED BY <1>6, <1>8, <3>1 DEF Sound, Queued, OfJob
  <2>4. Waits("job") => row.n \in {0, Number}
    BY DEF Sound, Queued
  <2> QED BY <1>2, <1>10, <2>1, <2>2, <2>3, <2>4 DEF Queued
<1>21. Flushing'
  <2>1. \A i \in Places' : Pend'[i].op = "discard" => \E j \in Places' : j > i /\ IsFlush(Pend'[j], "caller")
    <3>1. SUFFICES ASSUME NEW i \in Places, Pend[i].op = "discard"
                   PROVE  \E j \in Places' : j > i /\ IsFlush(Pend'[j], "caller")
      BY <1>6, <1>8
    <3>2. PICK j \in Places : j > i /\ IsFlush(Pend[j], "caller")
      BY <3>1 DEF Sound, Flushing
    <3>3. Pend'[j] = Pend[j] /\ j \in Places'
      BY <1>8
    <3> QED BY <3>2, <3>3
  <2>2. "delivery" \notin flushed
    BY <1>12 DEF Sound, Flushing
  <2>3. "caller" \in flushed => caller # "idle" /\ \A i \in Places' : ~IsFlush(Pend'[i], "caller")
    BY <1>6, <1>8 DEF Sound, Flushing, IsFlush
  <2>u. \A i, j \in Places' : \A who \in {"caller", "delivery"} :
          IsFlush(Pend'[i], who) /\ IsFlush(Pend'[j], who) => i = j
    BY <1>6, <1>8 DEF Sound, Flushing, IsFlush
  <2> QED BY <1>10, <1>11, <1>12, <2>1, <2>2, <2>3, <2>u DEF Flushing
<1>22. Late'
  <2>1. at.op = "noting" /\ looping =>
              \/ noted /\ Answers' = {}
              \/ ~noted /\ \E i \in 1 .. Len(events') : events'[i].op = "noted" /\ \A j \in Answers' : j < i
    BY <1>2, HeardOn
  <2>2. LastRun \notin announced
    BY <1>4, <1>5 DEF Quiet
  <2>3. Now \notin Final
    BY DEF Final, Resumable
  <2> QED BY <1>2, <1>12, <2>1, <2>2, <2>3 DEF Sound, Late
<1>23. Apart'
  <2>1. \A i, j \in Answers' : events'[i].chunk = events'[j].chunk => i = j
    <3>1. SUFFICES ASSUME NEW i \in Answers', NEW j \in Answers', events'[i].chunk = events'[j].chunk PROVE i = j
      OBVIOUS
    <3>2. i + 1 = j + 1
      BY <1>4, <3>1 DEF Sound, Apart
    <3>3. i \in Int /\ j \in Int
      BY DEF Answers
    <3> QED BY <3>2, <3>3
  <2>2. \A i, j \in Marks' : Pend'[i].chunk = Pend'[j].chunk => i = j
    BY <1>6, <1>8, <1>9, <1>13 DEF Sound, Apart
  <2>3. \A i \in 1 .. Len(todo) :
          /\ todo[i] \notin open'
          /\ \A j \in Answers' : events'[j].chunk # todo[i]
          /\ \A j \in Marks' : Pend'[j].chunk # todo[i]
    <3>1. SUFFICES ASSUME NEW i \in 1 .. Len(todo)
                   PROVE  /\ todo[i] \notin open'
                          /\ \A j \in Answers' : events'[j].chunk # todo[i]
                          /\ \A j \in Marks' : Pend'[j].chunk # todo[i]
      OBVIOUS
    <3>2. todo[i] \notin open'
      <4>1. open' \subseteq open
        OBVIOUS
      <4> QED BY <4>1 DEF Sound, Apart
    <3>3. \A j \in Answers' : events'[j].chunk # todo[i]
      BY <1>4 DEF Sound, Apart
    <3>4. \A j \in Marks' : Pend'[j].chunk = c \/ (j \in Marks /\ Pend'[j] = Pend[j])
      BY <1>6, <1>8, <1>9
    <3>5. \A j \in Marks : Pend[j].chunk # todo[i]
      BY DEF Sound, Apart
    <3> QED BY <3>2, <3>3, <3>4, <3>5, <1>13
  <2>4. \A o \in out :
          /\ \A j \in Answers' : events'[j].chunk # o
          /\ \A j \in Marks' : Pend'[j].chunk # o
    BY <1>4, <1>6, <1>8, <1>9, <1>13 DEF Sound, Apart
  <2>5. \A i \in Results :
          /\ \A j \in Answers' : events'[j].chunk # deliveries[i].chunk
          /\ \A j \in Marks' : Pend'[j].chunk # deliveries[i].chunk
    BY <1>4, <1>6, <1>8, <1>9, <1>13 DEF Sound, Apart
  <2>6. \A i \in Answers' : \A j \in Marks' : Pend'[j].chunk # events'[i].chunk
    BY <1>4, <1>6, <1>8, <1>9 DEF Sound, Apart
  <2> QED BY <1>15, <2>1, <2>2, <2>3, <2>4, <2>5, <2>6 DEF Sound, Apart
<1>24. Unrecorded'
  <2>1. \A i \in Answers' : <<Number, events'[i].chunk>> \notin rows
    BY <1>4 DEF Sound, Unrecorded
  <2>2. \A i \in Marks' : <<Number, Pend'[i].chunk>> \notin rows
    BY <1>6, <1>8, <1>9, <1>13 DEF Sound, Unrecorded
  <2>3. Now \in Resumable => Waits("job")' \/ row.n = Number
    BY <1>5, <1>10 DEF Sound, Staged, Resumable, Ended
  <2> QED BY <1>2, <1>15, <2>1, <2>2, <2>3 DEF Sound, Unrecorded, Active
<1>25. Accounted'
  <2>1. SUFFICES ASSUME Now = "running" PROVE Accounted'
    BY <1>2 DEF Accounted
  <2>2. open' = open \ {c} /\ spoilt' = IF ok THEN spoilt ELSE spoilt \cup {c}
    BY <1>3, <2>1 DEF Resumable
  <2>3. /\ \A i \in Results : deliveries[i].chunk \in open'
        /\ \A i \in Answers' : events'[i].chunk \in open'
    BY <1>4, <1>13, <2>1, <2>2 DEF Sound, Accounted
  <2>4. \A o \in open' : o \in out \/ (\E i \in Results : deliveries[i].chunk = o) \/ \E i \in Answers' : events'[i].chunk = o
    BY <1>3, <1>4, <2>1, <2>2 DEF Sound, Accounted
  <2>5. \A o \in Chunks : (\E i \in 1 .. Len(todo) : todo[i] = o) \/ o \in open' \cup spoilt' \/ taken[o] > 0
    BY <1>14, <2>1, <2>2 DEF Sound, Accounted
  <2> QED BY <1>2, <1>15, <2>1, <2>3, <2>4, <2>5 DEF Sound, Accounted
<1>26. Counted'
  <2>1. \A o \in Chunks : Owed(o)' <=> Owed(o)
    BY <1>2, <1>15 DEF Owed, Shown
  <2>2. \A o \in Chunks : Kept(o) => Kept(o)'
    <3>1. SUFFICES ASSUME NEW o \in Chunks, Kept(o) PROVE Kept(o)'
      OBVIOUS
    <3>2. CASE \E i \in Answers : events[i].chunk = o /\ events[i].ok
      BY <1>3, <1>4, <1>6, <1>8, <1>9, <3>2 DEF Kept
    <3>3. CASE \E i \in Marks : Pend[i].chunk = o /\ Pend[i].ok
      BY <1>9, <3>3 DEF Kept
    <3>4. CASE row.s \in Final \/ <<row.n, o>> \in rows \/ (Waits("ended") /\ Now \in Final)
      BY <1>2, <1>10, <3>4 DEF Kept
    <3> QED BY <3>1, <3>2, <3>3, <3>4 DEF Kept
  <2>3. Cap' = Cap
    BY DEF Cap
  <2>4. \A i \in Answers' : Now \in {"running"} \cup Resumable /\ events'[i].ok => taken[events'[i].chunk] > 0
    BY <1>4 DEF Sound, Counted
  <2>5. \A i \in Marks' : Pend'[i].ok => taken[Pend'[i].chunk] > 0
    BY <1>6, <1>8, <1>9, <1>14 DEF Sound, Counted
  <2> QED BY <1>2, <2>1, <2>2, <2>3, <2>4, <2>5 DEF Sound, Counted
<1>27. Told'
  <2>1. Now # "completed" /\ (Now \in {"none"} \cup Resumable => spoilt' = {})
    BY DEF Resumable, Sound, Told
  <2> QED BY <1>2, <1>10, <1>15, <2>1 DEF Sound, Told, Active
<1> QED BY <1>t, <1>16, <1>17, <1>18, <1>19, <1>20, <1>21, <1>22, <1>23, <1>24, <1>25, <1>26, <1>27 DEF Sound

\* The answer comes too late, or says that nothing was taken: it is dropped.
LEMMA TooLateKeeps ==
  ASSUME Sound, Hears("delivered"), Now # "running", ~(events[1].ok /\ Now \in Resumable),
         UNCHANGED <<row, rows, records, buffer, live, broken, writing, flushed, status, num, next, claimed>>,
         UNCHANGED <<skips, todo, fed, out, open, spoilt, looping, closing, deliveries, at, noted>>,
         UNCHANGED <<announced, caller, taken, lapses, lost>>
  PROVE  Sound'
<1>1. TypeOK
  BY DEF Sound
<1>2. UNCHANGED <<LastRun, Now, Number, Pend>> /\ SameWork
  BY RunStays, PendStays, WorkStays
<1>3. /\ looping /\ events' \in Seq(Events)
      /\ Now \in {"running"} \cup Ended /\ LastRun \in Runs /\ Now = status[LastRun]
      /\ Now \in Resumable => ~Quiet
      /\ 1 \in Answers /\ caller # "claiming"
      /\ \A i \in Answers' : i + 1 \in Answers /\ i + 1 # 1 /\ events'[i] = events[i + 1]
      /\ \A i \in Answers : i = 1 \/ (i - 1 \in Answers' /\ events'[i - 1] = events[i])
  BY Answered
<1>4. Results' = Results /\ Marks' = Marks /\ SameResults
  BY <1>2 DEF Results, SameResults, SameWork
<1>5. ~Waits("end") /\ writing
  BY <1>3 DEF Sound, Flushing
<1>t. TypeOK'
  BY <1>1, <1>3 DEF TypeOK, Events
<1>6. RunsInOrder' /\ Numbered' /\ Staged' /\ Queued' /\ Told'
  BY <1>2, <1>4, RunsInOrderStays, NumberedStays, StagedStays, QueuedStays, ToldStays DEF Sound
<1>7. Claims'
  BY <1>2, <1>3 DEF Sound, Claims, Active, Quiet
<1>8. Heard'
  BY <1>2, HeardOn
<1>9. Flushing'
  BY <1>2, <1>5 DEF Sound, Flushing, Waits, Places, IsFlush
<1>10. Late'
  <2>1. at.op = "noting" /\ looping =>
              \/ noted /\ Answers' = {}
              \/ ~noted /\ \E i \in 1 .. Len(events') : events'[i].op = "noted" /\ \A j \in Answers' : j < i
    BY <1>2, HeardOn
  <2>2. Answers = {} => FALSE
    BY <1>3
  <2> QED BY <1>2, <1>3, <1>4, <2>1, <2>2 DEF Sound, Late
<1>11. Apart'
  <2>1. \A i, j \in Answers' : events'[i].chunk = events'[j].chunk => i = j
    <3>1. SUFFICES ASSUME NEW i \in Answers', NEW j \in Answers', events'[i].chunk = events'[j].chunk PROVE i = j
      OBVIOUS
    <3>2. i + 1 = j + 1
      BY <1>3, <3>1 DEF Sound, Apart
    <3>3. i \in Int /\ j \in Int
      BY DEF Answers
    <3> QED BY <3>2, <3>3
  <2>2. /\ \A i \in 1 .. Len(todo) : \A j \in Answers' : events'[j].chunk # todo[i]
        /\ \A o \in out : \A j \in Answers' : events'[j].chunk # o
        /\ \A i \in Results : \A j \in Answers' : events'[j].chunk # deliveries[i].chunk
        /\ \A i \in Answers' : \A j \in Marks : Pend[j].chunk # events'[i].chunk
    BY <1>3 DEF Sound, Apart
  <2> QED BY <1>2, <1>4, <2>1, <2>2 DEF Sound, Apart
<1>12. Unrecorded'
  <2>1. \A i \in Answers' : <<Number, events'[i].chunk>> \notin rows
    BY <1>3 DEF Sound, Unrecorded
  <2>2. Now \in Resumable => Waits("job")' \/ row.n = Number
    <3>1. Answers # {}
      BY <1>3
    <3>2. Waits("job")' <=> Waits("job")
      BY <1>2 DEF SameWork, OfJob
    <3> QED BY <3>1, <3>2 DEF Sound, Unrecorded
  <2> QED BY <1>2, <1>4, <2>1, <2>2 DEF Sound, Unrecorded, Active
<1>13. Accounted'
  BY <1>2 DEF Accounted
<1>14. Counted'
  <2>1. \A o \in Chunks : Owed(o)' <=> Owed(o)
    BY <1>2, <1>4 DEF Owed, Shown
  <2>2. ~broken \/ caller = "claiming" => \A o \in Chunks : Kept(o) => Kept(o)'
    <3>1. SUFFICES ASSUME ~broken, NEW o \in Chunks, Kept(o) PROVE Kept(o)'
      BY <1>3
    <3>2. ~events[1].ok
      <4>1. Now \in Resumable
        BY <1>3, <3>1 DEF Sound, Late, Final, Ended, Resumable
      <4> QED BY <4>1
    <3>3. CASE \E i \in Answers : events[i].chunk = o /\ events[i].ok
      BY <1>3, <3>2, <3>3 DEF Kept
    <3>4. CASE ~\E i \in Answers : events[i].chunk = o /\ events[i].ok
      BY <1>2, <1>4, <3>1, <3>4 DEF Kept, Waits, Places
    <3> QED BY <3>3, <3>4
  <2>3. Cap' = Cap
    BY DEF Cap
  <2>4. \A i \in Answers' : Now \in {"running"} \cup Resumable /\ events'[i].ok => taken[events'[i].chunk] > 0
    BY <1>3 DEF Sound, Counted
  <2> QED BY <1>2, <1>4, <2>1, <2>2, <2>3, <2>4 DEF Sound, Counted
<1> QED BY <1>t, <1>6, <1>7, <1>8, <1>9, <1>10, <1>11, <1>12, <1>13, <1>14 DEF Sound

LEMMA OnDeliveredKeeps ==
  ASSUME Sound, OnDelivered
  PROVE  Sound'
<1>1. TypeOK
  BY DEF Sound
<1>2. /\ UNCHANGED <<row, rows, buffer, live, broken, writing, flushed, num, next>>
      /\ UNCHANGED <<looping, closing, at, noted, announced, caller, taken, lapses, lost>>
      /\ Hears("delivered")
      /\ Settles(Head(events).run, Head(events).chunk, Head(events).ok)
  BY DEF OnDelivered, others, ofWriter, disk, ghosts
<1>3. PICK c \in Chunks, ok \in BOOLEAN : c = events[1].chunk /\ ok = events[1].ok
  BY <1>2, Answered
<1>4. /\ looping /\ Head(events) = events[1] /\ events' \in Seq(Events) /\ events[1].run = LastRun
      /\ (ok \/ c \in Sour)
      /\ Now \in {"running"} \cup Ended /\ LastRun \in Runs /\ Now = status[LastRun]
      /\ 1 \in Answers
      /\ \A i \in Answers' : i + 1 \in Answers /\ i + 1 # 1 /\ events'[i] = events[i + 1]
      /\ \A i \in Answers : i = 1 \/ (i - 1 \in Answers' /\ events'[i - 1] = events[i])
      /\ \A i \in Answers' : events'[i].chunk # c
  BY <1>2, <1>3, Answered
<1>5. Settles(LastRun, c, ok)
  BY <1>2, <1>3, <1>4
<1>6. Running(LastRun) <=> Now = "running"
  BY <1>4 DEF Running
<1> DEFINE failures == IF ok THEN spoilt ELSE spoilt \cup {c}
           record   == ChunkFinished(LastRun, c, ok)
<1>7. \/ Now = "running" /\ fed /\ open \ {c} = {} /\ Finishes(LastRun, StatusWith(failures), failures, <<record>>)
      \/ /\ Now = "running" /\ open' = open \ {c} /\ spoilt' = failures /\ Record(record)
         /\ UNCHANGED <<status, claimed, deliveries, skips, todo, fed, out>>
      \/ /\ Now # "running" /\ ok /\ Now \in Resumable /\ Record(record) /\ UNCHANGED <<open, spoilt>>
         /\ UNCHANGED <<status, claimed, deliveries, skips, todo, fed, out>>
      \/ /\ Now # "running" /\ ~(ok /\ Now \in Resumable) /\ UNCHANGED <<open, spoilt, records>>
         /\ UNCHANGED <<status, claimed, deliveries, skips, todo, fed, out>>
  BY <1>4, <1>5, <1>6 DEF Settles, Over, CountsLate
<1>8. CASE Now = "running" /\ fed /\ open \ {c} = {} /\ Finishes(LastRun, StatusWith(failures), failures, <<record>>)
  <2>1. PICK s \in Ended : s = StatusWith(failures)
    <3>1. StatusWith(failures) \in Ended
      BY DEF StatusWith, Ended
    <3> QED BY <3>1
  <2>2. failures \in SUBSET Sour
    BY <1>1, <1>4 DEF TypeOK
  <2>3. record = Item("chunk", LastRun, events[1].chunk, events[1].ok)
    BY <1>3 DEF ChunkFinished
  <2>4. LastRun' = LastRun /\ Now' = s
    BY <1>2, <1>8, <2>1, RunEnds DEF Finishes
  <2>5. Heard'
    BY <1>2, <1>8, <2>4, HeardAtEnd
  <2>6. Answers' = {} /\ Results = {}
    <3>1. \A i \in Answers : events[i].chunk = c
      BY <1>8 DEF Sound, Accounted
    <3>2. \A i \in Results : deliveries[i].chunk = c
      BY <1>8 DEF Sound, Accounted
    <3>3. \A i \in Results : deliveries[i].chunk # c
      BY <1>3, <1>4 DEF Sound, Apart
    <3>4. Answers' = {}
      BY <1>4, <3>1
    <3> QED BY <3>2, <3>3, <3>4
  <2>7. \A o \in Chunks : taken[o] > 0 \/ o \in failures
    <3>1. 1 .. Len(todo) = {}
      BY <1>8 DEF Sound, Accounted
    <3>2. ok => taken[c] > 0
      BY <1>3, <1>4, <1>8 DEF Sound, Counted
    <3> QED BY <1>8, <3>1, <3>2 DEF Sound, Accounted
  <2>8. looping' \in BOOLEAN /\ 1 \in {0, 1}
    BY <1>1, <1>2 DEF TypeOK
  <2>9. \A i \in Answers : \/ i - 1 \in Answers' /\ events'[i - 1] = events[i]
                           \/ <<record>> = <<Item("chunk", LastRun, events[i].chunk, events[i].ok)>>
    BY <1>4, <2>3
  <2>10. \E i \in Answers : /\ <<record>> = <<Item("chunk", LastRun, events[i].chunk, events[i].ok)>>
                            /\ \A j \in Answers' : events'[j].chunk # events[i].chunk
    BY <1>3, <1>4, <2>3
  <2>11. Finishes(LastRun, s, failures, <<record>>)
    BY <1>8, <2>1
  <2> HIDE DEF failures, record
  <2> QED BY <1>2, <1>4, <1>8, <2>2, <2>5, <2>6, <2>7, <2>8, <2>9, <2>10, <2>11, FinishedKeeps
<1>9. CASE /\ Now = "running" /\ open' = open \ {c} /\ spoilt' = failures /\ Record(record)
           /\ UNCHANGED <<status, claimed, deliveries, skips, todo, fed, out>>
  <2>1. records' = Append(records, ChunkFinished(LastRun, events[1].chunk, events[1].ok))
    BY <1>3, <1>9 DEF Record
  <2> QED BY <1>2, <1>3, <1>9, <2>1, RecordedKeeps
<1>10. CASE /\ Now # "running" /\ ok /\ Now \in Resumable /\ Record(record) /\ UNCHANGED <<open, spoilt>>
            /\ UNCHANGED <<status, claimed, deliveries, skips, todo, fed, out>>
  <2>1. records' = Append(records, ChunkFinished(LastRun, events[1].chunk, events[1].ok))
    BY <1>3, <1>10 DEF Record
  <2> QED BY <1>2, <1>10, <2>1, RecordedKeeps
<1>11. CASE /\ Now # "running" /\ ~(ok /\ Now \in Resumable) /\ UNCHANGED <<open, spoilt, records>>
            /\ UNCHANGED <<status, claimed, deliveries, skips, todo, fed, out>>
  BY <1>2, <1>3, <1>11, TooLateKeeps
<1> QED BY <1>7, <1>8, <1>9, <1>10, <1>11
-----------------------------------------------------------------------------
(* The next process *)

LEMMA OpensKeeps ==
  ASSUME Sound, Opens, lapses' \in 0 .. LapsesMax,
         lapses' = lapses + 1 \/ (lapses' = lapses /\ ~writing)
  PROVE  Sound'
<1>1. TypeOK
  BY DEF Sound
<1>2. /\ row' = IF row.s = "running" THEN [row EXCEPT !.s = "interrupted"] ELSE row
      /\ next' = row.n + 1
      /\ status' = [r \in Runs |-> IF status[r] = "new" \/ r \in announced THEN status[r] ELSE "gone"]
      /\ num' = [r \in Runs |-> IF r = LastRun /\ r \in announced THEN num[r] ELSE 0]
      /\ records' = <<>> /\ buffer' = <<>> /\ live' = 0
      /\ broken' = FALSE /\ writing' = TRUE /\ flushed' = {} /\ claimed' = FALSE
      /\ skips' = FALSE /\ todo' = <<>> /\ fed' = FALSE /\ out' = {} /\ open' = {} /\ spoilt' = {}
      /\ events' = <<>> /\ looping' = TRUE /\ closing' = FALSE
      /\ deliveries' = <<>> /\ at' = Nothing /\ noted' = FALSE /\ caller' = "idle"
      /\ UNCHANGED <<rows, announced, taken, lost>>
  BY DEF Opens
<1>3. LastRun' = LastRun
  <2>1. {r \in Runs : status'[r] # "new"} = {r \in Runs : status[r] # "new"}
    BY <1>2
  <2> QED BY <2>1 DEF LastRun
<1>4. PICK n \in 0 .. RunsMax : n = LastRun
  BY <1>1, LastRunIs
<1>5. n # 0 => n \in Runs /\ status[n] # "new" /\ Now = status[n] /\ Number = num[n]
  BY <1>4 DEF Runs, Sound, RunsInOrder, Now, Number
<1>6. n = 0 => Now' = "none" /\ Number' = 0 /\ n \notin announced
  BY <1>1, <1>3, <1>4 DEF Now, Number, TypeOK, Runs
<1>7. n \in announced => n # 0 /\ Now' = Now /\ Number' = Number /\ Now \in Ended
  <2>1. n \in announced => n \in Runs /\ n # 0 /\ status[n] \in Ended
    BY <1>1 DEF TypeOK, Runs, Sound, RunsInOrder
  <2> QED BY <2>1, <1>2, <1>3, <1>4, <1>5 DEF Now, Number
<1>8. n # 0 /\ n \notin announced => Now' = "gone"
  BY <1>2, <1>3, <1>4, <1>5 DEF Now
<1>9. Quiet' /\ (Now' \in Ended => n \in announced) /\ Now' \in {"none", "gone"} \cup Ended
  BY <1>2, <1>3, <1>4, <1>6, <1>7, <1>8 DEF Quiet, Ended
<1>10. Pend' = <<>> /\ Places' = {} /\ Results' = {} /\ Answers' = {} /\ Marks' = {}
  <2>1. Pend' = <<>>
    BY <1>2 DEF Pend
  <2> QED BY <1>2, <2>1 DEF Places, Results, Answers, Marks
<1>11. (\A op \in OfJob : ~Waits(op)') /\ ~Waits("end")'
  BY <1>10 DEF Waits
<1>12. row' \in [n : 0 .. RunsMax, s : {"none", "running"} \cup Ended] /\ row'.n = row.n /\ row.n \in 0 .. RunsMax
       /\ (row'.s = "none" <=> row.s = "none") /\ (row.s # "running" => row' = row)
       /\ (row'.s \in Final => row.s = row'.s) /\ (row.s \in Final => row.s = row'.s)
  BY <1>1, <1>2 DEF TypeOK, Ended, Final
<1>t. TypeOK'
  <2>1. next' \in 1 .. RunsMax + 1
    <3>1. PICK k \in 0 .. RunsMax : k = row.n
      BY <1>12
    <3> QED BY <1>2, <3>1, JournalAssumption
  <2>2. status' \in [Runs -> {"new", "submitted", "running", "gone"} \cup Ended] /\ num' \in [Runs -> 0 .. RunsMax]
    BY <1>1, <1>2, JournalAssumption DEF TypeOK
  <2>3. at' \in Items({"nothing", "noting", "flushing"})
    BY <1>2, JournalAssumption DEF Nothing, Bare, Item, Items
  <2>4. rows' \subseteq (1 .. RunsMax) \X Chunks /\ announced' \subseteq Runs /\ taken' \in [Chunks -> Nat] /\ lost' \in BOOLEAN
    BY <1>1, <1>2 DEF TypeOK
  <2>5. live' \in 0 .. RunsMax
    BY <1>2, JournalAssumption
  <2> QED BY ONLY <1>2, <1>12, <2>1, <2>2, <2>3, <2>4, <2>5, EmptySeq, lapses' \in 0 .. LapsesMax DEF TypeOK
<1>13. RunsInOrder'
  <2>1. \A r \in Runs : status'[r] = IF status[r] = "new" \/ r \in announced THEN status[r] ELSE "gone"
    BY <1>2
  <2>2. \A r \in Runs : status[r] = "new" <=> r > LastRun
    BY DEF Sound, RunsInOrder
  <2>3. \A r \in announced : r \in Runs /\ status[r] \in Ended
    BY <1>1 DEF Sound, RunsInOrder, TypeOK
  <2>4. \A r \in Runs : status'[r] = "new" <=> r > LastRun
    BY <2>1, <2>2
  <2>5. \A r \in Runs : r < LastRun => status'[r] = "gone" \/ r \in announced
    <3>1. \A r \in Runs : r < LastRun => ~(r > LastRun)
      BY <1>4 DEF Runs
    <3> QED BY <2>1, <2>2, <3>1
  <2>6. \A r \in announced : status'[r] \in Ended
    BY <2>1, <2>3
  <2> QED BY <1>2, <1>3, <2>4, <2>5, <2>6 DEF RunsInOrder
<1>14. Numbered'
  <2>1. row.n + 1 <= n + 1
    <3>1. next \in Int /\ next <= n + 1 /\ row.n < next
      BY <1>1, <1>4 DEF Sound, Numbered, TypeOK
    <3> QED BY ONLY <1>12, <3>1, n \in 0 .. RunsMax
  <2>2. row.n < row.n + 1
    BY <1>12
  <2>3. Now' \in Ended => Number' >= 1
    BY <1>7, <1>9 DEF Sound, Numbered
  <2> QED BY <1>2, <1>3, <1>4, <1>9, <1>12, <2>1, <2>2, <2>3 DEF Sound, Numbered, Ended
<1>15. Claims' /\ Heard'
  BY <1>2, <1>9, <1>10 DEF Claims, Heard, Active, Ended, Nothing, Bare, Item
<1>16. Staged'
  BY <1>2, <1>9, <1>10, <1>11 DEF Staged, Ended, OfJob
<1>17. Queued' /\ Flushing'
  BY <1>2, <1>10, <1>11 DEF Queued, Flushing, OfJob
<1>18. Late' /\ Apart'
  BY <1>2, <1>9, <1>10 DEF Late, Apart, Nothing, Bare, Item
<1>19. Unrecorded' /\ Accounted'
  BY <1>2, <1>9, <1>10 DEF Unrecorded, Accounted, Ended
<1>20. Counted'
  <2>1. \A c \in Chunks : ~Owed(c)'
    BY <1>2, <1>9, <1>10 DEF Owed, Ended
  <2>2. PICK p \in Nat, k \in Nat : p = lapses /\ k = Cap
    <3>1. lapses \in Nat /\ Cap \in Nat
      BY <1>1, JournalAssumption DEF TypeOK, Cap
    <3> QED BY <3>1
  <2>3. Cap' = lapses' + 1 /\ k <= p + 1 /\ (k = p + 1 <=> ~broken)
    BY <1>1, <1>2, <2>2 DEF Cap
  <2>4. \A c \in Chunks : taken[c] \in Nat /\ taken[c] <= k
    BY <1>1, <2>2 DEF Sound, Counted, TypeOK
  <2>5. \A c \in Chunks : taken'[c] <= Cap' /\ (taken'[c] = Cap' => lapses' = lapses /\ ~writing /\ taken[c] = Cap /\ ~broken)
    BY <1>2, <2>2, <2>3, <2>4
  <2>6. ASSUME NEW c \in Chunks, taken'[c] = Cap' PROVE Kept(c)'
    <3>1. Kept(c)
      BY <2>5, <2>6 DEF Sound, Counted
    <3>2. events = <<>> /\ Pend = <<>>
      BY <2>5, <2>6 DEF Sound, Flushing
    <3>3. row.s \in Final \/ <<row.n, c>> \in rows
      BY <3>1, <3>2 DEF Kept, Answers, Marks, Waits, Places
    <3> QED BY <1>2, <1>12, <3>3 DEF Kept
  <2>7. \A c \in Chunks : <<row'.n, c>> \in rows' => taken'[c] > 0
    BY <1>2, <1>12 DEF Sound, Counted
  <2> QED BY <1>2, <1>10, <2>1, <2>5, <2>6, <2>7 DEF Counted
<1>21. Told'
  <2>1. ASSUME Now' \in Ended, ~lost', row'.n # 0, row'.n = Number' PROVE row'.s = Now'
    <3>1. n \in announced /\ Now' = Now /\ Number' = Number /\ Now \in Ended
      BY <1>7, <1>9, <2>1
    <3>2. ~Waits("ended")
      BY <1>4, <3>1 DEF Sound, Staged, Quiet
    <3>3. row.s = Now
      BY <1>2, <1>12, <2>1, <3>1, <3>2 DEF Sound, Told
    <3> QED BY <1>12, <3>1, <3>3 DEF Ended
  <2> QED BY <1>2, <1>9, <1>10, <1>11, <2>1 DEF Told, Active, OfJob, Ended
<1> QED BY <1>t, <1>13, <1>14, <1>15, <1>16, <1>17, <1>18, <1>19, <1>20, <1>21 DEF Sound

LEMMA ReopenKeeps ==
  ASSUME Sound, Reopen
  PROVE  Sound'
<1>1. lapses' \in 0 .. LapsesMax
  BY DEF Sound, TypeOK, Reopen
<1> QED BY <1>1, OpensKeeps DEF Reopen

LEMMA CrashKeeps ==
  ASSUME Sound, Crash
  PROVE  Sound'
<1>1. lapses' \in 0 .. LapsesMax
  BY JournalAssumption DEF Sound, TypeOK, Crash
<1> QED BY <1>1, OpensKeeps DEF Crash
-----------------------------------------------------------------------------
(* What the end of the process records of the last answers *)

\* How the record of what came late grows with the next event.
NotesLate(s, e) ==
  IF e.op = "delivered" /\ CountsLate(e.run, e.ok)
  THEN Append(s, ChunkFinished(e.run, e.chunk, e.ok)) ELSE s

\* There is a function as `Drained` describes it, one event after the other.
LEMMA DrainedSteps ==
  ASSUME events \in Seq(Events)
  PROVE  \E d : /\ Drained = d[Len(events)] /\ d[0] = <<>>
                /\ \A i \in 1 .. Len(events) : d[i] = NotesLate(d[i - 1], events[i])
<1> DEFINE F(n, f) == f = [i \in 0 .. n |-> IF i = 0 THEN <<>> ELSE NotesLate(f[i - 1], events[i])]
           Bad == {n \in Nat : ~\E f : F(n, f)}
<1>1. Bad = {}
  <2>1. SUFFICES ASSUME Bad # {} PROVE FALSE
    OBVIOUS
  <2>2. PICK m \in Bad : \A k \in Bad : m <= k
    BY <2>1, Least
  <2>3. m # 0
    <3> DEFINE f == [i \in 0 .. 0 |-> <<>>]
    <3>1. F(0, f)
      OBVIOUS
    <3> HIDE DEF F
    <3> QED BY <3>1
  <2>4. m - 1 \in Nat /\ m \in Nat /\ ~(m <= m - 1)
    BY <2>3
  <2>5. PICK f : F(m - 1, f)
    <3> HIDE DEF F
    <3> QED BY <2>2, <2>4
  <2> DEFINE g == [i \in 0 .. m |-> IF i = m THEN NotesLate(f[m - 1], events[m]) ELSE f[i]]
  <2>6. \A i \in 0 .. m : g[i] = IF i = 0 THEN <<>> ELSE NotesLate(g[i - 1], events[i])
    <3>1. SUFFICES ASSUME NEW i \in 0 .. m PROVE g[i] = IF i = 0 THEN <<>> ELSE NotesLate(g[i - 1], events[i])
      OBVIOUS
    <3>2. i = 0 \/ (i - 1 \in 0 .. m - 1 /\ i - 1 \in 0 .. m /\ i - 1 # m)
      BY <2>4
    <3>3. i # 0 => g[i - 1] = f[i - 1]
      BY <3>2
    <3>4. CASE i = m
      BY <2>3, <3>3, <3>4
    <3>5. CASE i # m
      <4>1. i \in 0 .. m - 1
        BY <2>4, <3>5
      <4>2. f[i] = IF i = 0 THEN <<>> ELSE NotesLate(f[i - 1], events[i])
        BY <2>5, <4>1
      <4> QED BY <3>3, <3>5, <4>2
    <3> QED BY <3>4, <3>5
  <2>7. F(m, g)
    <3>1. g = [i \in 0 .. m |-> g[i]]
      OBVIOUS
    <3>2. [i \in 0 .. m |-> g[i]] = [i \in 0 .. m |-> IF i = 0 THEN <<>> ELSE NotesLate(g[i - 1], events[i])]
      BY <2>6
    <3> HIDE DEF g
    <3> QED BY <3>1, <3>2
  <2>8. m \notin Bad
    <3> HIDE DEF g, F
    <3> QED BY <2>7
  <2> QED BY <2>8
<1>2. PICK n \in Nat : n = Len(events)
  BY LenProperties
<1> DEFINE d == CHOOSE f : F(n, f)
<1>3. F(n, d)
  <2>1. \E f : F(n, f)
    <3> HIDE DEF F
    <3> QED BY <1>1
  <2> HIDE DEF F
  <2> QED BY <2>1
<1>4. Drained = d[n]
  BY <1>2 DEF Drained, NotesLate
<1> HIDE DEF d
<1>5. \A i \in 0 .. n : d[i] = IF i = 0 THEN <<>> ELSE NotesLate(d[i - 1], events[i])
  BY <1>3
<1>6. 0 \in 0 .. n /\ \A i \in 1 .. n : i \in 0 .. n /\ i # 0
  OBVIOUS
<1>7. d[0] = <<>> /\ \A i \in 1 .. n : d[i] = NotesLate(d[i - 1], events[i])
  BY <1>5, <1>6
<1> QED BY <1>2, <1>4, <1>7

\* The answers that are worth a record once the loop is gone.
LateOnes == {i \in Answers : events[i].ok /\ Now \in Resumable}

\* Each of them makes one record, and nothing else does.
LEMMA DrainedIs ==
  ASSUME Sound
  PROVE  /\ Drained \in Seq(Records)
         /\ \A k \in 1 .. Len(Drained) :
              \E j \in LateOnes : Drained[k] = Item("chunk", LastRun, events[j].chunk, TRUE)
         /\ \A j \in LateOnes :
              \E k \in 1 .. Len(Drained) : Drained[k] = Item("chunk", LastRun, events[j].chunk, TRUE)
         /\ \A k, l \in 1 .. Len(Drained) : Drained[k].chunk = Drained[l].chunk => k = l
<1>1. TypeOK /\ events \in Seq(Events)
  BY DEF Sound, TypeOK, Events
<1>2. PICK n \in Nat : n = Len(events)
  BY <1>1, LenProperties
<1>3. PICK d : Drained = d[n] /\ d[0] = <<>> /\ \A i \in 1 .. n : d[i] = NotesLate(d[i - 1], events[i])
  BY <1>1, <1>2, DrainedSteps
<1> DEFINE Mark(j) == Item("chunk", LastRun, events[j].chunk, TRUE)
<1>4. LastRun \in 0 .. RunsMax
  BY <1>1, LastRunIs
<1>5. \A i \in 1 .. n : \/ i \in LateOnes /\ NotesLate(d[i - 1], events[i]) = Append(d[i - 1], Mark(i))
                        \/ i \notin LateOnes /\ NotesLate(d[i - 1], events[i]) = d[i - 1]
  <2>1. SUFFICES ASSUME NEW i \in 1 .. n
                 PROVE  \/ i \in LateOnes /\ NotesLate(d[i - 1], events[i]) = Append(d[i - 1], Mark(i))
                        \/ i \notin LateOnes /\ NotesLate(d[i - 1], events[i]) = d[i - 1]
    OBVIOUS
  <2>2. CASE events[i].op = "delivered"
    <3>1. events[i].run = LastRun /\ Now \notin {"none", "gone"} /\ i \in Answers /\ events[i] \in Events
      BY <1>1, <1>2, <2>2, ElementOfSeq DEF Sound, Heard, Answers
    <3>2. LastRun # 0 /\ Now = status[LastRun]
      BY <3>1 DEF Now
    <3>3. CountsLate(events[i].run, events[i].ok) <=> i \in LateOnes
      BY <3>1, <3>2 DEF CountsLate, LateOnes
    <3>4. events[i].ok \in BOOLEAN
      BY <3>1 DEF Events, Items
    <3>5. i \in LateOnes => events[i].ok = TRUE
      BY <3>4 DEF LateOnes
    <3>6. i \in LateOnes => ChunkFinished(events[i].run, events[i].chunk, events[i].ok) = Mark(i)
      BY <3>1, <3>5 DEF ChunkFinished
    <3> HIDE DEF Mark
    <3> QED BY <2>2, <3>3, <3>6 DEF NotesLate
  <2>3. CASE events[i].op # "delivered"
    BY <2>3 DEF NotesLate, LateOnes, Answers
  <2> QED BY <2>2, <2>3
<1>6. \A j \in LateOnes : j \in 1 .. n /\ Mark(j) \in Records /\ Mark(j).chunk = events[j].chunk
  <2>1. \A j \in Answers : events[j].chunk \in Chunks /\ j \in 1 .. n
    BY <1>2 DEF Sound, Heard, Answers
  <2> QED BY <1>4, <2>1 DEF LateOnes, Item, Records, Items
<1>7. \A i, j \in LateOnes : events[i].chunk = events[j].chunk => i = j
  BY DEF LateOnes, Sound, Apart
<1> HIDE DEF Mark
<1> DEFINE G(i, s) ==
      /\ s \in Seq(Records)
      /\ \A k \in 1 .. Len(s) : \E j \in LateOnes : j <= i /\ s[k] = Mark(j)
      /\ \A j \in LateOnes : j <= i => \E k \in 1 .. Len(s) : s[k] = Mark(j)
      /\ \A k, l \in 1 .. Len(s) : s[k].chunk = s[l].chunk => k = l
<1>8. G(0, d[0])
  <2>1. \A j \in LateOnes : ~(j <= 0)
    BY <1>6
  <2> QED BY <1>3, <2>1, EmptySeq
<1>9. ASSUME NEW i \in 1 .. n, G(i - 1, d[i - 1]) PROVE G(i, d[i])
  <2>1. \A j \in LateOnes : /\ j <= i - 1 => j <= i
                            /\ j <= i => j <= i - 1 \/ j = i
                            /\ i <= i /\ ~(i <= i - 1)
    BY <1>6
  <2>2. CASE i \notin LateOnes
    <3>1. d[i] = d[i - 1]
      BY <1>3, <1>5, <2>2
    <3>2. \A j \in LateOnes : j <= i => j <= i - 1
      BY <2>1, <2>2
    <3> QED BY <1>9, <2>1, <3>1, <3>2
  <2>3. CASE i \in LateOnes
    <3>a. PICK s : s = d[i - 1]
      OBVIOUS
    <3>1. PICK x \in Records : s = d[i - 1] /\ x = Mark(i) /\ d[i] = Append(s, x)
      <4>1. Mark(i) \in Records /\ d[i] = Append(s, Mark(i))
        BY <1>3, <1>5, <1>6, <2>3, <3>a
      <4> QED BY <3>a, <4>1
    <3>2. s \in Seq(Records)
      BY <1>9, <3>1
    <3>3. PICK m \in Nat : m = Len(s)
      BY <3>2, LenProperties
    <3>4. d[i] \in Seq(Records) /\ Len(d[i]) = m + 1 /\ d[i][m + 1] = x /\ \A k \in 1 .. m : d[i][k] = s[k]
      BY <3>1, <3>2, <3>3, AppendProperties
    <3>5. /\ \A k \in 1 .. m + 1 : k \in 1 .. m \/ k = m + 1
          /\ \A k \in 1 .. m : k \in 1 .. m + 1
          /\ m + 1 \in 1 .. m + 1
      BY <3>3
    <3>6. \A k \in 1 .. m : s[k].chunk # events[i].chunk
      <4>1. SUFFICES ASSUME NEW k \in 1 .. m PROVE s[k].chunk # events[i].chunk
        OBVIOUS
      <4>2. PICK j \in LateOnes : j <= i - 1 /\ s[k] = Mark(j)
        BY <1>9, <3>1, <3>3
      <4>3. j # i
        BY <2>1, <2>3, <4>2
      <4> QED BY <1>6, <1>7, <2>3, <4>2, <4>3
    <3>7. x.chunk = events[i].chunk
      BY <1>6, <2>3, <3>1
    <3>8. \A k \in 1 .. m + 1 : \E j \in LateOnes : j <= i /\ d[i][k] = Mark(j)
      <4>1. ASSUME NEW k \in 1 .. m PROVE \E j \in LateOnes : j <= i /\ d[i][k] = Mark(j)
        <5>1. PICK j \in LateOnes : j <= i - 1 /\ s[k] = Mark(j)
          BY <1>9, <3>1, <3>3
        <5> QED BY <2>1, <3>4, <5>1
      <4>2. i <= i
        OBVIOUS
      <4> QED BY <2>3, <3>1, <3>4, <3>5, <4>1, <4>2
    <3>9. \A j \in LateOnes : j <= i => \E k \in 1 .. m + 1 : d[i][k] = Mark(j)
      <4>1. ASSUME NEW j \in LateOnes, j <= i - 1 PROVE \E k \in 1 .. m + 1 : d[i][k] = Mark(j)
        <5>1. PICK k \in 1 .. m : s[k] = Mark(j)
          BY <1>9, <3>1, <3>3, <4>1
        <5> QED BY <3>4, <3>5, <5>1
      <4> QED BY <2>1, <3>1, <3>4, <3>5, <4>1
    <3>10. \A k, l \in 1 .. m + 1 : d[i][k].chunk = d[i][l].chunk => k = l
      <4>1. \A k, l \in 1 .. m : s[k].chunk = s[l].chunk => k = l
        BY <1>9, <3>1, <3>3
      <4> QED BY <3>4, <3>5, <3>6, <3>7, <4>1
    <3> QED BY <3>4, <3>8, <3>9, <3>10
  <2> QED BY <2>2, <2>3
<1> DEFINE Bad == {i \in 0 .. n : ~G(i, d[i])}
<1>10. Bad = {}
  <2>1. SUFFICES ASSUME Bad # {} PROVE FALSE
    OBVIOUS
  <2>2. Bad \in SUBSET Nat
    OBVIOUS
  <2>3. PICK m \in Bad : \A k \in Bad : m <= k
    BY <2>1, <2>2, Least
  <2> HIDE DEF G
  <2>4. m # 0 /\ m \in 0 .. n
    BY <1>8
  <2>5. m \in 1 .. n /\ m - 1 \in 0 .. n /\ ~(m <= m - 1)
    BY <2>4
  <2>6. G(m - 1, d[m - 1])
    BY <2>3, <2>5
  <2> QED BY <1>9, <2>5, <2>6
<1>11. G(n, d[n])
  <2> HIDE DEF G
  <2> QED BY <1>10
<1>12. \A j \in LateOnes : j <= n
  BY <1>6
<1> QED BY <1>3, <1>11, <1>12 DEF Mark

\* These records and one more are queued, behind the others.
LEMMA BehindMore ==
  ASSUME TypeOK, NEW ds \in Seq(Records), NEW e \in Records, records' = records \o ds \o <<e>>, buffer' = buffer
  PROVE  /\ records' \in Seq(Records)
         /\ \E n \in Nat, m \in Nat :
              /\ n = Len(Pend) /\ m = Len(ds) /\ Len(Pend') = n + m + 1
              /\ \A i \in 1 .. n : Pend'[i] = Pend[i]
              /\ \A k \in 1 .. m : Pend'[n + k] = ds[k]
              /\ Pend'[n + m + 1] = e
<1>1. buffer \in Seq(Records) /\ records \in Seq(Records) /\ <<e>> \in Seq(Records)
  BY DEF TypeOK, Records
<1>2. PICK b \in Nat, r \in Nat, m \in Nat : b = Len(buffer) /\ r = Len(records) /\ m = Len(ds)
  BY <1>1, LenProperties
<1>3. PICK s : s = records \o ds
  OBVIOUS
<1>4. s \in Seq(Records) /\ Len(s) = r + m
      /\ \A i \in 1 .. r + m : s[i] = IF i <= r THEN records[i] ELSE ds[i - r]
  BY ONLY <1>1, <1>2, <1>3, ds \in Seq(Records), ConcatProperties
<1>5. records' = s \o <<e>> /\ Len(<<e>>) = 1 /\ <<e>>[1] = e
  BY <1>3
<1>6. records' \in Seq(Records) /\ Len(records') = (r + m) + 1
      /\ \A i \in 1 .. (r + m) + 1 : records'[i] = IF i <= r + m THEN s[i] ELSE <<e>>[i - (r + m)]
  BY ONLY <1>1, <1>4, <1>5, ConcatProperties
<1>7. Len(Pend) = b + r /\ \A i \in 1 .. b + r : Pend[i] = IF i <= b THEN buffer[i] ELSE records[i - b]
  BY <1>1, <1>2, ConcatProperties DEF Pend
<1>8. Len(Pend') = b + ((r + m) + 1)
      /\ \A i \in 1 .. b + ((r + m) + 1) : Pend'[i] = IF i <= b THEN buffer[i] ELSE records'[i - b]
  <2>1. Pend' = buffer \o records'
    BY DEF Pend
  <2>2. PICK q : q = records'
    OBVIOUS
  <2>3. q \in Seq(Records) /\ Len(q) = (r + m) + 1 /\ Pend' = buffer \o q
    BY <1>6, <2>1, <2>2
  <2>4. Len(Pend') = b + ((r + m) + 1)
        /\ \A i \in 1 .. b + ((r + m) + 1) : Pend'[i] = IF i <= b THEN buffer[i] ELSE q[i - b]
    <3>1. PICK p : p = buffer \o q
      OBVIOUS
    <3>2. Len(p) = b + ((r + m) + 1)
          /\ \A i \in 1 .. b + ((r + m) + 1) : p[i] = IF i <= b THEN buffer[i] ELSE q[i - b]
      <4>1. buffer \in Seq(Records) /\ q \in Seq(Records) /\ Len(buffer) = b /\ Len(q) = (r + m) + 1
        BY <1>1, <1>2, <2>3
      <4>2. Len(p) = Len(buffer) + Len(q)
            /\ \A i \in 1 .. Len(buffer) + Len(q) : p[i] = IF i <= Len(buffer) THEN buffer[i] ELSE q[i - Len(buffer)]
        BY ONLY <3>1, <4>1, ConcatProperties
      <4> QED BY ONLY <4>1, <4>2
    <3> QED BY <2>3, <3>1, <3>2
  <2> QED BY <2>2, <2>4
<1>9. \A i \in 1 .. b + r : Pend'[i] = Pend[i]
  <2>1. SUFFICES ASSUME NEW i \in 1 .. b + r PROVE Pend'[i] = Pend[i]
    OBVIOUS
  <2>2. i \in 1 .. b + ((r + m) + 1)
    BY <1>2
  <2>3. CASE i <= b
    BY <1>7, <1>8, <2>2, <2>3
  <2>4. CASE ~(i <= b)
    <3>1. i - b \in 1 .. r /\ i - b \in 1 .. r + m /\ i - b \in 1 .. (r + m) + 1 /\ i - b <= r /\ i - b <= r + m
      BY <1>2, <2>4
    <3>2. Pend[i] = records[i - b] /\ Pend'[i] = records'[i - b]
      BY <1>7, <1>8, <2>2, <2>4
    <3>3. s[i - b] = records[i - b] /\ records'[i - b] = s[i - b]
      BY <1>4, <1>6, <3>1
    <3> QED BY <3>2, <3>3
  <2> QED BY <2>3, <2>4
<1>10. \A k \in 1 .. m : Pend'[(b + r) + k] = ds[k]
  <2>1. SUFFICES ASSUME NEW k \in 1 .. m PROVE Pend'[(b + r) + k] = ds[k]
    OBVIOUS
  <2>2. /\ (b + r) + k \in 1 .. b + ((r + m) + 1) /\ ~((b + r) + k <= b) /\ ((b + r) + k) - b = r + k
        /\ r + k \in 1 .. r + m /\ r + k \in 1 .. (r + m) + 1 /\ r + k <= r + m /\ ~(r + k <= r) /\ (r + k) - r = k
    BY <1>2
  <2>3. Pend'[(b + r) + k] = records'[r + k]
    BY <1>8, <2>2
  <2>4. records'[r + k] = s[r + k] /\ s[r + k] = ds[k]
    BY <1>4, <1>6, <2>2
  <2> QED BY <2>3, <2>4
<1>11. Pend'[(b + r) + m + 1] = e
  <2>1. /\ (b + r) + m + 1 \in 1 .. b + ((r + m) + 1) /\ ~((b + r) + m + 1 <= b)
        /\ ((b + r) + m + 1) - b = (r + m) + 1
        /\ (r + m) + 1 \in 1 .. (r + m) + 1 /\ ~((r + m) + 1 <= r + m) /\ ((r + m) + 1) - (r + m) = 1
    BY <1>2
  <2>2. Pend'[(b + r) + m + 1] = records'[(r + m) + 1]
    BY <1>8, <2>1
  <2>3. records'[(r + m) + 1] = <<e>>[1]
    BY <1>6, <2>1
  <2> QED BY <1>5, <2>2, <2>3
<1>12. b + r \in Nat /\ Len(Pend') = (b + r) + m + 1
  BY <1>2, <1>8
<1> QED BY <1>2, <1>6, <1>7, <1>9, <1>10, <1>11, <1>12

LEMMA CloseJournalKeeps ==
  ASSUME Sound, CloseJournal
  PROVE  Sound'
<1>1. TypeOK
  BY DEF Sound
<1>2. /\ UNCHANGED <<row, rows, buffer, live, broken, writing, flushed, status, num, next, claimed>>
      /\ UNCHANGED <<skips, todo, fed, out, open, spoilt, looping, closing, deliveries, at, noted>>
      /\ UNCHANGED <<announced, caller, taken, lapses, lost>>
      /\ closing /\ ~looping /\ writing /\ at = Nothing /\ deliveries = <<>> /\ events' = <<>>
      /\ records' = records \o Drained \o <<Bare("end")>>
      /\ ~Contains(records \o buffer, Bare("end"))
  BY DEF CloseJournal, disk, ofWriter, known, work, ghosts
<1>3. UNCHANGED <<LastRun, Now, Number>>
  BY <1>2, RunStays
<1>4. Drained \in Seq(Records) /\ Bare("end") \in Records /\ Bare("end").op = "end"
  BY DrainedIs, JournalAssumption DEF Bare, Item, Records, Items
<1>5. PICK ds \in Seq(Records), e \in Records :
        ds = Drained /\ e = Bare("end") /\ records' = records \o ds \o <<e>>
  BY <1>2, <1>4
<1>6. records' \in Seq(Records)
  BY ONLY <1>1, <1>2, <1>5, BehindMore
<1>7. PICK n \in Nat, m \in Nat :
        /\ n = Len(Pend) /\ m = Len(ds) /\ Len(Pend') = n + m + 1
        /\ \A i \in 1 .. n : Pend'[i] = Pend[i]
        /\ \A k \in 1 .. m : Pend'[n + k] = ds[k]
        /\ Pend'[n + m + 1] = e
  BY ONLY <1>1, <1>2, <1>5, BehindMore
<1>8. /\ \A k \in 1 .. m : \E j \in LateOnes : ds[k] = Item("chunk", LastRun, events[j].chunk, TRUE)
      /\ \A j \in LateOnes : \E k \in 1 .. m : ds[k] = Item("chunk", LastRun, events[j].chunk, TRUE)
      /\ \A k, l \in 1 .. m : ds[k].chunk = ds[l].chunk => k = l
  BY <1>5, <1>7, DrainedIs
<1> DEFINE N == {i \in Places' : i - n \in 1 .. m}
           last == n + m + 1
<1>9. /\ Places = 1 .. n /\ Places' = 1 .. n + m + 1
      /\ \A i \in Places' : i \in Places \/ i \in N \/ i = last
      /\ \A i \in Places : i \in Places' /\ i \notin N /\ i # last /\ i < last
      /\ \A k \in 1 .. m : n + k \in N /\ (n + k) - n = k
      /\ \A i \in N : i - n \in 1 .. m /\ n + (i - n) = i /\ i # last
      /\ last \in Places' /\ last = Len(Pend')
      /\ \A i, j \in N : i - n = j - n => i = j
  <2>1. Places = 1 .. n /\ Places' = 1 .. n + m + 1
    BY <1>7 DEF Places
  <2> QED BY <1>7, <2>1
<1>10. /\ \A i \in Places : Pend'[i] = Pend[i]
       /\ \A i \in N : Pend'[i] = ds[i - n]
       /\ Pend'[last] = e
  BY <1>7, <1>9
<1> HIDE DEF N, last
<1>11. \A i \in N : \E j \in LateOnes :
          /\ Pend'[i].op = "chunk" /\ Pend'[i].run = LastRun /\ Pend'[i].chunk = events[j].chunk /\ Pend'[i].ok = TRUE
          /\ j \in Answers /\ events[j].ok /\ Now \in Resumable /\ events[j].chunk \in Chunks
  <2>1. SUFFICES ASSUME NEW i \in N
                 PROVE  \E j \in LateOnes :
          /\ Pend'[i].op = "chunk" /\ Pend'[i].run = LastRun /\ Pend'[i].chunk = events[j].chunk /\ Pend'[i].ok = TRUE
          /\ j \in Answers /\ events[j].ok /\ Now \in Resumable /\ events[j].chunk \in Chunks
    OBVIOUS
  <2>2. i - n \in 1 .. m /\ Pend'[i] = ds[i - n]
    BY <1>9, <1>10
  <2>3. PICK k \in 1 .. m : Pend'[i] = ds[k]
    BY <2>2
  <2>4. PICK j \in LateOnes : ds[k] = Item("chunk", LastRun, events[j].chunk, TRUE)
    BY <1>8
  <2>5. j \in Answers /\ events[j].ok /\ Now \in Resumable
    BY DEF LateOnes
  <2>6. events[j].chunk \in Chunks
    BY <2>5 DEF Sound, Heard, Answers
  <2> QED BY <2>3, <2>4, <2>5, <2>6 DEF Item
<1>12. \A i \in N : Pend'[i].op = "chunk" /\ Pend'[i].run = LastRun /\ Pend'[i].chunk \in Chunks /\ Pend'[i].ok = TRUE
  BY <1>11
<1>13. e.op = "end"
  BY <1>4, <1>5
\* the last run is over, and was announced
<1>14. Quiet /\ ~Active /\ Now \notin {"submitted", "running"}
  <2>1. ~Active
    BY <1>2 DEF Sound, Heard
  <2>2. ~(~Quiet /\ Now \in Ended)
    BY <1>2 DEF Sound, Staged, Nothing, Bare, Item
  <2>3. Now \in {"none", "gone", "submitted", "running"} \cup Ended
    BY NowTyped DEF Sound
  <2> QED BY <2>1, <2>2, <2>3 DEF Active, Quiet
<1>15. caller = "idle" /\ at.op = "nothing"
  BY <1>2 DEF Sound, Claims, Nothing, Bare, Item
<1>16. ~Waits("job") /\ ~Waits("ended") /\ live = 0
  BY <1>14 DEF Sound, Staged
<1>17. ~Waits("end")
  <2>1. SUFFICES ASSUME NEW i \in Places, Pend[i] = Bare("end") PROVE FALSE
    BY DEF Waits, Sound, Queued
  <2>2. PICK b \in Nat, r \in Nat : b = Len(buffer) /\ r = Len(records)
    BY <1>1, LenProperties DEF TypeOK
  <2>3. buffer \in Seq(Records) /\ records \in Seq(Records)
    BY <1>1 DEF TypeOK, Records
  <2>4. Len(Pend) = b + r /\ \A l \in 1 .. b + r : Pend[l] = IF l <= b THEN buffer[l] ELSE records[l - b]
    BY <2>2, <2>3, ConcatProperties DEF Pend
  <2>5. PICK s : s = records \o buffer
    OBVIOUS
  <2>6. Len(s) = r + b /\ \A l \in 1 .. r + b : s[l] = IF l <= r THEN records[l] ELSE buffer[l - r]
    BY ONLY <2>2, <2>3, <2>5, ConcatProperties
  <2>7. \A l \in 1 .. Len(s) : s[l] # Bare("end")
    BY <1>2, <2>5 DEF Contains
  <2>8. i \in 1 .. b + r
    BY <2>4 DEF Places
  <2>9. CASE i <= b
    <3>1. r + i \in 1 .. r + b /\ ~(r + i <= r) /\ (r + i) - r = i
      BY <2>2, <2>8, <2>9
    <3>2. s[r + i] = Pend[i]
      BY <2>4, <2>6, <2>8, <2>9, <3>1
    <3> QED BY <2>1, <2>6, <2>7, <3>1, <3>2
  <2>10. CASE ~(i <= b)
    <3>1. i - b \in 1 .. r + b /\ i - b <= r
      BY <2>2, <2>8, <2>10
    <3>2. s[i - b] = Pend[i]
      BY <2>4, <2>6, <2>8, <2>10, <3>1
    <3> QED BY <2>1, <2>6, <2>7, <3>1, <3>2
  <2> QED BY <2>9, <2>10
<1>18. \A i \in Places : Pend[i].op \notin {"job", "ended", "end", "discard"} /\ ~IsFlush(Pend[i], "caller")
                         /\ ~IsFlush(Pend[i], "delivery")
  BY <1>15, <1>16, <1>17 DEF Waits, Sound, Queued
<1>19. \A i \in Places' : Pend'[i].op \notin {"job", "ended", "discard", "flush"}
  <2>1. \A i \in Places : Pend[i].op # "flush"
    BY <1>18 DEF IsFlush
  <2> QED BY <1>9, <1>10, <1>12, <1>13, <1>18, <2>1
<1>20. ~Waits("job")' /\ ~Waits("ended")' /\ Waits("end")'
  BY <1>9, <1>10, <1>13, <1>19 DEF Waits
<1>21. Results = {} /\ Results' = {} /\ Answers' = {}
  BY <1>2 DEF Results, Answers
<1>22. /\ Marks \subseteq Places /\ Marks' \subseteq Places'
       /\ \A i \in Marks' : i \in N \/ (i \in Marks /\ Pend'[i] = Pend[i])
       /\ \A i \in Marks : i \in Marks' /\ Pend'[i] = Pend[i]
       /\ \A i \in N : i \in Marks'
  BY <1>9, <1>10, <1>12, <1>13 DEF Marks, N
<1>23. Quiet'
  BY <1>2, <1>3, <1>14 DEF Quiet
<1>t. TypeOK'
  BY ONLY <1>1, <1>2, <1>6, EmptySeq DEF TypeOK, Records, Events
<1>24. RunsInOrder' /\ Numbered'
  BY <1>2, <1>3, RunsInOrderStays, NumberedStays DEF Sound
<1>25. Claims' /\ Heard'
  BY <1>2, <1>3, <1>14, <1>15, <1>21 DEF Sound, Claims, Heard, Active
<1>26. Staged'
  <2>1. deliveries' = <<>> /\ at' = Nothing /\ live' = 0 /\ looping' = FALSE
    BY <1>1, <1>2, <1>16 DEF TypeOK
  <2>2. todo' = <<>> /\ out' = {} /\ open' = {} /\ ~fed'
    BY <1>2, <1>14 DEF Sound, Staged
  <2> QED BY ONLY <1>3, <1>14, <1>20, <1>21, <1>23, <2>1, <2>2 DEF Staged
<1>27. Queued'
  <2>1. \A i \in Places' :
       /\ Pend'[i].op \in OfJob => Pend'[i].run = LastRun /\ Now \notin {"none", "gone"}
       /\ Pend'[i].op = "chunk" => Pend'[i].chunk \in Chunks
       /\ Pend'[i].op = "end" => i = Len(Pend') /\ Pend'[i] = Bare("end")
    <3>1. SUFFICES ASSUME NEW i \in Places'
                   PROVE  /\ Pend'[i].op \in OfJob => Pend'[i].run = LastRun /\ Now \notin {"none", "gone"}
                          /\ Pend'[i].op = "chunk" => Pend'[i].chunk \in Chunks
                          /\ Pend'[i].op = "end" => i = Len(Pend') /\ Pend'[i] = Bare("end")
      OBVIOUS
    <3>2. CASE i \in Places
      BY <1>10, <1>18, <3>2 DEF Sound, Queued
    <3>3. CASE i \in N
      BY <1>11, <1>12, <3>3 DEF Resumable
    <3>4. CASE i = last
      BY <1>5, <1>9, <1>10, <1>13, <3>4 DEF OfJob
    <3> QED BY <1>9, <3>2, <3>3, <3>4
  <2>2. Waits("chunk")' => row.n = Number
    <3>1. SUFFICES ASSUME NEW i \in Marks' PROVE row.n = Number
      BY DEF Waits, Marks
    <3>2. CASE i \in Marks
      BY <1>16, <3>2 DEF Sound, Queued, Waits, Marks
    <3>3. CASE i \in N
      BY <1>11, <1>16, <3>3 DEF Sound, Unrecorded
    <3> QED BY <1>22, <3>2, <3>3
  <2> QED BY <1>2, <1>3, <1>19, <1>20, <2>1, <2>2 DEF Queued, IsFlush
<1>28. Flushing'
  <2>1. flushed = {}
    BY <1>1, <1>15 DEF TypeOK, Sound, Flushing
  <2>2. \A i \in Places' : \A who \in {"caller", "delivery"} : ~IsFlush(Pend'[i], who)
    BY <1>19 DEF IsFlush
  <2> QED BY <1>2, <1>15, <1>19, <1>20, <2>1, <2>2 DEF Flushing
<1>29. Late'
  BY <1>2, <1>3, <1>15, <1>21 DEF Sound, Late
<1>30. Apart'
  <2>1. 1 .. Len(todo') = {} /\ out' = {}
    BY <1>2, <1>14 DEF Sound, Staged
  <2>2. \A i, j \in Marks' : Pend'[i].chunk = Pend'[j].chunk => i = j
    <3>1. \A i, j \in Marks : Pend[i].chunk = Pend[j].chunk => i = j
      BY DEF Sound, Apart
    <3>2. \A i \in Marks, j \in N : Pend[i].chunk # Pend'[j].chunk
      BY <1>11 DEF Sound, Apart
    <3>3. \A i, j \in N : Pend'[i].chunk = Pend'[j].chunk => i = j
      <4>1. SUFFICES ASSUME NEW i \in N, NEW j \in N, Pend'[i].chunk = Pend'[j].chunk PROVE i = j
        OBVIOUS
      <4>2. i - n \in 1 .. m /\ j - n \in 1 .. m /\ Pend'[i] = ds[i - n] /\ Pend'[j] = ds[j - n]
        BY <1>9, <1>10
      <4>3. PICK k \in 1 .. m, l \in 1 .. m : k = i - n /\ l = j - n
        BY <4>2
      <4>4. k = l
        BY <1>8, <4>1, <4>2, <4>3
      <4> QED BY <1>9, <4>3, <4>4
    <3> QED BY ONLY <1>22, <3>1, <3>2, <3>3
  <2> QED BY ONLY <1>21, <2>1, <2>2 DEF Apart
<1>31. Unrecorded'
  <2>1. \A i \in Marks' : <<Number, Pend'[i].chunk>> \notin rows
    <3>1. \A i \in Marks : <<Number, Pend[i].chunk>> \notin rows
      BY DEF Sound, Unrecorded
    <3>2. \A i \in N : <<Number, Pend'[i].chunk>> \notin rows
      BY <1>11 DEF Sound, Unrecorded
    <3> QED BY <1>22, <3>1, <3>2
  <2> QED BY <1>2, <1>3, <1>14, <1>21, <2>1 DEF Sound, Unrecorded, Active
<1>32. Accounted'
  BY <1>3, <1>14 DEF Accounted
<1>33. Counted'
  <2>1. \A c \in Chunks : Owed(c)' <=> Owed(c)
    BY <1>2, <1>3, <1>21 DEF Owed, Shown
  <2>2. ASSUME ~broken, NEW c \in Chunks, Kept(c) PROVE Kept(c)'
    <3>1. CASE \E i \in Answers : events[i].chunk = c /\ events[i].ok
      <4>1. PICK j \in Answers : events[j].chunk = c /\ events[j].ok
        BY <3>1
      <4>2. Now \in Resumable
        BY <2>2, <4>1, NowTyped, <1>14 DEF Sound, Late, Heard, Final, Resumable, Ended, Answers
      <4>3. PICK k \in 1 .. m : ds[k] = Item("chunk", LastRun, events[j].chunk, TRUE)
        BY <1>8, <4>1, <4>2 DEF LateOnes
      <4>4. n + k \in N /\ Pend'[n + k] = ds[k]
        BY <1>9, <1>10, <4>3
      <4>5. Pend'[n + k].chunk = c /\ Pend'[n + k].ok
        BY <4>1, <4>3, <4>4 DEF Item
      <4> QED BY <1>22, <4>4, <4>5 DEF Kept
    <3>2. CASE \E i \in Marks : Pend[i].chunk = c /\ Pend[i].ok
      BY <1>22, <3>2 DEF Kept
    <3>3. CASE row.s \in Final \/ <<row.n, c>> \in rows
      BY <1>2, <3>3 DEF Kept
    <3> QED BY <1>16, <2>2, <3>1, <3>2, <3>3 DEF Kept
  <2>3. \A i \in Marks' : Pend'[i].ok => taken[Pend'[i].chunk] > 0
    <3>1. \A i \in Marks : Pend[i].ok => taken[Pend[i].chunk] > 0
      BY DEF Sound, Counted
    <3>2. \A i \in N : taken[Pend'[i].chunk] > 0
      BY <1>11 DEF Sound, Counted
    <3> QED BY <1>22, <3>1, <3>2
  <2>4. Cap' = Cap
    BY <1>2 DEF Cap
  <2> QED BY <1>2, <1>3, <1>15, <1>21, <2>1, <2>2, <2>3, <2>4 DEF Sound, Counted
<1>34. Told'
  BY <1>2, <1>3, <1>16, <1>20, <1>21 DEF Sound, Told, Active
<1> QED BY <1>t, <1>24, <1>25, <1>26, <1>27, <1>28, <1>29, <1>30, <1>31, <1>32, <1>33, <1>34 DEF Sound
-----------------------------------------------------------------------------
(* What the writer puts in the file *)

\* There is a function as `Puts` describes it, one record after the other.
LEMMA PutsSteps ==
  ASSUME buffer \in Seq(Records)
  PROVE  \E w : /\ Written = PutChunks(w[Len(buffer)])
                /\ w[0] = [row |-> row, rows |-> rows, held |-> <<>>, live |-> live]
                /\ \A i \in 1 .. Len(buffer) : w[i] = Put(w[i - 1], buffer[i])
<1> DEFINE first == [row |-> row, rows |-> rows, held |-> <<>>, live |-> live]
           F(n, f) == f = [i \in 0 .. n |-> IF i = 0 THEN first ELSE Put(f[i - 1], buffer[i])]
           Bad == {n \in Nat : ~\E f : F(n, f)}
<1>1. Bad = {}
  <2> HIDE DEF first
  <2>1. SUFFICES ASSUME Bad # {} PROVE FALSE
    OBVIOUS
  <2>2. PICK m \in Bad : \A k \in Bad : m <= k
    BY <2>1, Least
  <2>3. m # 0
    <3> DEFINE f == [i \in 0 .. 0 |-> first]
    <3>1. F(0, f)
      OBVIOUS
    <3> HIDE DEF F
    <3> QED BY <3>1
  <2>4. m - 1 \in Nat /\ m \in Nat /\ ~(m <= m - 1)
    BY <2>3
  <2>5. PICK f : F(m - 1, f)
    <3> HIDE DEF F
    <3> QED BY <2>2, <2>4
  <2> DEFINE g == [i \in 0 .. m |-> IF i = m THEN Put(f[m - 1], buffer[m]) ELSE f[i]]
  <2>6. \A i \in 0 .. m : g[i] = IF i = 0 THEN first ELSE Put(g[i - 1], buffer[i])
    <3>1. SUFFICES ASSUME NEW i \in 0 .. m PROVE g[i] = IF i = 0 THEN first ELSE Put(g[i - 1], buffer[i])
      OBVIOUS
    <3>2. i = 0 \/ (i - 1 \in 0 .. m - 1 /\ i - 1 \in 0 .. m /\ i - 1 # m)
      BY <2>4
    <3>3. i # 0 => g[i - 1] = f[i - 1]
      BY <3>2
    <3>4. CASE i = m
      BY <2>3, <3>3, <3>4
    <3>5. CASE i # m
      <4>1. i \in 0 .. m - 1
        BY <2>4, <3>5
      <4>2. f[i] = IF i = 0 THEN first ELSE Put(f[i - 1], buffer[i])
        BY <2>5, <4>1
      <4> QED BY <3>3, <3>5, <4>2
    <3> QED BY <3>4, <3>5
  <2>7. F(m, g)
    <3>1. g = [i \in 0 .. m |-> g[i]]
      OBVIOUS
    <3>2. [i \in 0 .. m |-> g[i]] = [i \in 0 .. m |-> IF i = 0 THEN first ELSE Put(g[i - 1], buffer[i])]
      BY <2>6
    <3> HIDE DEF g
    <3> QED BY <3>1, <3>2
  <2>8. m \notin Bad
    <3> HIDE DEF g, F
    <3> QED BY <2>7
  <2> QED BY <2>8
<1>2. PICK n \in Nat : n = Len(buffer)
  BY LenProperties
<1> DEFINE w == CHOOSE f : F(n, f)
<1>3. F(n, w)
  <2>1. \E f : F(n, f)
    <3> HIDE DEF F
    <3> QED BY <1>1
  <2> HIDE DEF F
  <2> QED BY <2>1
<1>4. Puts = w
  BY <1>2 DEF Puts
<1> HIDE DEF w
<1>5. \A i \in 0 .. n : w[i] = IF i = 0 THEN first ELSE Put(w[i - 1], buffer[i])
  <2> HIDE DEF first
  <2> QED BY <1>3
<1>6. 0 \in 0 .. n /\ \A i \in 1 .. n : i \in 0 .. n /\ i # 0
  OBVIOUS
<1>7. w[0] = first /\ \A i \in 1 .. n : w[i] = Put(w[i - 1], buffer[i])
  <2> HIDE DEF first
  <2> QED BY <1>5, <1>6
<1>8. Written = PutChunks(w[n])
  BY <1>2, <1>4 DEF Written
<1> QED BY <1>2, <1>7, <1>8

\* What the writer holds is typed.
Held  == [at : (1 .. RunsMax) \X Chunks, ok : BOOLEAN]
Files == [row : [n : 0 .. RunsMax, s : {"none", "running", "submitted", "new", "gone"} \cup Ended],
          rows : SUBSET ((1 .. RunsMax) \X Chunks), held : Seq(Held), live : 0 .. RunsMax]

LEMMA PutChunksIs ==
  ASSUME NEW f \in Files
  PROVE  /\ PutChunks(f) \in Files
         /\ PutChunks(f).row = f.row /\ PutChunks(f).live = f.live /\ PutChunks(f).held = <<>>
         /\ \A p : p \in PutChunks(f).rows <=>
              \/ p \in f.rows /\ \A h \in 1 .. Len(f.held) : p # f.held[h].at
              \/ \E h \in 1 .. Len(f.held) : f.held[h].ok /\ p = f.held[h].at
<1>1. f.held \in Seq(Held) /\ f.rows \subseteq (1 .. RunsMax) \X Chunks /\ DOMAIN f.held = 1 .. Len(f.held)
  BY DEF Files
<1>2. \A h \in 1 .. Len(f.held) : f.held[h] \in Held
  BY <1>1, ElementOfSeq
<1> DEFINE R == {p \in f.rows : ~\E i \in DOMAIN f.held : p = f.held[i].at}
                \cup {h.at : h \in {h \in ToSet(f.held) : h.ok}}
<1>3. \A p : p \in R <=> \/ p \in f.rows /\ \A h \in 1 .. Len(f.held) : p # f.held[h].at
                         \/ \E h \in 1 .. Len(f.held) : f.held[h].ok /\ p = f.held[h].at
  BY <1>1 DEF ToSet
<1>4. R \subseteq (1 .. RunsMax) \X Chunks
  <2>1. \A h \in 1 .. Len(f.held) : f.held[h].at \in (1 .. RunsMax) \X Chunks
    BY <1>2 DEF Held
  <2> QED BY <1>1, <1>3, <2>1
<1>5. PutChunks(f) = [f EXCEPT !.rows = R, !.held = <<>>]
  BY DEF PutChunks
<1> HIDE DEF R
<1>6. /\ PutChunks(f) = [row |-> f.row, rows |-> R, held |-> <<>>, live |-> f.live]
  BY <1>5 DEF Files
<1>7. PutChunks(f) \in Files
  BY <1>4, <1>6, EmptySeq DEF Files
<1> QED BY <1>3, <1>6, <1>7

\* What one record makes of the file, by its kind.
LEMMA PutJob ==
  ASSUME NEW f \in Files, NEW x \in Records, x.op = "job", x.run \in Runs, TypeOK
  PROVE  /\ Put(f, x) \in Files
         /\ Put(f, x).row = [n |-> num[x.run], s |-> status[x.run]] /\ Put(f, x).live = x.run
         /\ Put(f, x).rows = PutChunks(f).rows /\ Put(f, x).held = <<>>
<1>1. PICK g \in Files : g = PutChunks(f)
  BY PutChunksIs
<1>2. Put(f, x) = [g EXCEPT !.row = [n |-> num[x.run], s |-> status[x.run]], !.live = x.run]
  BY <1>1 DEF Put
<1>3. num[x.run] \in 0 .. RunsMax /\ status[x.run] \in {"none", "running", "submitted", "new", "gone"} \cup Ended
      /\ x.run \in 0 .. RunsMax
  BY DEF TypeOK, Runs
<1>4. g.held = <<>>
  BY <1>1, PutChunksIs
<1>5. PICK v : v = [n |-> num[x.run], s |-> status[x.run]]
  OBVIOUS
<1>6. v \in [n : 0 .. RunsMax, s : {"none", "running", "submitted", "new", "gone"} \cup Ended]
  BY <1>3, <1>5
<1>7. Put(f, x) = [row |-> v, rows |-> g.rows, held |-> <<>>, live |-> x.run]
  <2>1. Put(f, x) = [g EXCEPT !.row = v, !.live = x.run]
    BY <1>2, <1>5
  <2> QED BY <1>4, <2>1 DEF Files
<1>8. Put(f, x) \in Files
  BY <1>3, <1>6, <1>7, EmptySeq DEF Files
<1> QED BY <1>1, <1>5, <1>7, <1>8

LEMMA PutEnded ==
  ASSUME NEW f \in Files, NEW x \in Records, x.op = "ended", x.run \in Runs, TypeOK, f.row.n = num[x.run]
  PROVE  /\ Put(f, x) \in Files
         /\ Put(f, x).row = [n |-> f.row.n, s |-> status[x.run]] /\ Put(f, x).live = 0
         /\ Put(f, x).rows = IF x.ok THEN {p \in PutChunks(f).rows : p[1] # num[x.run]} ELSE PutChunks(f).rows
         /\ Put(f, x).held = <<>>
<1>1. PICK g \in Files : g = PutChunks(f)
  BY PutChunksIs
<1>2. g.row = f.row /\ g.held = <<>>
  BY <1>1, PutChunksIs
<1>3. PICK h : h = [g EXCEPT !.row.s = status[x.run]]
  OBVIOUS
<1>4. Put(f, x) = [h EXCEPT !.rows = IF x.ok THEN {p \in @ : p[1] # num[x.run]} ELSE @, !.live = 0]
  BY <1>1, <1>3 DEF Put
<1>5. status[x.run] \in {"none", "running", "submitted", "new", "gone"} \cup Ended /\ 0 \in 0 .. RunsMax
  BY JournalAssumption DEF TypeOK
<1>6. h \in Files /\ h.row = [n |-> g.row.n, s |-> status[x.run]] /\ h.rows = g.rows /\ h.held = g.held
  BY <1>3, <1>5 DEF Files
<1>7. PICK R : R = IF x.ok THEN {p \in g.rows : p[1] # num[x.run]} ELSE g.rows
  OBVIOUS
<1>8. R \subseteq (1 .. RunsMax) \X Chunks
  BY <1>7 DEF Files
<1>9. PICK v : v = h.row
  OBVIOUS
<1>10. v \in [n : 0 .. RunsMax, s : {"none", "running", "submitted", "new", "gone"} \cup Ended]
  BY <1>6, <1>9 DEF Files
<1>11. Put(f, x) = [row |-> v, rows |-> R, held |-> <<>>, live |-> 0]
  <2>1. Put(f, x) = [h EXCEPT !.rows = R, !.live = 0]
    BY <1>4, <1>6, <1>7 DEF Files
  <2>2. h.held = <<>>
    BY <1>2, <1>6
  <2> QED BY <1>6, <1>9, <2>1, <2>2 DEF Files
<1>12. Put(f, x) \in Files
  BY <1>5, <1>8, <1>10, <1>11, EmptySeq DEF Files
<1> QED BY <1>1, <1>2, <1>6, <1>7, <1>9, <1>11, <1>12

LEMMA PutChunk ==
  ASSUME NEW f \in Files, NEW x \in Records, x.op = "chunk",
         [at |-> <<num[x.run], x.chunk>>, ok |-> x.ok] \in Held
  PROVE  /\ Put(f, x) \in Files
         /\ Put(f, x).row = f.row /\ Put(f, x).live = f.live /\ Put(f, x).rows = f.rows
         /\ Put(f, x).held = Append(f.held, [at |-> <<num[x.run], x.chunk>>, ok |-> x.ok])
<1>1. PICK e \in Held : e = [at |-> <<num[x.run], x.chunk>>, ok |-> x.ok]
  OBVIOUS
<1>2. Put(f, x) = [f EXCEPT !.held = Append(@, e)]
  BY <1>1 DEF Put
<1>3. f.held \in Seq(Held)
  BY DEF Files
<1>4. Append(f.held, e) \in Seq(Held)
  BY <1>3, AppendProperties
<1> QED BY <1>1, <1>2, <1>4 DEF Files

LEMMA PutOther ==
  ASSUME NEW f \in Files, NEW x \in Records, x.op \in {"flush", "end"}
  PROVE  Put(f, x) = f
  BY DEF Put

LEMMA PutDiscard ==
  ASSUME NEW f \in Files, NEW x \in Records, x.op = "discard"
  PROVE  /\ Put(f, x) \in Files /\ Put(f, x).row = NoRow /\ Put(f, x).live = f.live /\ Put(f, x).held = f.held
         /\ Put(f, x).rows = {p \in f.rows : p[1] # f.row.n}
<1>1. Put(f, x) = [f EXCEPT !.rows = {p \in @ : p[1] # f.row.n}, !.row = NoRow]
  BY DEF Put
<1>2. NoRow \in [n : 0 .. RunsMax, s : {"none", "running", "submitted", "new", "gone"} \cup Ended]
  BY JournalAssumption DEF NoRow
<1>3. PICK v : v = NoRow
  OBVIOUS
<1>4. Put(f, x) = [row |-> v, rows |-> {p \in f.rows : p[1] # f.row.n}, held |-> f.held, live |-> f.live]
  <2>1. Put(f, x) = [f EXCEPT !.rows = {p \in @ : p[1] # f.row.n}, !.row = v]
    BY <1>1, <1>3
  <2> QED BY <2>1 DEF Files
<1>5. Put(f, x) \in Files
  BY <1>2, <1>3, <1>4 DEF Files
<1> QED BY <1>3, <1>4, <1>5

-----------------------------------------------------------------------------
(* A transaction that discards nothing *)

\* What there is among the first records of the transaction.
Before(op, i) == \E k \in 1 .. i : buffer[k].op = op
Marked(i)     == {k \in 1 .. i : buffer[k].op = "chunk"}
Entry(k)      == [at |-> <<Number, buffer[k].chunk>>, ok |-> buffer[k].ok]

\* What the writer has made of the file after the first records.
Prefix(f, i) ==
  /\ f \in Files
  /\ f.row = [n |-> IF Before("job", i) THEN Number ELSE row.n,
              s |-> IF Before("job", i) \/ Before("ended", i) THEN Now ELSE row.s]
  /\ f.live = IF Before("ended", i) THEN 0 ELSE IF Before("job", i) THEN LastRun ELSE live
  /\ \A h \in 1 .. Len(f.held) : f.held[h].at \notin f.rows /\ \E k \in Marked(i) : f.held[h] = Entry(k)
  /\ \A p \in f.rows : p \in rows \/ \E k \in Marked(i) : buffer[k].ok /\ p = Entry(k).at
  /\ ~(Before("ended", i) /\ Now \in Final) =>
       /\ rows \subseteq f.rows
       /\ \A k \in Marked(i) : buffer[k].ok =>
            Entry(k).at \in f.rows \/ \E h \in 1 .. Len(f.held) : f.held[h] = Entry(k)

LEMMA PrefixPut ==
  ASSUME NEW i, NEW f, Prefix(f, i)
  PROVE  Prefix(PutChunks(f), i) /\ PutChunks(f).held = <<>> /\ PutChunks(f) \in Files
<1>1. PICK g \in Files : g = PutChunks(f)
  BY PutChunksIs DEF Prefix
<1>2. /\ g.row = f.row /\ g.live = f.live /\ g.held = <<>>
      /\ \A p : p \in g.rows <=>
              \/ p \in f.rows /\ \A h \in 1 .. Len(f.held) : p # f.held[h].at
              \/ \E h \in 1 .. Len(f.held) : f.held[h].ok /\ p = f.held[h].at
  BY <1>1, PutChunksIs DEF Prefix
<1>3. \A h \in 1 .. Len(f.held) : f.held[h].at \notin f.rows /\ \E k \in Marked(i) : f.held[h] = Entry(k)
  BY DEF Prefix
<1>4. 1 .. Len(g.held) = {}
  BY <1>2
<1>5. \A p \in g.rows : p \in rows \/ \E k \in Marked(i) : buffer[k].ok /\ p = Entry(k).at
  <2>1. SUFFICES ASSUME NEW h \in 1 .. Len(f.held), f.held[h].ok
                 PROVE  \E k \in Marked(i) : buffer[k].ok /\ f.held[h].at = Entry(k).at
    BY <1>2 DEF Prefix
  <2>2. PICK k \in Marked(i) : f.held[h] = Entry(k)
    BY <1>3
  <2> QED BY <2>1, <2>2 DEF Entry
<1>6. ASSUME ~(Before("ended", i) /\ Now \in Final)
      PROVE  /\ rows \subseteq g.rows
             /\ \A k \in Marked(i) : buffer[k].ok => Entry(k).at \in g.rows
  <2>1. f.rows \subseteq g.rows
    BY <1>2, <1>3
  <2>2. \A h \in 1 .. Len(f.held) : f.held[h].ok => f.held[h].at \in g.rows
    BY <1>2
  <2>3. rows \subseteq f.rows
    BY <1>6 DEF Prefix
  <2>4. ASSUME NEW k \in Marked(i), buffer[k].ok PROVE Entry(k).at \in g.rows
    <3>1. Entry(k).at \in f.rows \/ \E h \in 1 .. Len(f.held) : f.held[h] = Entry(k)
      BY <1>6, <2>4 DEF Prefix
    <3>2. Entry(k).ok
      BY <2>4 DEF Entry
    <3> QED BY <2>1, <2>2, <3>1, <3>2
  <2> QED BY <2>1, <2>3, <2>4
<1>7. Prefix(g, i)
  BY <1>1, <1>2, <1>4, <1>5, <1>6 DEF Prefix
<1> QED BY <1>1, <1>2, <1>7

\* What is known of the records of the transaction.
LEMMA InBuffer ==
  ASSUME Sound
  PROVE  \E b \in Nat :
           /\ b = Len(buffer) /\ \A i \in 1 .. b : i \in Places /\ buffer[i] = Pend[i] /\ buffer[i] \in Records
           /\ \A i \in Places : i <= b \/ i - b \in 1 .. Len(records)
           /\ \A i \in 1 .. Len(records) : i + b \in Places /\ Pend[i + b] = records[i] /\ i + b > b
           /\ Len(Pend) = b + Len(records) /\ Len(records) \in Nat
<1>1. TypeOK
  BY DEF Sound
<1>2. buffer \in Seq(Records) /\ records \in Seq(Records)
  BY <1>1 DEF TypeOK, Records
<1>3. PICK b \in Nat, r \in Nat : b = Len(buffer) /\ r = Len(records)
  BY <1>2, LenProperties
<1>4. Len(Pend) = b + r /\ (\A i \in 1 .. b : Pend[i] = buffer[i]) /\ \A i \in 1 .. r : Pend[i + b] = records[i]
  BY <1>1, <1>3, PendTyped
<1>5. \A i \in 1 .. b : buffer[i] \in Records
  BY <1>2, <1>3, ElementOfSeq
<1>6. Places = 1 .. b + r
  BY <1>4 DEF Places
<1>7. /\ \A i \in 1 .. b : i \in 1 .. b + r
      /\ \A i \in 1 .. b + r : i <= b \/ i - b \in 1 .. r
      /\ \A i \in 1 .. r : i + b \in 1 .. b + r /\ i + b > b
  BY <1>3
<1> QED BY <1>3, <1>4, <1>5, <1>6, <1>7

\* The records of chunks in the transaction are about chunks that are not on record, all different.
LEMMA EntryIs ==
  ASSUME Sound, NEW b \in Nat, b = Len(buffer)
  PROVE  /\ \A k \in Marked(b) : /\ Entry(k) \in Held /\ Entry(k).at \notin rows /\ Entry(k).ok = buffer[k].ok
                                 /\ buffer[k].run = LastRun /\ LastRun \in Runs /\ Number = num[LastRun]
                                 /\ Entry(k) = [at |-> <<num[buffer[k].run], buffer[k].chunk>>, ok |-> buffer[k].ok]
                                 /\ k \in Marks /\ buffer[k] = Pend[k] /\ Entry(k).at = <<Number, Pend[k].chunk>>
                                 /\ Number \in 1 .. RunsMax /\ Pend[k].chunk \in Chunks
         /\ \A k, l \in Marked(b) : Entry(k).at = Entry(l).at => k = l
<1>1. TypeOK
  BY DEF Sound
<1>2. ASSUME NEW k \in Marked(b)
      PROVE  /\ k \in Marks /\ buffer[k] = Pend[k] /\ buffer[k] \in Records /\ buffer[k].chunk \in Chunks
             /\ buffer[k].run = LastRun /\ Now \notin {"none", "gone"}
  <2>1. k \in 1 .. b /\ k \in Places /\ buffer[k] = Pend[k] /\ buffer[k] \in Records /\ buffer[k].op = "chunk"
    BY InBuffer DEF Marked
  <2> QED BY <2>1 DEF Marks, Sound, Queued, OfJob
<1>3. ASSUME NEW k \in Marked(b) PROVE LastRun \in Runs /\ Number = num[LastRun] /\ Number \in 1 .. RunsMax
  <2>1. Now \notin {"none", "gone"} /\ k \in Marks
    BY <1>2
  <2>2. Now # "submitted"
    BY <2>1 DEF Sound, Staged, Waits, Marks
  <2>3. Number >= 1
    BY <2>1, <2>2, NowTyped DEF Sound, Numbered
  <2> QED BY <2>1, <2>3, NowTyped
<1>4. \A k \in Marked(b) : buffer[k].ok \in BOOLEAN
  BY <1>2 DEF Records, Items
<1>5. \A k \in Marked(b) : Entry(k) \in Held
  BY <1>2, <1>3, <1>4 DEF Entry, Held
<1>6. \A k \in Marked(b) : Entry(k).at \notin rows
  BY <1>2 DEF Entry, Sound, Unrecorded
<1>7. \A k, l \in Marked(b) : Entry(k).at = Entry(l).at => k = l
  BY <1>2 DEF Entry, Sound, Apart
<1> QED BY <1>2, <1>3, <1>5, <1>6, <1>7 DEF Entry

\* The next record is put.
LEMMA PrefixGrows ==
  ASSUME Sound, NEW b \in Nat, b = Len(buffer), NEW i \in 1 .. b, NEW f, Prefix(f, i - 1),
         buffer[i].op # "discard"
  PROVE  Prefix(Put(f, buffer[i]), i)
<1>1. TypeOK /\ f \in Files
  BY DEF Sound, Prefix
<1>2. PICK x \in Records : x = buffer[i] /\ x = Pend[i] /\ i \in Places
  BY InBuffer
<1>3. x.op \in {"job", "chunk", "ended", "flush", "end"}
  BY <1>2 DEF Records, Items
<1>4. \A op : Before(op, i) <=> Before(op, i - 1) \/ x.op = op
  <2>1. \A k \in 1 .. i : k \in 1 .. i - 1 \/ k = i
    OBVIOUS
  <2>2. i \in 1 .. i /\ \A k \in 1 .. i - 1 : k \in 1 .. i
    OBVIOUS
  <2> QED BY <1>2, <2>1, <2>2 DEF Before
<1>5. /\ \A k \in Marked(i) : k \in Marked(i - 1) \/ (k = i /\ x.op = "chunk")
      /\ \A k \in Marked(i - 1) : k \in Marked(i) /\ k # i /\ k \in Marked(b)
      /\ x.op = "chunk" => i \in Marked(i) /\ i \in Marked(b)
  <2>1. \A k \in 1 .. i : k \in 1 .. i - 1 \/ k = i
    OBVIOUS
  <2>2. i \in 1 .. i /\ \A k \in 1 .. i - 1 : k \in 1 .. i /\ k # i /\ k \in 1 .. b
    OBVIOUS
  <2> QED BY <1>2, <2>1, <2>2 DEF Marked
<1>6. x.op \in OfJob => x.run = LastRun /\ LastRun \in Runs /\ Number = num[LastRun] /\ Now = status[LastRun]
  BY <1>2, NowTyped DEF Sound, Queued
<1>7. PICK g \in Files : g = PutChunks(f) /\ Prefix(g, i - 1) /\ g.held = <<>>
  BY PrefixPut
<1>8. 1 .. Len(g.held) = {}
  BY <1>7
<1>9. CASE x.op = "job"
  <2>1. PICK w \in Files : /\ w = Put(f, x) /\ w.row = [n |-> Number, s |-> Now] /\ w.live = LastRun
                           /\ w.rows = g.rows /\ w.held = <<>>
    BY <1>1, <1>6, <1>7, <1>9, PutJob DEF OfJob
  <2>2. \A k \in 1 .. i - 1 : buffer[k].op \notin OfJob
    <3>1. SUFFICES ASSUME NEW k \in 1 .. i - 1, buffer[k].op \in OfJob PROVE FALSE
      OBVIOUS
    <3>2. k \in Places /\ Pend[k] = buffer[k]
      BY InBuffer
    <3>3. i <= k
      BY <1>2, <1>9, <3>1, <3>2 DEF Sound, Queued
    <3> QED BY <3>3
  <2>3. ~Before("ended", i - 1) /\ ~Before("ended", i) /\ Before("job", i) /\ Marked(i) = {} /\ Marked(i - 1) = {}
    BY <1>4, <1>5, <1>9, <2>2 DEF Before, Marked, OfJob
  <2>4. 1 .. Len(w.held) = {}
    BY <2>1
  <2>5. (\A p \in w.rows : p \in rows) /\ rows \subseteq w.rows
    BY <1>7, <2>1, <2>3 DEF Prefix
  <2> QED BY <1>2, <2>1, <2>3, <2>4, <2>5 DEF Prefix
<1>10. CASE x.op = "ended"
  <2>1. f.row.n = Number
    <3>1. SUFFICES ASSUME ~Before("job", i - 1) PROVE row.n = Number
      BY DEF Prefix
    <3>2. SUFFICES ASSUME Waits("job") PROVE FALSE
      BY <1>2, <1>10 DEF Sound, Queued, Waits
    <3>3. PICK j \in Places : Pend[j].op = "job"
      BY <3>2 DEF Waits
    <3>4. j <= i /\ j # i
      BY <1>2, <1>10, <3>3 DEF Sound, Queued, OfJob
    <3>5. j \in 1 .. i - 1
      BY <3>4 DEF Places
    <3>6. buffer[j] = Pend[j]
      BY <3>5, InBuffer
    <3> QED BY <3>1, <3>3, <3>5, <3>6 DEF Before
  <2>2. PICK w \in Files : /\ w = Put(f, x) /\ w.row = [n |-> Number, s |-> Now] /\ w.live = 0 /\ w.held = <<>>
                           /\ w.rows = IF x.ok THEN {p \in g.rows : p[1] # Number} ELSE g.rows
    <3>1. x.run \in Runs /\ f.row.n = num[x.run] /\ num[x.run] = Number /\ status[x.run] = Now
      BY <1>6, <1>10, <2>1 DEF OfJob
    <3>2. x \in Records /\ f \in Files /\ TypeOK
      BY <1>1, <1>2
    <3>3. /\ Put(f, x) \in Files
          /\ Put(f, x).row = [n |-> f.row.n, s |-> status[x.run]] /\ Put(f, x).live = 0
          /\ Put(f, x).rows = IF x.ok THEN {p \in PutChunks(f).rows : p[1] # num[x.run]} ELSE PutChunks(f).rows
          /\ Put(f, x).held = <<>>
      BY ONLY <1>10, <3>1, <3>2, PutEnded
    <3>4. PICK w \in Files : w = Put(f, x)
      BY <3>3
    <3>5. /\ w.row = [n |-> Number, s |-> Now] /\ w.live = 0 /\ w.held = <<>>
          /\ w.rows = IF x.ok THEN {p \in g.rows : p[1] # Number} ELSE g.rows
      BY ONLY <1>7, <2>1, <3>1, <3>3, <3>4
    <3> QED BY <3>4, <3>5
  <2>3. Before("ended", i) /\ (Before("job", i) <=> Before("job", i - 1)) /\ Marked(i) = Marked(i - 1)
    BY <1>4, <1>5, <1>10
  <2>4. x.ok = (Now \notin Resumable) /\ Now \in Ended
    BY <1>2, <1>10 DEF Sound, Queued
  <2>5. Now \notin Final => w.rows = g.rows
    BY <2>2, <2>4 DEF Final, Resumable, Ended
  <2>6. w.rows \subseteq g.rows
    BY <2>2
  <2>7. w.row.n = IF Before("job", i) THEN Number ELSE row.n
    BY <2>1, <2>2, <2>3 DEF Prefix
  <2>8. w.row = [n |-> IF Before("job", i) THEN Number ELSE row.n, s |-> Now]
    BY <2>2, <2>7
  <2>9. 1 .. Len(w.held) = {}
    BY <2>2
  <2>10. \A p \in w.rows : p \in rows \/ \E k \in Marked(i) : buffer[k].ok /\ p = Entry(k).at
    BY <1>7, <2>3, <2>6 DEF Prefix
  <2>11. Now \notin Final => rows \subseteq w.rows /\ \A k \in Marked(i) : buffer[k].ok => Entry(k).at \in w.rows
    BY <1>7, <1>8, <2>3, <2>5 DEF Prefix
  <2> QED BY <1>2, <2>2, <2>3, <2>8, <2>9, <2>10, <2>11 DEF Prefix
<1>11. CASE x.op = "chunk"
  <2>1. PICK e \in Held : e = Entry(i) /\ e = [at |-> <<num[x.run], x.chunk>>, ok |-> x.ok] /\ e.at \notin rows
    BY <1>2, <1>5, <1>11, EntryIs
  <2>2. PICK w \in Files : /\ w = Put(f, x) /\ w.row = f.row /\ w.live = f.live /\ w.rows = f.rows
                           /\ w.held = Append(f.held, e)
    BY <1>1, <1>11, <2>1, PutChunk
  <2>3. f.held \in Seq(Held)
    BY <1>1 DEF Files
  <2>4. PICK m \in Nat : m = Len(f.held)
    BY <2>3, LenProperties
  <2>5. Len(w.held) = m + 1 /\ w.held[m + 1] = e /\ \A h \in 1 .. m : w.held[h] = f.held[h]
    BY <2>2, <2>3, <2>4, AppendProperties
  <2>6. /\ \A h \in 1 .. m + 1 : h \in 1 .. m \/ h = m + 1
        /\ m + 1 \in 1 .. m + 1 /\ \A h \in 1 .. m : h \in 1 .. m + 1
    BY <2>4
  <2>7. (Before("job", i) <=> Before("job", i - 1)) /\ (Before("ended", i) <=> Before("ended", i - 1))
    BY <1>4, <1>11
  <2>8. e.at \notin f.rows
    <3>1. SUFFICES ASSUME NEW k \in Marked(i - 1), e.at = Entry(k).at PROVE FALSE
      BY <2>1 DEF Prefix
    <3>2. i \in Marked(b) /\ k \in Marked(b) /\ k # i
      BY <1>5, <1>11
    <3> QED BY <2>1, <3>1, <3>2, EntryIs
  <2>9. \A h \in 1 .. m + 1 : w.held[h].at \notin w.rows /\ \E k \in Marked(i) : w.held[h] = Entry(k)
    <3>1. ASSUME NEW h \in 1 .. m PROVE f.held[h].at \notin f.rows /\ \E k \in Marked(i) : f.held[h] = Entry(k)
      BY <1>5, <2>4 DEF Prefix
    <3> QED BY <1>5, <1>11, <2>1, <2>2, <2>5, <2>6, <2>8, <3>1
  <2>10. \A p \in w.rows : p \in rows \/ \E k \in Marked(i) : buffer[k].ok /\ p = Entry(k).at
    BY <1>5, <2>2 DEF Prefix
  <2>11. ASSUME ~(Before("ended", i) /\ Now \in Final)
         PROVE  /\ rows \subseteq w.rows
                /\ \A k \in Marked(i) : buffer[k].ok => Entry(k).at \in w.rows \/ \E h \in 1 .. m + 1 : w.held[h] = Entry(k)
    <3>1. /\ rows \subseteq f.rows
          /\ \A k \in Marked(i - 1) : buffer[k].ok => Entry(k).at \in f.rows \/ \E h \in 1 .. m : f.held[h] = Entry(k)
      BY <2>4, <2>7, <2>11 DEF Prefix
    <3>2. \A k \in Marked(i - 1) : (\E h \in 1 .. m : f.held[h] = Entry(k)) => \E h \in 1 .. m + 1 : w.held[h] = Entry(k)
      BY <2>5, <2>6
    <3>3. \E h \in 1 .. m + 1 : w.held[h] = Entry(i)
      BY <2>1, <2>5, <2>6
    <3> QED BY <1>5, <2>2, <3>1, <3>2, <3>3
  <2>12. w.row = [n |-> IF Before("job", i) THEN Number ELSE row.n,
                  s |-> IF Before("job", i) \/ Before("ended", i) THEN Now ELSE row.s]
         /\ w.live = IF Before("ended", i) THEN 0 ELSE IF Before("job", i) THEN LastRun ELSE live
    BY <2>2, <2>7 DEF Prefix
  <2> QED BY ONLY <1>2, <2>2, <2>5, <2>9, <2>10, <2>11, <2>12 DEF Prefix
<1>12. CASE x.op \in {"flush", "end"}
  <2>1. Put(f, x) = f
    BY <1>1, <1>12, PutOther
  <2>2. (Before("job", i) <=> Before("job", i - 1)) /\ (Before("ended", i) <=> Before("ended", i - 1))
        /\ Marked(i) = Marked(i - 1)
    BY <1>4, <1>5, <1>12
  <2> QED BY <1>2, <2>1, <2>2 DEF Prefix
<1> QED BY <1>3, <1>9, <1>10, <1>11, <1>12

\* What the transaction leaves.
LEMMA WrittenIs ==
  ASSUME Sound, NEW b \in Nat, b = Len(buffer), ~Before("discard", b)
  PROVE  Prefix(Written, b) /\ Written.held = <<>>
<1>1. TypeOK
  BY DEF Sound
<1>2. buffer \in Seq(Records)
  BY <1>1 DEF TypeOK, Records
<1>3. PICK w : /\ Written = PutChunks(w[b])
               /\ w[0] = [row |-> row, rows |-> rows, held |-> <<>>, live |-> live]
               /\ \A i \in 1 .. b : w[i] = Put(w[i - 1], buffer[i])
  BY <1>2, PutsSteps
<1>4. Prefix(w[0], 0)
  <2>1. 1 .. 0 = {}
    OBVIOUS
  <2>2. ~Before("job", 0) /\ ~Before("ended", 0) /\ Marked(0) = {}
    BY <2>1 DEF Before, Marked
  <2>3. PICK f : f = w[0]
    OBVIOUS
  <2>4. f.row = row /\ f.rows = rows /\ f.held = <<>> /\ f.live = live
    BY <1>3, <2>3
  <2>5. f \in Files
    <3>1. row \in [n : 0 .. RunsMax, s : {"none", "running", "submitted", "new", "gone"} \cup Ended]
          /\ rows \in SUBSET ((1 .. RunsMax) \X Chunks) /\ live \in 0 .. RunsMax
      BY <1>1 DEF TypeOK
    <3> QED BY <1>3, <2>3, <3>1, EmptySeq DEF Files
  <2>6. row = [n |-> row.n, s |-> row.s]
    BY <1>1 DEF TypeOK
  <2>7. 1 .. Len(f.held) = {}
    BY <2>4
  <2> QED BY <2>2, <2>3, <2>4, <2>5, <2>6, <2>7 DEF Prefix
<1>5. \A i \in 1 .. b : Prefix(w[i - 1], i - 1) => Prefix(w[i], i)
  <2>1. \A i \in 1 .. b : buffer[i].op # "discard"
    BY DEF Before
  <2> QED BY <1>3, <2>1, PrefixGrows
<1> DEFINE Bad == {i \in 0 .. b : ~Prefix(w[i], i)}
<1>6. Bad = {}
  <2>1. SUFFICES ASSUME Bad # {} PROVE FALSE
    OBVIOUS
  <2>2. Bad \in SUBSET Nat
    OBVIOUS
  <2>3. PICK m \in Bad : \A k \in Bad : m <= k
    BY <2>1, <2>2, Least
  <2>4. m # 0
    BY <1>4, <2>3
  <2>5. m \in 1 .. b /\ m - 1 \in 0 .. b /\ ~(m <= m - 1)
    BY <2>4
  <2>6. Prefix(w[m - 1], m - 1)
    BY <2>3, <2>5
  <2> QED BY <1>5, <2>5, <2>6
<1>7. Prefix(w[b], b)
  BY <1>6
<1> QED BY <1>3, <1>7, PrefixPut
-----------------------------------------------------------------------------
(* The end of a transaction *)

\* What was queued behind it moves up.
LEMMA Shift ==
  ASSUME Sound, buffer' = <<>>, records' = records
  PROVE  \E b \in Nat :
           /\ b = Len(buffer)
           /\ \A i \in 1 .. b : i \in Places /\ buffer[i] = Pend[i] /\ buffer[i] \in Records
           /\ \A i \in Places' : i + b \in Places /\ i + b > b /\ Pend'[i] = Pend[i + b]
           /\ \A i \in Places : i \in 1 .. b \/ (i - b \in Places' /\ Pend'[i - b] = Pend[i] /\ (i - b) + b = i)
           /\ Pend' = records /\ Len(Pend) = b + Len(records) /\ Len(records) \in Nat
<1>1. PICK b \in Nat :
           /\ b = Len(buffer) /\ (\A i \in 1 .. b : i \in Places /\ buffer[i] = Pend[i] /\ buffer[i] \in Records)
           /\ (\A i \in Places : i <= b \/ i - b \in 1 .. Len(records))
           /\ (\A i \in 1 .. Len(records) : i + b \in Places /\ Pend[i + b] = records[i] /\ i + b > b)
           /\ Len(Pend) = b + Len(records) /\ Len(records) \in Nat
  BY InBuffer
<1>2. records \in Seq(Records)
  BY DEF Sound, TypeOK, Records
<1>3. Pend' = records
  BY <1>2, ConcatEmptySeq DEF Pend
<1>4. Places' = 1 .. Len(records)
  BY <1>3 DEF Places
<1>5. PICK n \in Nat : n = Len(records)
  BY <1>1
<1>6. Places = 1 .. b + n
  BY <1>1, <1>5 DEF Places
<1>7. \A i \in 1 .. b + n : i \in 1 .. b \/ (i - b \in 1 .. n /\ (i - b) + b = i)
  BY <1>5
<1>8. ASSUME NEW i \in Places, ~(i \in 1 .. b)
      PROVE  i - b \in Places' /\ Pend'[i - b] = Pend[i] /\ (i - b) + b = i
  <2>1. i - b \in 1 .. Len(records) /\ (i - b) + b = i
    BY <1>5, <1>6, <1>7, <1>8
  <2>2. Pend[(i - b) + b] = records[i - b]
    BY <1>1, <2>1
  <2> QED BY <1>3, <1>4, <2>1, <2>2
<1>9. \A i \in Places' : i + b \in Places /\ i + b > b /\ Pend'[i] = Pend[i + b]
  BY <1>1, <1>3, <1>4
<1> QED BY <1>1, <1>3, <1>8, <1>9

LEMMA WaitsOn ==
  ASSUME Sound, buffer' = <<>>, records' = records, NEW b \in Nat, b = Len(buffer)
  PROVE  /\ \A op : Waits(op) <=> Before(op, b) \/ Waits(op)'
         /\ \A i \in Marks' : i + b \in Marks /\ i + b > b /\ Pend'[i] = Pend[i + b]
         /\ \A i \in Marks : (i \in Marked(b) /\ buffer[i] = Pend[i]) \/ (i - b \in Marks' /\ Pend'[i - b] = Pend[i])
         /\ \A i \in Marked(b) : i \in Marks /\ buffer[i] = Pend[i] /\ i <= b
<1>1. /\ \A i \in 1 .. b : i \in Places /\ buffer[i] = Pend[i] /\ buffer[i] \in Records
      /\ \A i \in Places' : i + b \in Places /\ i + b > b /\ Pend'[i] = Pend[i + b]
      /\ \A i \in Places : i \in 1 .. b \/ (i - b \in Places' /\ Pend'[i - b] = Pend[i] /\ (i - b) + b = i)
  BY Shift
<1>2. \A op : Waits(op) <=> Before(op, b) \/ Waits(op)'
  <2>1. ASSUME NEW op, Waits(op) PROVE Before(op, b) \/ Waits(op)'
    BY <1>1, <2>1 DEF Waits, Before
  <2>2. ASSUME NEW op, Before(op, b) PROVE Waits(op)
    BY <1>1, <2>2 DEF Waits, Before
  <2>3. ASSUME NEW op, Waits(op)' PROVE Waits(op)
    BY <1>1, <2>3 DEF Waits
  <2> QED BY <2>1, <2>2, <2>3
<1>3. \A i \in Marks' : i + b \in Marks /\ i + b > b /\ Pend'[i] = Pend[i + b]
  BY <1>1 DEF Marks
<1>4. \A i \in Marks : (i \in Marked(b) /\ buffer[i] = Pend[i]) \/ (i - b \in Marks' /\ Pend'[i - b] = Pend[i])
  BY <1>1 DEF Marks, Marked
<1>5. \A i \in Marked(b) : i \in Marks /\ buffer[i] = Pend[i] /\ i <= b
  BY <1>1 DEF Marks, Marked
<1> QED BY <1>2, <1>3, <1>4, <1>5

\* In which order records of the job come, and what of it is in the transaction.
LEMMA InOrder ==
  ASSUME Sound, buffer' = <<>>, records' = records, NEW b \in Nat, b = Len(buffer)
  PROVE  /\ Waits("job")' => ~Before("job", b) /\ ~Before("ended", b) /\ Marked(b) = {} /\ live = 0
         /\ Waits("ended")' => ~Before("ended", b)
         /\ Before("job", b) \/ Before("ended", b) \/ live # 0 \/ Marked(b) # {} =>
              Number >= 1 /\ Now \in {"running"} \cup Ended /\ (Before("job", b) \/ row.n = Number)
         /\ Before("job", b) => row.n \in {0, Number}
         /\ Before("job", b) \/ Before("ended", b) \/ live # 0 => ~Quiet /\ Now # "submitted"
         /\ Before("ended", b) => Now \in Ended
         /\ Marked(b) # {} => ~((Quiet /\ looping) \/ Now = "submitted")
<1>1. /\ \A i \in 1 .. b : i \in Places /\ buffer[i] = Pend[i] /\ buffer[i] \in Records
      /\ \A i \in Places' : i + b \in Places /\ i + b > b /\ Pend'[i] = Pend[i + b]
  BY Shift
<1>2. \A op : Waits(op) <=> Before(op, b) \/ Waits(op)'
  BY WaitsOn
<1>3. \A i, j \in Places : /\ Pend[i].op = "job" /\ Pend[j].op \in OfJob => i <= j
                           /\ Pend[i].op = "ended" /\ Pend[j].op = "ended" => i = j
  BY DEF Sound, Queued
<1>4. ASSUME Waits("job")'
      PROVE  ~Before("job", b) /\ ~Before("ended", b) /\ Marked(b) = {}
  <2>1. PICK j \in Places' : Pend'[j].op = "job"
    BY <1>4 DEF Waits
  <2>2. j + b \in Places /\ j + b > b /\ Pend[j + b].op = "job"
    BY <1>1, <2>1
  <2>3. ASSUME NEW k \in 1 .. b, buffer[k].op \in OfJob PROVE FALSE
    <3>1. k \in Places /\ Pend[k].op \in OfJob
      BY <1>1, <2>3
    <3>2. j + b <= k
      BY <1>3, <2>2, <3>1
    <3>3. k <= b
      OBVIOUS
    <3>4. j + b \in Nat
      BY <2>2 DEF Places
    <3> QED BY <2>2, <3>2, <3>3, <3>4
  <2> QED BY <2>3 DEF Before, Marked, OfJob
<1>5. ASSUME Waits("ended")' PROVE ~Before("ended", b)
  <2>1. PICK j \in Places' : Pend'[j].op = "ended"
    BY <1>5 DEF Waits
  <2>2. j + b \in Places /\ j + b > b /\ Pend[j + b].op = "ended"
    BY <1>1, <2>1
  <2>3. SUFFICES ASSUME NEW k \in 1 .. b, buffer[k].op = "ended" PROVE FALSE
    BY DEF Before
  <2>4. j + b = k
    BY <1>1, <1>3, <2>2, <2>3
  <2> QED BY <2>2, <2>4
<1>6. Marked(b) # {} => Before("chunk", b)
  BY DEF Marked, Before
<1>7. Before("job", b) \/ Before("ended", b) \/ live # 0 => ~Quiet /\ Now # "submitted"
  BY <1>2 DEF Sound, Staged
<1>8. Before("job", b) \/ Before("ended", b) \/ Before("chunk", b) => Now \notin {"none", "gone"}
  <2>1. SUFFICES ASSUME NEW k \in 1 .. b, buffer[k].op \in OfJob PROVE Now \notin {"none", "gone"}
    BY DEF Before, OfJob
  <2> QED BY <1>1, <2>1 DEF Sound, Queued
<1>9. live # 0 => Now \notin {"none", "gone"} /\ ~Waits("job") /\ row.n = Number
  BY DEF Sound, Staged
<1>10. Before("chunk", b) => Now # "submitted" /\ ~(Quiet /\ looping)
  BY <1>2 DEF Sound, Staged
<1>11. Before("job", b) \/ Before("ended", b) \/ live # 0 \/ Before("chunk", b) => Now \in {"running"} \cup Ended
  BY <1>7, <1>8, <1>9, <1>10, NowTyped
<1>12. Now \in {"running"} \cup Ended => Number >= 1
  BY DEF Sound, Numbered
<1>13. (Before("ended", b) \/ Before("chunk", b)) /\ ~Before("job", b) => row.n = Number
  <2>1. SUFFICES ASSUME Before("ended", b) \/ Before("chunk", b), ~Before("job", b) PROVE row.n = Number
    OBVIOUS
  <2>2. ~Waits("job")'
    BY <1>4, <2>1 DEF Before, Marked
  <2>3. ~Waits("job") /\ (Waits("ended") \/ Waits("chunk"))
    BY <1>2, <2>1, <2>2
  <2> QED BY <2>3 DEF Sound, Queued
<1>14. Before("job", b) => row.n \in {0, Number}
  BY <1>2 DEF Sound, Queued
<1>15. Before("ended", b) => Now \in Ended
  <2>1. SUFFICES ASSUME NEW k \in 1 .. b, buffer[k].op = "ended" PROVE Now \in Ended
    BY DEF Before
  <2> QED BY <1>1, <2>1 DEF Sound, Queued
<1> QED BY <1>2, <1>4, <1>5, <1>6, <1>7, <1>9, <1>10, <1>11, <1>12, <1>13, <1>14, <1>15

\* What a transaction leaves that discards nothing, on disk or not.
Leaves(b) ==
  /\ row' \in [n : 0 .. RunsMax, s : {"none", "running"} \cup Ended]
  /\ rows' \subseteq (1 .. RunsMax) \X Chunks
  /\ row'.n = IF Before("job", b) THEN Number ELSE row.n
  /\ live' = IF Before("ended", b) THEN 0 ELSE IF Before("job", b) THEN LastRun ELSE live
  /\ ~Before("job", b) /\ ~Before("ended", b) /\ live = 0 => row' = row
  /\ \A p \in rows' : p \in rows \/ \E k \in Marked(b) : buffer[k].ok /\ p = Entry(k).at
  /\ ~Before("ended", b) /\ Marked(b) = {} => rows' = rows

LEMMA WrittenLeaves ==
  ASSUME Sound, NEW b \in Nat, b = Len(buffer), ~Before("discard", b), Commit
  PROVE  /\ Leaves(b)
         /\ row'.s = IF Before("job", b) \/ Before("ended", b) \/ live # 0 THEN Now ELSE row.s
         /\ ~(Before("ended", b) /\ Now \in Final) =>
              rows \subseteq rows' /\ \A k \in Marked(b) : buffer[k].ok => Entry(k).at \in rows'
         /\ taken' = taken
<1>1. TypeOK /\ buffer' = <<>> /\ records' = records
  BY DEF Sound, Commit, WriteEnds
<1>2. PICK f \in Files : f = Written /\ Prefix(f, b) /\ f.held = <<>>
  BY WrittenIs DEF Prefix
<1>3. /\ f.row = [n |-> IF Before("job", b) THEN Number ELSE row.n,
                  s |-> IF Before("job", b) \/ Before("ended", b) THEN Now ELSE row.s]
      /\ f.live = IF Before("ended", b) THEN 0 ELSE IF Before("job", b) THEN LastRun ELSE live
      /\ \A p \in f.rows : p \in rows \/ \E k \in Marked(b) : buffer[k].ok /\ p = Entry(k).at
      /\ ~(Before("ended", b) /\ Now \in Final) => rows \subseteq f.rows
  BY <1>2 DEF Prefix
<1>4. ~(Before("ended", b) /\ Now \in Final) => \A k \in Marked(b) : buffer[k].ok => Entry(k).at \in f.rows
  <2>1. 1 .. Len(f.held) = {}
    BY <1>2
  <2> QED BY <1>2, <2>1 DEF Prefix
<1>5. rows' = f.rows /\ live' = f.live
      /\ row' = IF f.live # 0 /\ num[f.live] = f.row.n THEN [n |-> f.row.n, s |-> status[f.live]] ELSE f.row
  BY <1>2 DEF Commit, WriteEnds
<1>6. taken' = taken
  <2>1. \A i \in DOMAIN buffer : buffer[i].op # "discard"
    <3>1. DOMAIN buffer = 1 .. b
      BY <1>1 DEF TypeOK
    <3> QED BY <3>1 DEF Before
  <2> QED BY <2>1 DEF Commit
<1>7. /\ Before("job", b) \/ Before("ended", b) \/ live # 0 =>
           Now \in {"running"} \cup Ended /\ (Before("job", b) \/ row.n = Number)
  BY <1>1, InOrder
<1>8. Now # "none" => LastRun \in Runs /\ Now = status[LastRun] /\ Number = num[LastRun] /\ LastRun # 0
  BY NowTyped DEF Runs
<1>9. live # 0 => live = LastRun
  BY DEF Sound, Staged
<1>10. Before("job", b) \/ Before("ended", b) \/ live # 0 => f.row.n = Number
  BY <1>3, <1>7
<1>11. row = [n |-> row.n, s |-> row.s] /\ row.n \in 0 .. RunsMax /\ row.s \in {"none", "running"} \cup Ended
  BY <1>1 DEF TypeOK
<1>12. row' = [n |-> IF Before("job", b) THEN Number ELSE row.n,
               s |-> IF Before("job", b) \/ Before("ended", b) \/ live # 0 THEN Now ELSE row.s]
  <2>1. CASE f.live # 0
    <3>1. f.live = LastRun /\ (Before("job", b) \/ live # 0)
      BY <1>3, <1>9, <2>1
    <3>2. Now # "none" /\ f.row.n = Number
      BY <1>7, <1>10, <3>1 DEF Ended
    <3>3. row' = [n |-> f.row.n, s |-> Now]
      BY <1>5, <1>8, <2>1, <3>1, <3>2
    <3>4. f.row.n = IF Before("job", b) THEN Number ELSE row.n
      BY <1>3
    <3> QED BY <3>1, <3>3, <3>4
  <2>2. CASE f.live = 0
    <3>1. row' = f.row
      BY <1>5, <2>2
    <3>2. Before("job", b) \/ Before("ended", b) \/ live = 0
      BY <1>3, <2>2
    <3> QED BY <1>3, <3>1, <3>2
  <2> QED BY <2>1, <2>2
<1>13. Number \in 0 .. RunsMax
  BY NowTyped
<1>14. row' \in [n : 0 .. RunsMax, s : {"none", "running"} \cup Ended]
  BY <1>7, <1>11, <1>12, <1>13
<1>15. ~Before("job", b) /\ ~Before("ended", b) /\ live = 0 => row' = row
  BY <1>11, <1>12
<1>16. rows' \subseteq (1 .. RunsMax) \X Chunks
  BY <1>2, <1>5 DEF Files
<1>17. ~Before("ended", b) /\ Marked(b) = {} => rows' = rows
  BY <1>3, <1>5
<1>18. row'.n = (IF Before("job", b) THEN Number ELSE row.n)
       /\ row'.s = IF Before("job", b) \/ Before("ended", b) \/ live # 0 THEN Now ELSE row.s
  BY <1>12
<1> QED BY <1>3, <1>4, <1>5, <1>6, <1>14, <1>15, <1>16, <1>17, <1>18 DEF Leaves

\* A transaction that discards the job has nothing else in it.
LEMMA Discards ==
  ASSUME Sound, NEW b \in Nat, b = Len(buffer), Before("discard", b), WriteEnds, records' = records
  PROVE  /\ Quiet /\ looping /\ caller = "discarding" /\ live = 0
         /\ ~Waits("job") /\ ~Waits("ended") /\ ~Waits("chunk")
         /\ Written.row = NoRow /\ Written.rows = {} /\ Written.live = 0
<1>1. TypeOK /\ buffer' = <<>> /\ \A i \in 1 .. b : i \in Places /\ buffer[i] = Pend[i] /\ buffer[i] \in Records
  BY Shift DEF Sound, WriteEnds
<1>2. caller = "discarding" /\ looping
  <2>1. PICK k \in 1 .. b : buffer[k].op = "discard"
    BY DEF Before
  <2> QED BY <1>1, <2>1 DEF Sound, Queued
<1>3. Quiet
  BY <1>2 DEF Sound, Claims
<1>4. live = 0 /\ ~Waits("job") /\ ~Waits("ended") /\ ~Waits("chunk")
  BY <1>2, <1>3 DEF Sound, Staged
<1>5. \A i \in 1 .. b : buffer[i] \in Records /\ buffer[i].op \in {"discard", "flush", "end"}
  <2>1. \A i \in 1 .. b : buffer[i].op \notin {"job", "chunk", "ended"}
    BY <1>1, <1>4 DEF Waits
  <2> QED BY <1>1, <2>1 DEF Records, Items
<1>6. buffer \in Seq(Records)
  BY <1>1 DEF TypeOK, Records
<1>7. PICK w : /\ Written = PutChunks(w[b])
               /\ w[0] = [row |-> row, rows |-> rows, held |-> <<>>, live |-> live]
               /\ \A i \in 1 .. b : w[i] = Put(w[i - 1], buffer[i])
  BY <1>6, PutsSteps
<1> DEFINE Good(f, i) ==
             /\ f \in Files /\ f.held = <<>> /\ f.live = 0
             /\ IF Before("discard", i) THEN f.row = NoRow /\ f.rows = {} ELSE f.row = row /\ f.rows = rows
<1>8. Good(w[0], 0)
  <2>1. 1 .. 0 = {}
    OBVIOUS
  <2>2. ~Before("discard", 0)
    BY <2>1 DEF Before
  <2>3. PICK f : f = w[0]
    OBVIOUS
  <2>4. f.row = row /\ f.rows = rows /\ f.held = <<>> /\ f.live = 0
    BY <1>4, <1>7, <2>3
  <2>5. f \in Files
    <3>1. row \in [n : 0 .. RunsMax, s : {"none", "running", "submitted", "new", "gone"} \cup Ended]
          /\ rows \in SUBSET ((1 .. RunsMax) \X Chunks) /\ live \in 0 .. RunsMax
      BY <1>1 DEF TypeOK
    <3> QED BY <1>7, <2>3, <3>1, EmptySeq DEF Files
  <2> QED BY <2>2, <2>3, <2>4, <2>5
<1>9. ASSUME NEW i \in 1 .. b, NEW f, Good(f, i - 1) PROVE Good(Put(f, buffer[i]), i)
  <2>1. PICK x \in Records : x = buffer[i] /\ x.op \in {"discard", "flush", "end"}
    BY <1>5
  <2>2. Before("discard", i) <=> Before("discard", i - 1) \/ x.op = "discard"
    <3>1. \A k \in 1 .. i : k \in 1 .. i - 1 \/ k = i
      OBVIOUS
    <3>2. i \in 1 .. i /\ \A k \in 1 .. i - 1 : k \in 1 .. i
      OBVIOUS
    <3> QED BY <2>1, <3>1, <3>2 DEF Before
  <2>3. CASE x.op = "discard"
    <3>1. PICK g \in Files : /\ g = Put(f, x) /\ g.row = NoRow /\ g.live = f.live /\ g.held = f.held
                             /\ g.rows = {p \in f.rows : p[1] # f.row.n}
      BY <1>9, <2>3, PutDiscard
    <3>2. g.rows = {}
      <4>1. Before("discard", i - 1) => f.rows = {}
        BY <1>9
      <4>2. ~Before("discard", i - 1) => f.rows = rows /\ f.row.n = row.n
        BY <1>9
      <4>3. \A p \in rows : p[1] = row.n
        BY DEF Sound, Numbered
      <4> QED BY <3>1, <4>1, <4>2, <4>3
    <3> QED BY <1>9, <2>1, <2>2, <2>3, <3>1, <3>2
  <2>4. CASE x.op \in {"flush", "end"}
    <3>1. Put(f, x) = f
      BY <1>9, <2>4, PutOther
    <3> QED BY <1>9, <2>1, <2>2, <2>4, <3>1
  <2> QED BY <2>1, <2>3, <2>4
<1> DEFINE Bad == {i \in 0 .. b : ~Good(w[i], i)}
<1>10. Bad = {}
  <2> HIDE DEF Good
  <2>1. SUFFICES ASSUME Bad # {} PROVE FALSE
    OBVIOUS
  <2>2. Bad \in SUBSET Nat
    OBVIOUS
  <2>3. PICK m \in Bad : \A k \in Bad : m <= k
    BY <2>1, <2>2, Least
  <2>4. m # 0
    BY <1>8, <2>3
  <2>5. m \in 1 .. b /\ m - 1 \in 0 .. b /\ ~(m <= m - 1)
    BY <2>4
  <2>6. Good(w[m - 1], m - 1)
    BY <2>3, <2>5
  <2> QED BY <1>7, <1>9, <2>3, <2>5, <2>6
<1>11. PICK f : f = w[b] /\ Good(f, b)
  <2> HIDE DEF Good
  <2>1. b \in 0 .. b
    OBVIOUS
  <2> QED BY <1>10, <2>1
<1>12. 1 .. Len(f.held) = {}
  BY <1>11
<1>13. PutChunks(f).row = NoRow /\ PutChunks(f).live = 0 /\ PutChunks(f).rows = {}
  <2>1. PutChunks(f).row = NoRow /\ PutChunks(f).live = 0
    BY <1>11, PutChunksIs
  <2>2. \A p : p \in PutChunks(f).rows <=> p \in f.rows
    BY <1>11, <1>12, PutChunksIs
  <2> QED BY <1>11, <2>1, <2>2
<1> QED BY <1>2, <1>3, <1>4, <1>7, <1>11, <1>13

\* What holds after each end of a transaction.
Elsewhere == UNCHANGED <<records, status, num, next, claimed, work, threads, announced, caller>>

LEMMA ElsewhereStays ==
  ASSUME Elsewhere
  PROVE  /\ UNCHANGED <<LastRun, Now, Number, records, status, num, next, claimed, skips, todo, fed, out, open, spoilt>>
         /\ UNCHANGED <<events, looping, closing, deliveries, at, noted, announced, caller>>
         /\ (Quiet' <=> Quiet) /\ (Active' <=> Active) /\ Results' = Results /\ Answers' = Answers
<1>1. /\ UNCHANGED <<records, status, num, next, claimed, skips, todo, fed, out, open, spoilt>>
      /\ UNCHANGED <<events, looping, closing, deliveries, at, noted, announced, caller>>
  BY DEF Elsewhere, work, threads
<1>2. UNCHANGED <<LastRun, Now, Number>>
  BY <1>1 DEF LastRun, Now, Number
<1>3. (Quiet' <=> Quiet) /\ (Active' <=> Active) /\ Results' = Results /\ Answers' = Answers
  BY <1>1, <1>2 DEF Quiet, Active, Results, Answers
<1> QED BY <1>1, <1>2, <1>3

LEMMA FlushingWrites ==
  ASSUME Sound, WriteEnds, Elsewhere
  PROVE  Flushing' /\ flushed' \subseteq {"caller", "delivery"}
<1>1. /\ buffer' = <<>> /\ buffer # <<>> /\ records' = records
      /\ UNCHANGED <<Now, looping, deliveries, events, at, caller>>
  BY ElsewhereStays DEF WriteEnds
<1>2. PICK b \in Nat :
           /\ b = Len(buffer)
           /\ (\A i \in 1 .. b : i \in Places /\ buffer[i] = Pend[i] /\ buffer[i] \in Records)
           /\ (\A i \in Places' : i + b \in Places /\ i + b > b /\ Pend'[i] = Pend[i + b])
           /\ (\A i \in Places : i \in 1 .. b \/ (i - b \in Places' /\ Pend'[i - b] = Pend[i] /\ (i - b) + b = i))
           /\ Pend' = records /\ Len(Pend) = b + Len(records) /\ Len(records) \in Nat
  BY <1>1, Shift
<1>3. buffer \in Seq(Records) /\ records \in Seq(Records) /\ DOMAIN buffer = 1 .. b
  BY <1>2 DEF Sound, TypeOK, Records
<1>4. Places' = 1 .. Len(records) /\ Places' \subseteq Nat
  BY <1>2 DEF Places
<1>5. \A i \in Places' : IsFlush(Pend'[i], "caller") = IsFlush(Pend[i + b], "caller")
                          /\ IsFlush(Pend'[i], "delivery") = IsFlush(Pend[i + b], "delivery")
  BY <1>2
<1>6. ASSUME NEW i \in Places', NEW who \in {"caller", "delivery"},
             \E j \in Places : j > i + b /\ IsFlush(Pend[j], who)
      PROVE  \E j \in Places' : j > i /\ IsFlush(Pend'[j], who)
  <2>1. PICK j \in Places : j > i + b /\ IsFlush(Pend[j], who)
    BY <1>6
  <2>2. i \in Nat /\ j \in Nat
    BY <1>4 DEF Places
  <2>3. ~(j \in 1 .. b)
    BY <2>1, <2>2
  <2>4. j - b \in Places' /\ Pend'[j - b] = Pend[j]
    BY <1>2, <2>3
  <2>5. j - b > i
    BY <2>1, <2>2
  <2> QED BY <2>1, <2>4, <2>5
<1>7. \A i \in Places' : Pend'[i].op \in OfJob /\ at.op = "flushing" =>
            \E j \in Places' : j > i /\ IsFlush(Pend'[j], "delivery")
  <2>1. SUFFICES ASSUME NEW i \in Places', Pend'[i].op \in OfJob, at.op = "flushing"
                 PROVE  \E j \in Places : j > i + b /\ IsFlush(Pend[j], "delivery")
    BY <1>6
  <2> QED BY <1>2, <2>1 DEF Sound, Flushing
<1>8. \A i \in Places' : Pend'[i].op = "discard" => \E j \in Places' : j > i /\ IsFlush(Pend'[j], "caller")
  <2>1. SUFFICES ASSUME NEW i \in Places', Pend'[i].op = "discard"
                 PROVE  \E j \in Places : j > i + b /\ IsFlush(Pend[j], "caller")
    BY <1>6
  <2> QED BY <1>2, <2>1 DEF Sound, Flushing
<1>9. ASSUME NEW i \in Places', NEW j \in Places', NEW who \in {"caller", "delivery"},
             IsFlush(Pend'[i], who), IsFlush(Pend'[j], who)
      PROVE  i = j
  <2>1. i + b = j + b
    BY <1>2, <1>9 DEF Sound, Flushing
  <2> QED BY <1>4, <2>1
<1>10. ASSUME NEW who \in {"caller", "delivery"}, who \in flushed'
       PROVE  who \in flushed \/ \E k \in 1 .. b : IsFlush(Pend[k], who)
  <2>1. SUFFICES ASSUME who \in Flushes PROVE \E k \in 1 .. b : IsFlush(Pend[k], who)
    BY <1>10 DEF WriteEnds
  <2>2. PICK k \in 1 .. b : buffer[k].op = "flush" /\ who = IF buffer[k].run = 0 THEN "caller" ELSE "delivery"
    BY <1>3, <2>1 DEF Flushes, ToSet
  <2> QED BY <1>2, <2>2 DEF IsFlush
<1>11. ASSUME NEW who \in {"caller", "delivery"}, NEW k \in 1 .. b, IsFlush(Pend[k], who), NEW i \in Places'
       PROVE  ~IsFlush(Pend'[i], who)
  <2>1. SUFFICES ASSUME IsFlush(Pend[i + b], who) PROVE FALSE
    BY <1>2
  <2>2. i + b \in Places /\ k \in Places /\ i + b > b
    BY <1>2
  <2>3. i + b = k
    BY <1>11, <2>1, <2>2 DEF Sound, Flushing
  <2> QED BY <2>2, <2>3
<1>12. "delivery" \in flushed' => at.op = "flushing" /\ \A i \in Places' : ~IsFlush(Pend'[i], "delivery")
  <2>1. SUFFICES ASSUME "delivery" \in flushed'
                 PROVE  at.op = "flushing" /\ \A i \in Places' : ~IsFlush(Pend'[i], "delivery")
    OBVIOUS
  <2>2. CASE "delivery" \in flushed
    BY <1>2, <2>2 DEF Sound, Flushing
  <2>3. CASE \E k \in 1 .. b : IsFlush(Pend[k], "delivery")
    BY <1>2, <1>11, <2>3 DEF Sound, Queued
  <2> QED BY <1>10, <2>1, <2>2, <2>3
<1>13. "caller" \in flushed' => caller # "idle" /\ \A i \in Places' : ~IsFlush(Pend'[i], "caller")
  <2>1. SUFFICES ASSUME "caller" \in flushed'
                 PROVE  caller # "idle" /\ \A i \in Places' : ~IsFlush(Pend'[i], "caller")
    OBVIOUS
  <2>2. CASE "caller" \in flushed
    BY <1>2, <2>2 DEF Sound, Flushing
  <2>3. CASE \E k \in 1 .. b : IsFlush(Pend[k], "caller")
    BY <1>2, <1>11, <2>3 DEF Sound, Queued
  <2> QED BY <1>10, <2>1, <2>2, <2>3
<1>14. ~writing' => \E k \in 1 .. b : Pend[k] = Bare("end") /\ k \in Places /\ Pend[k].op = "end"
  <2>1. Bare("end").op = "end"
    BY DEF Bare, Item
  <2>2. SUFFICES ASSUME ~writing' PROVE \E k \in 1 .. b : Pend[k] = Bare("end") /\ k \in Places
    BY <2>1
  <2>3. Contains(buffer, Bare("end"))
    BY <2>2 DEF WriteEnds
  <2>4. \E k \in 1 .. Len(buffer) : buffer[k] = Bare("end")
    BY <2>3 DEF Contains
  <2> QED BY <1>2, <2>4
<1>15. Waits("end")' \/ ~writing' => Waits("end")
  <2>1. Waits("end")' => Waits("end")
    BY <1>2 DEF Waits
  <2> QED BY <1>14, <2>1 DEF Waits
<1>16. Waits("end")' \/ ~writing' => ~looping /\ at = Nothing /\ deliveries = <<>> /\ events = <<>>
  BY <1>15 DEF Sound, Flushing
<1>17. ~writing' => Pend' = <<>>
  <2>1. SUFFICES ASSUME ~writing' PROVE Pend' = <<>>
    OBVIOUS
  <2>2. PICK k \in 1 .. b : k \in Places /\ Pend[k].op = "end"
    BY <1>14, <2>1
  <2>3. k = Len(Pend)
    BY <2>2 DEF Sound, Queued
  <2>4. Len(records) = 0
    BY <1>2, <2>2, <2>3
  <2> QED BY <1>2, <1>3, <2>4, EmptySeq
<1>18. flushed' \subseteq {"caller", "delivery"}
  <2>1. Flushes \subseteq {"caller", "delivery"}
    BY DEF Flushes
  <2> QED BY <2>1 DEF WriteEnds, Sound, TypeOK
<1> QED BY <1>1, <1>7, <1>8, <1>9, <1>12, <1>13, <1>16, <1>17, <1>18 DEF Flushing

LEMMA ApartWrites ==
  ASSUME Sound, WriteEnds, Elsewhere
  PROVE  Apart'
<1>1. /\ buffer' = <<>> /\ records' = records
      /\ UNCHANGED <<Results, Answers, todo, out, open, deliveries, events>>
  BY ElsewhereStays DEF WriteEnds
<1>2. PICK b \in Nat : b = Len(buffer)
  BY <1>1, Shift
<1>3. \A i \in Marks' : i + b \in Marks /\ Pend'[i] = Pend[i + b]
  BY <1>1, <1>2, WaitsOn
<1>4. \A i, j \in Marks' : Pend'[i].chunk = Pend'[j].chunk => i = j
  <2>1. SUFFICES ASSUME NEW i \in Marks', NEW j \in Marks', Pend'[i].chunk = Pend'[j].chunk PROVE i = j
    OBVIOUS
  <2>2. i + b = j + b
    BY <1>3, <2>1 DEF Sound, Apart
  <2>3. i \in Nat /\ j \in Nat
    BY DEF Marks, Places
  <2> QED BY <2>2, <2>3
<1>5. \A i \in Marks' : \E k \in Marks : Pend'[i].chunk = Pend[k].chunk
  BY <1>3
<1> QED BY <1>1, <1>4, <1>5 DEF Sound, Apart

LEMMA LateWrites ==
  ASSUME Sound, Elsewhere, broken => broken'
  PROVE  Late'
  BY ElsewhereStays DEF Sound, Late

LEMMA NewsWrites ==
  ASSUME Sound, Elsewhere
  PROVE  RunsInOrder' /\ Claims' /\ Heard'
<1>1. /\ UNCHANGED <<LastRun, Now, status, announced, claimed, caller, closing, events, looping, at, noted, deliveries>>
  BY ElsewhereStays
<1> QED BY <1>1, NewsStays, RunsInOrderStays, ClaimsStays, HeardStays DEF Sound

LEMMA StagedWrites ==
  ASSUME Sound, WriteEnds, Elsewhere, NEW b \in Nat, b = Len(buffer), Leaves(b)
  PROVE  Staged'
<1>1. /\ buffer' = <<>> /\ UNCHANGED <<LastRun, Now, Number, records, deliveries, at, looping, todo, out, open, fed, Results>>
      /\ (Quiet' <=> Quiet)
  BY ElsewhereStays DEF WriteEnds
<1>2. \A op : Waits(op) <=> Before(op, b) \/ Waits(op)'
  BY <1>1, WaitsOn
<1>3. /\ Waits("job")' => ~Before("job", b) /\ ~Before("ended", b) /\ Marked(b) = {} /\ live = 0
      /\ Waits("ended")' => ~Before("ended", b)
      /\ Before("job", b) \/ Before("ended", b) \/ live # 0 \/ Marked(b) # {} =>
              Number >= 1 /\ Now \in {"running"} \cup Ended /\ (Before("job", b) \/ row.n = Number)
      /\ Before("job", b) \/ Before("ended", b) \/ live # 0 => ~Quiet /\ Now # "submitted"
  BY <1>1, InOrder
<1>4. /\ row'.n = (IF Before("job", b) THEN Number ELSE row.n)
      /\ live' = IF Before("ended", b) THEN 0 ELSE IF Before("job", b) THEN LastRun ELSE live
  BY DEF Leaves
<1>5. Quiet \/ Now = "submitted" =>
       deliveries = <<>> /\ at = Nothing /\ live' = 0 /\ ~Waits("job")' /\ ~Waits("ended")'
  BY <1>2, <1>3, <1>4 DEF Sound, Staged
<1>6. (Quiet /\ looping) \/ Now = "submitted" => ~Waits("chunk")'
  BY <1>2 DEF Sound, Staged
<1>7. Now = "running" => ~Waits("ended")' /\ (Waits("job")' \/ (live' = LastRun /\ row'.n = Number))
  BY <1>2, <1>4 DEF Sound, Staged
<1>8. ~Quiet /\ Now \in Ended => Waits("job")' \/ row'.n = Number
  BY <1>2, <1>4 DEF Sound, Staged
<1>9. live' # 0 => live' = LastRun /\ ~Waits("job")' /\ row'.n = Number /\ Now \notin {"none", "gone"}
  <2>1. SUFFICES ASSUME live' # 0
                 PROVE  live' = LastRun /\ ~Waits("job")' /\ row'.n = Number /\ Now \notin {"none", "gone"}
    OBVIOUS
  <2>2. Before("job", b) \/ (~Before("job", b) /\ live # 0)
    BY <1>4, <2>1
  <2>3. live # 0 => live = LastRun
    BY DEF Sound, Staged
  <2> QED BY <1>3, <1>4, <2>1, <2>2, <2>3 DEF Ended
<1>10. Now \in Ended /\ ~Waits("ended")' => live' = 0 /\ ~Waits("job")'
  <2>1. SUFFICES ASSUME Now \in Ended, ~Waits("ended")' PROVE live' = 0 /\ ~Waits("job")'
    OBVIOUS
  <2>2. CASE Before("ended", b)
    BY <1>3, <1>4, <2>2
  <2>3. CASE ~Before("ended", b)
    <3>1. live = 0 /\ ~Waits("job")
      BY <1>2, <2>1, <2>3 DEF Sound, Staged
    <3> QED BY <1>2, <1>4, <2>3, <3>1
  <2> QED BY <2>2, <2>3
<1>11. /\ Now # "running" => todo = <<>> /\ out = {} /\ open = {} /\ ~fed
       /\ Now = "running" => at = Nothing /\ \A i \in 1 .. Len(deliveries) : deliveries[i].op = "result"
       /\ ~Quiet /\ Now \in Ended =>
            \/ /\ at = Nothing /\ deliveries # <<>>
               /\ \A i \in 1 .. Len(deliveries) :
                    deliveries[i].op = "announce" <=> i = Len(deliveries)
               /\ deliveries[Len(deliveries)].run = LastRun
            \/ deliveries = <<>> /\ at.op \in {"noting", "flushing"} /\ at.run = LastRun
       /\ \A i \in Results : deliveries[i].run = LastRun /\ deliveries[i].chunk \in Chunks
  BY DEF Sound, Staged
<1> QED BY ONLY <1>1, <1>5, <1>6, <1>7, <1>8, <1>9, <1>10, <1>11 DEF Staged

LEMMA QueuedWrites ==
  ASSUME Sound, WriteEnds, Elsewhere, NEW b \in Nat, b = Len(buffer),
         \/ row'.n = IF Before("job", b) THEN Number ELSE row.n
         \/ ~Waits("job") /\ ~Waits("chunk") /\ ~Waits("ended")
  PROVE  Queued'
<1>1. /\ buffer' = <<>> /\ UNCHANGED <<LastRun, Now, Number, records, at, looping, caller>>
  BY ElsewhereStays DEF WriteEnds
<1>2. \A op : Waits(op) <=> Before(op, b) \/ Waits(op)'
  BY <1>1, WaitsOn
<1>3. Waits("job")' => ~Before("job", b)
  BY <1>1, InOrder
<1>4. \/ row'.n = IF Before("job", b) THEN Number ELSE row.n
      \/ ~Waits("job") /\ ~Waits("chunk") /\ ~Waits("ended")
  OBVIOUS
<1>5. /\ \A i \in Places' : i + b \in Places /\ Pend'[i] = Pend[i + b]
      /\ Len(Pend) = b + Len(records) /\ Len(records) \in Nat /\ Len(Pend') = Len(records)
  BY <1>1, Shift
<1>6. Places' \subseteq Nat
  BY DEF Places
<1>7. ASSUME NEW i \in Places'
      PROVE  /\ Pend'[i].op \in OfJob => Pend'[i].run = LastRun /\ Now \notin {"none", "gone"}
             /\ Pend'[i].op = "chunk" => Pend'[i].chunk \in Chunks
             /\ Pend'[i].op = "ended" => Now \in Ended /\ Pend'[i].ok = (Now \notin Resumable)
             /\ Pend'[i].op = "discard" => caller = "discarding" /\ looping
             /\ IsFlush(Pend'[i], "delivery") => at.op = "flushing"
             /\ IsFlush(Pend'[i], "caller") => caller # "idle"
             /\ Pend'[i].op = "end" => i + b = Len(Pend) /\ Pend'[i] = Bare("end")
  BY <1>5 DEF Sound, Queued
<1>8. \A i \in Places' : Pend'[i].op = "end" => i = Len(Pend')
  <2>1. SUFFICES ASSUME NEW i \in Places', i + b = b + Len(records) PROVE i = Len(records)
    BY <1>5, <1>7
  <2> QED BY <1>5, <1>6, <2>1
<1>9. \A i, j \in Places' :
        /\ Pend'[i].op = "job" /\ Pend'[j].op \in OfJob => i <= j
        /\ Pend'[i].op = "ended" /\ Pend'[j].op = "ended" => i = j
  <2>1. SUFFICES ASSUME NEW i \in Places', NEW j \in Places'
                 PROVE  /\ Pend'[i].op = "job" /\ Pend'[j].op \in OfJob => i <= j
                        /\ Pend'[i].op = "ended" /\ Pend'[j].op = "ended" => i = j
    OBVIOUS
  <2>2. /\ Pend'[i].op = "job" /\ Pend'[j].op \in OfJob => i + b <= j + b
        /\ Pend'[i].op = "ended" /\ Pend'[j].op = "ended" => i + b = j + b
    BY <1>5 DEF Sound, Queued
  <2>3. i \in Nat /\ j \in Nat
    BY <1>6
  <2>4. (i + b <= j + b => i <= j) /\ (i + b = j + b => i = j)
    BY <2>3
  <2> QED BY ONLY <2>2, <2>4
<1>10. Waits("chunk")' \/ Waits("ended")' => Waits("job")' \/ row'.n = Number
  BY <1>2, <1>4 DEF Sound, Queued
<1>11. Waits("job")' => row'.n \in {0, Number}
  BY <1>2, <1>3, <1>4 DEF Sound, Queued
<1> QED BY ONLY <1>1, <1>7, <1>8, <1>9, <1>10, <1>11 DEF Queued

LEMMA UnrecordedWrites ==
  ASSUME Sound, WriteEnds, Elsewhere, NEW b \in Nat, b = Len(buffer), Leaves(b)
  PROVE  Unrecorded'
<1>1. /\ buffer' = <<>> /\ UNCHANGED <<LastRun, Now, Number, records, Results, Answers, deliveries, events, todo, out, skips>>
      /\ (Active' <=> Active)
  BY ElsewhereStays DEF WriteEnds
<1>2. \A op : Waits(op) <=> Before(op, b) \/ Waits(op)'
  BY <1>1, WaitsOn
<1>3. /\ Before("job", b) \/ Before("ended", b) \/ live # 0 => ~Quiet /\ Now # "submitted"
      /\ Marked(b) # {} => ~((Quiet /\ looping) \/ Now = "submitted")
  BY <1>1, InOrder
<1>4. /\ row'.n = (IF Before("job", b) THEN Number ELSE row.n)
      /\ ~Before("job", b) /\ ~Before("ended", b) /\ live = 0 => row' = row
      /\ ~Before("ended", b) /\ Marked(b) = {} => rows' = rows
      /\ \A p \in rows' : p \in rows \/ \E k \in Marked(b) : buffer[k].ok /\ p = Entry(k).at
  BY DEF Leaves
<1>5. ASSUME NEW c, <<Number, c>> \in rows'
      PROVE  <<Number, c>> \in rows \/ \E k \in Marked(b) : k \in Marks /\ Pend[k].chunk = c
  <2>1. SUFFICES ASSUME NEW k \in Marked(b), <<Number, c>> = Entry(k).at PROVE k \in Marks /\ Pend[k].chunk = c
    BY <1>4, <1>5
  <2>2. k \in Marks /\ Entry(k).at = <<Number, Pend[k].chunk>>
    BY EntryIs
  <2> QED BY <2>1, <2>2
<1>6. \A c \in out : <<Number, c>> \notin rows'
  BY <1>5 DEF Sound, Apart, Unrecorded
<1>7. \A i \in Results : <<Number, deliveries[i].chunk>> \notin rows'
  BY <1>5 DEF Sound, Apart, Unrecorded
<1>8. \A i \in Answers : <<Number, events[i].chunk>> \notin rows'
  BY <1>5 DEF Sound, Apart, Unrecorded
<1>9. \A i \in Marks' : <<Number, Pend'[i].chunk>> \notin rows'
  <2>1. SUFFICES ASSUME NEW i \in Marks', <<Number, Pend'[i].chunk>> \in rows' PROVE FALSE
    OBVIOUS
  <2>2. i + b \in Marks /\ i + b > b /\ Pend'[i] = Pend[i + b]
    BY <1>1, WaitsOn
  <2>3. PICK k \in Marked(b) : k \in Marks /\ Pend[k].chunk = Pend[i + b].chunk
    BY <1>5, <2>1, <2>2 DEF Sound, Unrecorded
  <2>4. k = i + b
    BY <2>2, <2>3 DEF Sound, Apart
  <2>5. k <= b /\ k \in Nat
    BY <2>3 DEF Marked
  <2> QED BY <2>2, <2>4, <2>5
<1>10. Now \in Resumable /\ Answers # {} => Waits("job")' \/ row'.n = Number
  BY <1>2, <1>4 DEF Sound, Unrecorded
<1>11. Now = "submitted" => (skips <=> \E c \in Chunks : <<row'.n, c>> \in rows')
  <2>1. Now = "submitted" => row' = row /\ rows' = rows
    BY <1>3, <1>4
  <2> QED BY <2>1 DEF Sound, Unrecorded
<1>12. Now = "running" /\ ~skips => \A i \in 1 .. Len(todo) : <<Number, todo[i]>> \notin rows'
  BY <1>5 DEF Sound, Apart, Unrecorded
<1>13. skips => Active
  BY DEF Sound, Unrecorded
<1> QED BY ONLY <1>1, <1>6, <1>7, <1>8, <1>9, <1>10, <1>11, <1>12, <1>13 DEF Unrecorded, Active

LEMMA AccountedWrites ==
  ASSUME Sound, Elsewhere, taken' = taken
  PROVE  Accounted'
  BY ElsewhereStays, NewsStays, AccountedStays DEF Sound

\* Of the records of the run in the transaction, what the callback took is in the file then.
LEMMA CountedCommits ==
  ASSUME Sound, Commit, NEW b \in Nat, b = Len(buffer), ~Before("discard", b)
  PROVE  Counted'
<1>1. /\ buffer' = <<>> /\ UNCHANGED <<LastRun, Now, Number, records, Results, Answers, deliveries, events>>
      /\ UNCHANGED <<todo, out, skips, broken, lapses, caller>> /\ (Active' <=> Active)
  <2>1. Elsewhere /\ buffer' = <<>> /\ UNCHANGED <<broken, lapses, lost>>
    BY DEF Commit, WriteEnds, Elsewhere, known
  <2> QED BY <2>1, ElsewhereStays
<1>2. /\ Leaves(b)
      /\ row'.s = IF Before("job", b) \/ Before("ended", b) \/ live # 0 THEN Now ELSE row.s
      /\ ~(Before("ended", b) /\ Now \in Final) =>
           rows \subseteq rows' /\ \A k \in Marked(b) : buffer[k].ok => Entry(k).at \in rows'
      /\ taken' = taken
  BY WrittenLeaves
<1>3. /\ Before("job", b) \/ Before("ended", b) \/ live # 0 \/ Marked(b) # {} =>
              Number >= 1 /\ (Before("job", b) \/ row.n = Number)
      /\ Before("job", b) => row.n \in {0, Number}
      /\ Before("job", b) \/ Before("ended", b) \/ live # 0 => ~Quiet /\ Now # "submitted"
      /\ Before("ended", b) => Now \in Ended
      /\ Marked(b) # {} => ~((Quiet /\ looping) \/ Now = "submitted")
      /\ Waits("ended")' => ~Before("ended", b)
  BY <1>1, InOrder
<1>4. /\ row'.n = (IF Before("job", b) THEN Number ELSE row.n)
      /\ ~Before("job", b) /\ ~Before("ended", b) /\ live = 0 => row' = row
      /\ ~Before("ended", b) /\ Marked(b) = {} => rows' = rows
      /\ \A p \in rows' : p \in rows \/ \E k \in Marked(b) : buffer[k].ok /\ p = Entry(k).at
  BY <1>2 DEF Leaves
<1>5. \A op : Waits(op) <=> Before(op, b) \/ Waits(op)'
  BY <1>1, WaitsOn
<1>6. Marked(b) # {} => row'.n = Number
  BY <1>3, <1>4
<1>7. \A p \in rows : row'.n = row.n /\ p[1] = row.n
  <2>1. SUFFICES ASSUME NEW p \in rows PROVE row'.n = row.n /\ p[1] = row.n
    OBVIOUS
  <2>2. p[1] = row.n /\ p[1] \in 1 .. RunsMax
    BY DEF Sound, TypeOK, Numbered
  <2>3. row.n # 0
    BY <2>2
  <2> QED BY <1>3, <1>4, <2>2, <2>3
<1>8. \A k \in Marked(b) : Entry(k).at = <<Number, Pend[k].chunk>> /\ k \in Marks /\ buffer[k] = Pend[k]
                           /\ Pend[k].chunk \in Chunks
  BY EntryIs
<1>9. \A i \in Marks' : \E k \in Marks : Pend'[i] = Pend[k]
  BY <1>1, WaitsOn
<1>10. Cap' = Cap
  BY <1>1 DEF Cap
<1>11. ASSUME NEW c \in Chunks, Owed(c)' PROVE Owed(c)
  <2>1. CASE Now = "submitted" /\ <<row'.n, c>> \notin rows'
    <3>1. row' = row /\ rows' = rows
      BY <1>3, <1>4, <2>1
    <3> QED BY <2>1, <3>1 DEF Owed
  <2>2. CASE \E i \in 1 .. Len(todo) : todo[i] = c /\ ~Shown(c)'
    <3>1. PICK i \in 1 .. Len(todo) : todo[i] = c /\ ~(skips /\ <<Number, c>> \in rows')
      BY <1>1, <2>2 DEF Shown
    <3>2. Now = "running"
      <4>1. todo # <<>>
        BY <3>1
      <4> QED BY <4>1 DEF Sound, Staged
    <3>3. rows \subseteq rows'
      BY <1>2, <3>2 DEF Final
    <3> QED BY <3>1, <3>3 DEF Owed, Shown
  <2>3. CASE c \in out \/ \E i \in Results : deliveries[i].chunk = c
    BY <2>3 DEF Owed
  <2> QED BY <1>1, <1>11, <2>1, <2>2, <2>3 DEF Owed
<1>12. ASSUME NEW c \in Chunks, Kept(c) PROVE Kept(c)'
  <2>1. CASE Before("ended", b) /\ Now \in Final
    BY <1>2, <2>1 DEF Kept
  <2>2. CASE ~(Before("ended", b) /\ Now \in Final)
    <3>0. rows \subseteq rows' /\ \A k \in Marked(b) : buffer[k].ok => Entry(k).at \in rows'
      BY <1>2, <2>2
    <3>1. CASE row.s \in Final
      <4>1. Before("job", b) \/ Before("ended", b) \/ live # 0 => row.s = Now
        BY <1>5, <3>1 DEF Sound, Told
      <4> QED BY <1>2, <3>1, <4>1 DEF Kept
    <3>2. CASE <<row.n, c>> \in rows
      <4>1. row'.n = row.n
        BY <1>7, <3>2
      <4> QED BY <3>0, <3>2, <4>1 DEF Kept
    <3>3. CASE \E i \in Answers : events[i].chunk = c /\ events[i].ok
      BY <1>1, <3>3 DEF Kept
    <3>4. CASE \E i \in Marks : Pend[i].chunk = c /\ Pend[i].ok
      <4>1. PICK i \in Marks : Pend[i].chunk = c /\ Pend[i].ok
        BY <3>4
      <4>2. CASE i \in Marked(b)
        <5>1. <<Number, c>> \in rows'
          BY <1>8, <3>0, <4>1, <4>2
        <5>2. row'.n = Number
          BY <1>6, <4>2
        <5> QED BY <5>1, <5>2 DEF Kept
      <4>3. CASE i - b \in Marks' /\ Pend'[i - b] = Pend[i]
        BY <4>1, <4>3 DEF Kept
      <4> QED BY <1>1, <4>2, <4>3, WaitsOn
    <3>5. CASE Waits("ended") /\ Now \in Final
      BY <1>1, <1>5, <2>2, <3>5 DEF Kept
    <3> QED BY <1>12, <3>1, <3>2, <3>3, <3>4, <3>5 DEF Kept
  <2> QED BY <2>1, <2>2
<1>13. \A c \in Chunks : <<row'.n, c>> \in rows' => taken[c] > 0
  <2>1. SUFFICES ASSUME NEW c \in Chunks, <<row'.n, c>> \in rows' PROVE taken[c] > 0
    OBVIOUS
  <2>2. CASE <<row'.n, c>> \in rows
    <3>1. row'.n = row.n
      BY <1>7, <2>2
    <3> QED BY <2>2, <3>1 DEF Sound, Counted
  <2>3. CASE \E k \in Marked(b) : buffer[k].ok /\ <<row'.n, c>> = Entry(k).at
    <3>1. PICK k \in Marked(b) : buffer[k].ok /\ <<row'.n, c>> = Entry(k).at
      BY <2>3
    <3>2. k \in Marks /\ Pend[k].ok /\ Pend[k].chunk = c
      BY <1>8, <3>1
    <3> QED BY <3>2 DEF Sound, Counted
  <2> QED BY <1>4, <2>1, <2>2, <2>3
<1>14. \A i \in Marks' : Pend'[i].ok => taken[Pend'[i].chunk] > 0
  BY <1>9 DEF Sound, Counted
<1>15. /\ broken => lapses > 0
       /\ \A c \in Chunks : taken[c] <= Cap
       /\ \A c \in Chunks : Owed(c) => taken[c] < Cap
       /\ ~broken \/ caller = "claiming" => \A c \in Chunks : taken[c] = Cap => Kept(c)
       /\ Now \in {"running"} \cup Resumable => \A i \in Answers : events[i].ok => taken[events[i].chunk] > 0
  BY DEF Sound, Counted
<1> QED BY ONLY <1>1, <1>2, <1>10, <1>11, <1>12, <1>13, <1>14, <1>15 DEF Counted

LEMMA ToldCommits ==
  ASSUME Sound, Commit, NEW b \in Nat, b = Len(buffer), ~Before("discard", b)
  PROVE  Told' /\ Numbered'
<1>1. /\ buffer' = <<>> /\ UNCHANGED <<LastRun, Now, Number, records, Results, deliveries, broken, lost, spoilt, next>>
      /\ (Active' <=> Active) /\ (Quiet' <=> Quiet)
  <2>1. Elsewhere /\ buffer' = <<>> /\ UNCHANGED <<broken, lapses, lost>>
    BY DEF Commit, WriteEnds, Elsewhere, known
  <2> QED BY <2>1, ElsewhereStays
<1>2. /\ Leaves(b)
      /\ row'.s = IF Before("job", b) \/ Before("ended", b) \/ live # 0 THEN Now ELSE row.s
      /\ taken' = taken
  BY WrittenLeaves
<1>3. /\ Before("job", b) \/ Before("ended", b) \/ live # 0 \/ Marked(b) # {} =>
              Number >= 1 /\ Now \in {"running"} \cup Ended /\ (Before("job", b) \/ row.n = Number)
      /\ Before("job", b) => row.n \in {0, Number}
      /\ Before("job", b) \/ Before("ended", b) \/ live # 0 => ~Quiet /\ Now # "submitted"
  BY <1>1, InOrder
<1>4. /\ row'.n = (IF Before("job", b) THEN Number ELSE row.n)
      /\ live' = (IF Before("ended", b) THEN 0 ELSE IF Before("job", b) THEN LastRun ELSE live)
      /\ ~Before("job", b) /\ ~Before("ended", b) /\ live = 0 => row' = row
      /\ \A p \in rows' : p \in rows \/ \E k \in Marked(b) : buffer[k].ok /\ p = Entry(k).at
  BY <1>2 DEF Leaves
<1>5. \A op : Waits(op) <=> Before(op, b) \/ Waits(op)'
  BY <1>1, WaitsOn
<1>6. (row'.s = Now) \/ (row' = row /\ live = 0 /\ ~Before("job", b) /\ ~Before("ended", b))
  BY <1>2, <1>4
<1>7. live' # 0 => live # 0 \/ Before("job", b)
  BY <1>4
<1>8. row'.s \in Final /\ (Active \/ live' # 0 \/ Results # {} \/ Waits("job")' \/ Waits("ended")') => row'.s = Now
  BY <1>5, <1>6, <1>7 DEF Sound, Told
<1>9. Now = "completed" /\ (live' # 0 \/ Waits("job")' \/ Waits("ended")') =>
       \A c \in Chunks : taken[c] > 0 \/ c \in spoilt
  BY <1>5, <1>7 DEF Sound, Told
<1>10. "completed" \in {row'.s, Now} => Results = {}
  BY <1>6 DEF Sound, Told
<1>11. Now \in Ended /\ ~lost /\ row'.n # 0 /\ row'.n = Number /\ ~Waits("ended")' => row'.s = Now
  BY <1>5, <1>6 DEF Sound, Told
<1>12. (Now \in {"none"} \cup Resumable => spoilt = {}) /\ (broken => lost)
  BY DEF Sound, Told
<1>13. Told'
  BY ONLY <1>1, <1>2, <1>8, <1>9, <1>10, <1>11, <1>12 DEF Told
<1>14. /\ next <= LastRun + 1 /\ row.n < next
       /\ ~Quiet => Number < next
       /\ Now = "submitted" => next <= LastRun /\ Number = row.n /\ row.s \in {"none"} \cup Resumable
       /\ Now \in {"running"} \cup Ended => Number >= 1
       /\ row.n = 0 <=> row.s = "none"
       /\ \A p \in rows : p[1] = row.n
  BY DEF Sound, Numbered
<1>15. row'.n < next
  BY <1>3, <1>4, <1>14
<1>16. Now = "submitted" => row' = row
  BY <1>3, <1>4
<1>17. row'.n = 0 <=> row'.s = "none"
  <2>1. CASE row' = row
    BY <1>14, <2>1
  <2>2. CASE Before("job", b) \/ Before("ended", b) \/ live # 0
    <3>1. row'.s = Now /\ row'.n = Number
      BY <1>2, <1>3, <1>4, <2>2
    <3>2. Now # "none" /\ Number >= 1
      BY <1>3, <2>2 DEF Ended
    <3>3. Number # 0
      BY <3>2
    <3> QED BY <3>1, <3>2, <3>3
  <2> QED BY <1>4, <2>1, <2>2
<1>18. \A p \in rows' : p[1] = row'.n
  <2>1. SUFFICES ASSUME NEW p \in rows' PROVE p[1] = row'.n
    OBVIOUS
  <2>2. CASE p \in rows
    <3>1. p[1] = row.n /\ p[1] \in 1 .. RunsMax
      BY <1>14, <2>2 DEF Sound, TypeOK
    <3>2. row.n # 0
      BY <3>1
    <3> QED BY <1>3, <1>4, <3>1, <3>2
  <2>3. CASE \E k \in Marked(b) : p = Entry(k).at
    <3>1. PICK k \in Marked(b) : p = <<Number, Pend[k].chunk>>
      BY <2>3, EntryIs
    <3>2. row'.n = Number
      BY <1>3, <1>4
    <3> QED BY <3>1, <3>2
  <2> QED BY <1>4, <2>2, <2>3
<1>19. Numbered'
  BY ONLY <1>1, <1>14, <1>15, <1>16, <1>17, <1>18 DEF Numbered
<1> QED BY <1>13, <1>19

LEMMA CommitKeeps ==
  ASSUME Sound, Commit
  PROVE  Sound'
<1>1. WriteEnds /\ Elsewhere /\ UNCHANGED <<broken, lapses, lost>> /\ buffer' = <<>> /\ TypeOK
  BY DEF Commit, WriteEnds, Elsewhere, known, Sound
<1>2. /\ UNCHANGED <<LastRun, Now, Number, records, status, num, next, claimed, skips, todo, fed, out, open, spoilt>>
      /\ UNCHANGED <<events, looping, closing, deliveries, at, noted, announced, caller>>
      /\ (Quiet' <=> Quiet) /\ (Active' <=> Active) /\ Results' = Results /\ Answers' = Answers
  BY <1>1, ElsewhereStays
<1>3. PICK b \in Nat : b = Len(buffer)
  BY <1>1, <1>2, Shift
<1>4. RunsInOrder' /\ Claims' /\ Heard' /\ Flushing' /\ flushed' \subseteq {"caller", "delivery"} /\ Late' /\ Apart'
  BY <1>1, NewsWrites, FlushingWrites, LateWrites, ApartWrites
<1>5. writing' \in BOOLEAN /\ buffer' \in Seq(Records)
  BY EmptySeq DEF Commit, WriteEnds
<1>6. ASSUME row' \in [n : 0 .. RunsMax, s : {"none", "running"} \cup Ended], rows' \subseteq (1 .. RunsMax) \X Chunks,
             live' \in 0 .. RunsMax, taken' \in [Chunks -> Nat]
      PROVE  TypeOK'
  BY ONLY <1>1, <1>2, <1>4, <1>5, <1>6 DEF TypeOK, Records
<1>7. CASE ~Before("discard", b)
  <2>1. Leaves(b) /\ taken' = taken
    BY <1>3, <1>7, WrittenLeaves
  <2>2. Numbered' /\ Told' /\ Counted'
    BY <1>3, <1>7, ToldCommits, CountedCommits
  <2>3. Staged' /\ Queued' /\ Unrecorded' /\ Accounted'
    BY <1>1, <1>3, <2>1, StagedWrites, QueuedWrites, UnrecordedWrites, AccountedWrites DEF Leaves
  <2>4. live' \in 0 .. RunsMax
    <3>1. live \in 0 .. RunsMax /\ LastRun \in 0 .. RunsMax /\ 0 \in 0 .. RunsMax
      BY <1>1, LastRunIs, JournalAssumption DEF TypeOK
    <3> QED BY <2>1, <3>1 DEF Leaves
  <2>5. TypeOK'
    BY <1>1, <1>6, <2>1, <2>4 DEF Leaves, TypeOK
  <2> QED BY <1>4, <2>2, <2>3, <2>5 DEF Sound
<1>8. CASE Before("discard", b)
  <2>1. /\ Quiet /\ looping /\ caller = "discarding" /\ live = 0
        /\ ~Waits("job") /\ ~Waits("ended") /\ ~Waits("chunk")
        /\ Written.row = NoRow /\ Written.rows = {} /\ Written.live = 0
    BY <1>1, <1>2, <1>3, <1>8, Discards
  <2>2. rows' = {} /\ row' = NoRow /\ live' = 0
    BY <2>1 DEF Commit, WriteEnds
  <2>3. row'.n = 0 /\ row'.s = "none"
    BY <2>2 DEF NoRow
  <2>4. taken' = [c \in Chunks |-> 0]
    <3>1. \E i \in DOMAIN buffer : buffer[i].op = "discard"
      <4>1. DOMAIN buffer = 1 .. b
        BY <1>1, <1>3 DEF TypeOK
      <4> QED BY <1>8, <4>1 DEF Before
    <3> QED BY <3>1 DEF Commit
  <2>5. \A op : Waits(op) <=> Before(op, b) \/ Waits(op)'
    BY <1>1, <1>2, <1>3, WaitsOn
  <2>6. ~Waits("job")' /\ ~Waits("ended")' /\ ~Waits("chunk")'
    BY <2>1, <2>5
  <2>7. Marks' = {}
    BY <2>6 DEF Marks, Waits
  <2>8. Now \in {"none", "gone"} \cup Ended /\ ~Active /\ Results = {} /\ deliveries = <<>>
    BY <2>1, QuietMeans
  <2>9. Now \notin {"submitted", "running"}
    BY <2>8 DEF Ended
  <2>10. TypeOK'
    <3>1. row' \in [n : 0 .. RunsMax, s : {"none", "running"} \cup Ended] /\ live' \in 0 .. RunsMax
      BY <2>2, JournalAssumption DEF NoRow
    <3>2. taken' \in [Chunks -> Nat]
      BY <2>4
    <3> QED BY <1>6, <2>2, <3>1, <3>2
  <2>11. Numbered'
    <3>1. /\ next <= LastRun + 1 /\ (~Quiet => Number < next)
          /\ Now \in {"running"} \cup Ended => Number >= 1
      BY DEF Sound, Numbered
    <3>2. 0 < next
      BY <1>1 DEF TypeOK
    <3> QED BY <1>2, <2>2, <2>3, <2>9, <3>1, <3>2 DEF Numbered
  <2>12. Staged'
    <3>1. at = Nothing
      BY <2>1 DEF Sound, Staged
    <3>2. todo = <<>> /\ out = {} /\ open = {} /\ ~fed
      BY <2>9 DEF Sound, Staged
    <3> QED BY <1>2, <2>1, <2>2, <2>6, <2>8, <2>9, <3>1, <3>2 DEF Staged
  <2>13. Queued'
    BY <1>1, <1>3, <2>1, QueuedWrites
  <2>14. Answers # {} => Now \notin Resumable
    <3>1. Now = "none" \/ Now = "gone" \/ LastRun \in announced
      BY <2>1 DEF Quiet
    <3> QED BY <2>1, <3>1 DEF Sound, Late, Resumable
  <2>15. Unrecorded'
    <3>1. skips => Active
      BY DEF Sound, Unrecorded
    <3> QED BY <1>2, <2>2, <2>7, <2>9, <2>14, <3>1 DEF Unrecorded
  <2>16. Accounted'
    BY <1>2, <2>9 DEF Accounted
  <2>17. Counted'
    <3>1. \A c \in Chunks : taken'[c] = 0
      BY <2>4
    <3>2. (broken => lapses > 0) /\ lapses \in Nat
      BY <1>1, JournalAssumption DEF Sound, Counted, TypeOK
    <3>3. Cap' \in Nat /\ (~broken => Cap' # 0)
      BY <1>1, <3>2 DEF Cap
    <3>4. \A c \in Chunks : ~Owed(c)'
      <4>1. todo = <<>> /\ out = {}
        BY <2>9 DEF Sound, Staged
      <4>2. 1 .. Len(todo) = {}
        BY <4>1
      <4> QED BY <1>2, <2>8, <2>9, <4>1, <4>2 DEF Owed
    <3>5. caller' # "claiming"
      BY <1>2, <2>1
    <3>6. \A c \in Chunks : taken'[c] <= Cap'
      BY <3>1, <3>3
    <3>7. Now \in {"running"} \cup Resumable => Answers = {}
      BY <2>9, <2>14
    <3>8. ~broken' \/ caller' = "claiming" => \A c \in Chunks : taken'[c] = Cap' => Kept(c)'
      BY <1>1, <3>1, <3>3, <3>5
    <3> QED BY <1>1, <1>2, <2>2, <2>7, <3>2, <3>4, <3>6, <3>7, <3>8 DEF Counted
  <2>18. Told'
    BY <1>1, <1>2, <2>2, <2>3, <2>6, <2>8 DEF Sound, Told, Final, Active
  <2> QED BY <1>4, <2>10, <2>11, <2>12, <2>13, <2>15, <2>16, <2>17, <2>18 DEF Sound
<1> QED BY <1>7, <1>8

LEMMA WriteFailsKeeps ==
  ASSUME Sound, WriteFails, Firm
  PROVE  Sound'
<1>1. /\ WriteEnds /\ Elsewhere /\ UNCHANGED <<row, rows, taken>> /\ buffer' = <<>> /\ TypeOK
      /\ lapses < LapsesMax /\ lapses' = lapses + 1 /\ broken' = TRUE /\ lost' = TRUE
  BY DEF WriteFails, WriteEnds, Elsewhere, known, disk, Sound
<1>2. /\ UNCHANGED <<LastRun, Now, Number, records, status, num, next, claimed, skips, todo, fed, out, open, spoilt>>
      /\ UNCHANGED <<events, looping, closing, deliveries, at, noted, announced, caller>>
      /\ (Quiet' <=> Quiet) /\ (Active' <=> Active) /\ Results' = Results /\ Answers' = Answers
  BY <1>1, ElsewhereStays
<1>3. PICK b \in Nat : b = Len(buffer)
  BY <1>1, <1>2, Shift
<1>4. RunsInOrder' /\ Claims' /\ Heard' /\ Flushing' /\ flushed' \subseteq {"caller", "delivery"} /\ Late' /\ Apart'
  BY <1>1, NewsWrites, FlushingWrites, LateWrites, ApartWrites
<1>5. ~Before("job", b)
  <2>1. DOMAIN buffer = 1 .. b
    BY <1>1, <1>3 DEF TypeOK
  <2> QED BY <2>1 DEF WriteFails, Before
<1>6. live' = IF Before("ended", b) THEN 0 ELSE live
  <2>1. CASE Before("discard", b)
    <3>1. live = 0 /\ Written.live = 0
      BY <1>1, <1>2, <1>3, <2>1, Discards
    <3> QED BY <3>1 DEF WriteFails, WriteEnds
  <2>2. CASE ~Before("discard", b)
    <3>1. Written.live = IF Before("ended", b) THEN 0 ELSE IF Before("job", b) THEN LastRun ELSE live
      BY <1>3, <2>2, WrittenIs DEF Prefix
    <3> QED BY <1>1, <1>5, <3>1 DEF WriteEnds
  <2> QED BY <2>1, <2>2
<1>7. Leaves(b)
  <2>1. row \in [n : 0 .. RunsMax, s : {"none", "running"} \cup Ended] /\ rows \subseteq (1 .. RunsMax) \X Chunks
    BY <1>1 DEF TypeOK
  <2> QED BY <1>1, <1>5, <1>6, <2>1 DEF Leaves
<1>8. Staged' /\ Queued' /\ Unrecorded' /\ Accounted'
  BY <1>1, <1>3, <1>7, StagedWrites, QueuedWrites, UnrecordedWrites, AccountedWrites DEF Leaves
<1>9. Numbered'
  BY <1>1, <1>2, NumberedStays DEF Sound
<1>10. live' # 0 => live # 0
  BY <1>6
<1>11. \A op : Waits(op)' => Waits(op)
  BY <1>1, <1>2, <1>3, WaitsOn
<1>12. Told'
  BY <1>1, <1>2, <1>10, <1>11 DEF Sound, Told
<1>13. PICK l \in Nat : l = lapses
  BY <1>1, JournalAssumption DEF TypeOK
<1>14. /\ Cap' = l + 1 /\ Cap \in {l, l + 1} /\ (~broken => Cap = l + 1) /\ (broken => Cap = l)
  BY <1>1, <1>13 DEF Cap
<1>15. \A c \in Chunks : taken[c] \in Nat /\ taken[c] <= Cap /\ (Owed(c) => taken[c] < Cap)
  BY <1>1 DEF Sound, Counted, TypeOK
<1>16. \A c \in Chunks : taken[c] <= l + 1 /\ (Owed(c) => taken[c] < l + 1)
  <2>1. SUFFICES ASSUME NEW n \in Nat, NEW m \in {l, l + 1}, n <= m
                 PROVE  n <= l + 1 /\ (n < m => n < l + 1)
    BY <1>14, <1>15
  <2> QED BY <2>1
<1>17. \A c \in Chunks : Owed(c)' => Owed(c)
  BY <1>1, <1>2 DEF Owed, Shown
<1>18. ASSUME caller = "claiming", NEW c \in Chunks, taken[c] = l + 1 PROVE Kept(c)'
  <2>1. ~broken
    <3>1. SUFFICES ASSUME broken PROVE FALSE
      OBVIOUS
    <3>2. taken[c] <= l /\ taken[c] \in Nat
      BY <1>14, <1>15, <3>1
    <3> QED BY <1>18, <3>2
  <2>2. Kept(c)
    BY <1>14, <1>18, <2>1 DEF Sound, Counted
  <2>3. Quiet /\ Answers = {} /\ ~closing
    BY <1>18 DEF Sound, Claims
  <2>4. looping
    BY <2>3 DEF Sound, Heard
  <2>5. ~Waits("chunk") /\ ~Waits("ended")
    BY <2>3, <2>4 DEF Sound, Staged
  <2>6. Marks = {}
    BY <2>5 DEF Marks, Waits
  <2>7. row.s \in Final \/ <<row.n, c>> \in rows
    BY <2>2, <2>3, <2>5, <2>6 DEF Kept
  <2> QED BY <1>1, <2>7 DEF Kept
<1>19. \A i \in Marks' : \E k \in Marks : Pend'[i] = Pend[k]
  BY <1>1, <1>2, <1>3, WaitsOn
<1>20. /\ \A c \in Chunks : <<row.n, c>> \in rows => taken[c] > 0
       /\ Now \in {"running"} \cup Resumable => \A i \in Answers : events[i].ok => taken[events[i].chunk] > 0
       /\ \A i \in Marks : Pend[i].ok => taken[Pend[i].chunk] > 0
  BY DEF Sound, Counted
<1>21. lapses' > 0
  BY <1>1, <1>13
<1>22. Counted'
  BY ONLY <1>1, <1>2, <1>14, <1>16, <1>17, <1>18, <1>19, <1>20, <1>21 DEF Counted
<1>23. TypeOK'
  <2>1. writing' \in BOOLEAN /\ buffer' \in Seq(Records)
    BY EmptySeq DEF WriteFails, WriteEnds
  <2>2. live' \in 0 .. RunsMax
    <3>1. live \in 0 .. RunsMax /\ 0 \in 0 .. RunsMax
      BY <1>1, JournalAssumption DEF TypeOK
    <3> QED BY <1>6, <3>1
  <2>3. lapses' \in 0 .. LapsesMax /\ lost' \in BOOLEAN /\ broken' \in BOOLEAN
    BY <1>1, <1>13, JournalAssumption DEF TypeOK
  <2> QED BY ONLY <1>1, <1>2, <1>4, <2>1, <2>2, <2>3 DEF TypeOK, Records
<1> QED BY <1>4, <1>8, <1>9, <1>12, <1>22, <1>23 DEF Sound
-----------------------------------------------------------------------------
(* The journal, through runs, processes, crashes and failed writes *)

LEMMA SoundInit ==
  ASSUME Init
  PROVE  Sound
<1>1. LastRun = 0
  <2>1. {r \in Runs : status[r] # "new"} = {}
    BY DEF Init
  <2> QED BY <2>1, FS_EmptySet DEF LastRun
<1>2. Now = "none" /\ Number = 0 /\ Quiet /\ ~Active
  BY <1>1 DEF Now, Number, Quiet, Active
<1>3. Pend = <<>> /\ events = <<>> /\ deliveries = <<>> /\ todo = <<>> /\ at = Nothing /\ row = NoRow
  BY EmptySeq, ConcatEmptySeq DEF Init, Pend
<1>4. Places = {} /\ Marks = {} /\ Results = {} /\ Answers = {} /\ 1 .. Len(events) = {} /\ 1 .. Len(deliveries) = {}
      /\ 1 .. Len(todo) = {}
  BY <1>3 DEF Places, Marks, Results, Answers
<1>5. \A op : ~Waits(op)
  BY <1>4 DEF Waits
<1>6. row.n = 0 /\ row.s = "none" /\ rows = {} /\ at.op = "nothing" /\ next = 1
  BY <1>3 DEF NoRow, Nothing, Bare, Item, Init
<1>7. TypeOK
  <2>1. /\ \A S : <<>> \in Seq(S)
        /\ 0 \in 0 .. RunsMax /\ 1 \in 1 .. RunsMax + 1 /\ 0 \in 0 .. LapsesMax
    BY EmptySeq, JournalAssumption
  <2>2. row \in [n : 0 .. RunsMax, s : {"none", "running"} \cup Ended]
    BY <1>3, <2>1 DEF NoRow
  <2>3. at \in Items({"nothing", "noting", "flushing"})
    BY <1>3, <2>1 DEF Nothing, Bare, Item, Items
  <2> QED BY <2>1, <2>2, <2>3 DEF TypeOK, Init
<1>8. RunsInOrder
  BY <1>1 DEF RunsInOrder, Init, Runs
<1>9. Numbered
  BY <1>1, <1>2, <1>6 DEF Numbered, Ended
<1>10. Claims
  BY <1>2 DEF Claims, Init
<1>11. Heard
  BY <1>2, <1>4 DEF Heard, Init
<1>12. Staged
  BY <1>2, <1>3, <1>4, <1>5 DEF Staged, Init, Ended
<1>13. Queued
  BY <1>4, <1>5 DEF Queued
<1>14. Flushing
  BY <1>4, <1>5 DEF Flushing, Init
<1>15. Late
  BY <1>2, <1>4, <1>6 DEF Late, Resumable, Final
<1>16. Apart
  BY <1>4 DEF Apart, Init
<1>17. Unrecorded
  BY <1>2, <1>4 DEF Unrecorded, Init, Resumable
<1>18. Accounted
  BY <1>2 DEF Accounted
<1>19. Counted
  <2>1. Cap = 1
    BY DEF Cap, Init
  <2>2. \A c \in Chunks : taken[c] = 0
    BY DEF Init
  <2> QED BY <1>2, <1>4, <1>6, <2>1, <2>2 DEF Counted, Init, Resumable
<1>20. Told
  BY <1>2, <1>4, <1>6 DEF Told, Final, Ended, Init
<1> QED BY <1>7, <1>8, <1>9, <1>10, <1>11, <1>12, <1>13, <1>14, <1>15, <1>16, <1>17, <1>18, <1>19, <1>20 DEF Sound

LEMMA NothingHappensKeeps ==
  ASSUME Sound, UNCHANGED vars
  PROVE  Sound'
<1>1. /\ UNCHANGED <<row, rows, records, buffer, live, broken, writing, flushed, claimed, next, status, num>>
      /\ UNCHANGED <<skips, todo, fed, out, open, spoilt, events, looping, closing, deliveries, at, noted>>
      /\ UNCHANGED <<announced, caller, taken, lapses, lost>>
  BY DEF vars, disk, writer, known, work, threads, ghosts
<1>2. UNCHANGED <<LastRun, Now, Number, Pend>>
  BY <1>1 DEF LastRun, Now, Number, Pend
<1>3. SameWork /\ SameAnswers /\ SameResults
  BY <1>1, <1>2, WorkStays, NewsStays
<1>4. TypeOK'
  BY <1>1 DEF Sound, TypeOK
<1>5. RunsInOrder' /\ Numbered' /\ Claims' /\ Heard' /\ Staged' /\ Queued'
  BY <1>1, <1>2, <1>3, RunsInOrderStays, NumberedStays, ClaimsStays, HeardStays, StagedStays, QueuedStays DEF Sound
<1>6. Flushing' /\ Late' /\ Apart' /\ Unrecorded' /\ Accounted' /\ Counted' /\ Told'
  BY <1>1, <1>2, <1>3, FlushingStays, LateStays, ApartStays, UnrecordedStays, AccountedStays, CountedStays, ToldStays DEF Sound
<1> QED BY <1>4, <1>5, <1>6 DEF Sound

LEMMA SoundStep ==
  ASSUME Sound, [Next]_vars, ~Hasty, Firm
  PROVE  Sound'
<1>1. CASE UNCHANGED vars
  BY <1>1, NothingHappensKeeps
<1>2. CASE Drain \/ Commit \/ WriteFails
  BY <1>2, Firm, DrainKeeps, CommitKeeps, WriteFailsKeeps
<1>3. CASE LoopEvent
  BY <1>3, OnSubmitKeeps, OnDeliveredKeeps, OnCancelKeeps, OnNotedKeeps, OnCloseKeeps DEF LoopEvent
<1>4. CASE SourceEnds \/ StopBroken \/ Feed
  BY <1>4, SourceEndsKeeps, StopBrokenKeeps, FeedKeeps
<1>5. CASE Delivery
  BY <1>5, AnnounceBeginsKeeps, NotedKeeps, AnnouncesKeeps, HandOverKeeps DEF Delivery
<1>6. ASSUME NEW c \in Chunks, OnDone(c) PROVE Sound'
  BY <1>6, OnDoneKeeps
<1>7. CASE Submits \/ DiscardEnds \/ CloseJournal
  BY <1>7, SubmitsKeeps, DiscardEndsKeeps, CloseJournalKeeps
<1>8. CASE SubmitBegins \/ DiscardBegins \/ CloseBegins
  BY <1>8, SubmitBeginsKeeps, DiscardBeginsKeeps, CloseBeginsKeeps
<1>9. ASSUME NEW r \in Runs, Cancel(r) PROVE Sound'
  BY <1>9, CancelKeeps
<1>10. CASE Crash \/ Reopen
  BY <1>10, CrashKeeps, ReopenKeeps
<1> QED BY <1>1, <1>2, <1>3, <1>4, <1>5, <1>6, <1>7, <1>8, <1>9, <1>10 DEF Next, Work, Outside

\* What is on record is true, whatever crashes and whenever a run is stopped, where a key is asked for
\* again only after its end was announced and no failed write takes the record of a job that begins:
\* `_settle`, `_announce`, `claim`, `_write`, `discard` and `Journal.__init__`.
THEOREM RecordIsTrueHolds == ASSUME ~Hasty, Firm PROVE Spec => []RecordIsTrue
<1>1. Sound /\ [Next]_vars => Sound'
  BY SoundStep
<1>2. Sound => DoneWasTaken
  BY DEF Sound, Counted, DoneWasTaken
<1>3. ASSUME Sound PROVE AnnouncedOnDisk
  <2>1. SUFFICES ASSUME LastRun \in announced, ~lost, row # NoRow, num[LastRun] = row.n PROVE row.s = status[LastRun]
    BY DEF AnnouncedOnDisk
  <2>2. LastRun \in Runs
    BY <1>3, <2>1 DEF Sound, TypeOK
  <2>3. Now = status[LastRun] /\ Number = num[LastRun]
    BY <2>2, JournalAssumption DEF Now, Number, Runs
  <2>4. Now \in Ended /\ Quiet
    BY <1>3, <2>1, <2>2, <2>3 DEF Sound, RunsInOrder, Quiet
  <2>5. row = [n |-> row.n, s |-> row.s]
    BY <1>3 DEF Sound, TypeOK
  <2>6. row.n # 0
    BY <1>3, <2>1, <2>5 DEF Sound, Numbered, NoRow
  <2>7. ~Waits("ended")
    BY <1>3, <2>4 DEF Sound, Staged
  <2> QED BY <1>3, <2>1, <2>3, <2>4, <2>6, <2>7 DEF Sound, Told
<1>4. Sound => RecordIsTrue
  BY <1>2, <1>3 DEF RecordIsTrue
<1> QED BY <1>1, <1>4, SoundInit, PTL DEF Spec

-----------------------------------------------------------------------------
(* The ledger *)

\* Nothing of what the ledger speaks of changes.
LEMMA LedgerStays ==
  ASSUME UNCHANGED <<taken, spoilt, lapses, status>>, row'.s = row.s
  PROVE  UNCHANGED L!vars
  BY DEF L!vars, FailedNow, LastRun

\* The end of a run: its failures count, unless it may go on.
LEMMA LedgerFinishes ==
  ASSUME Sound, NEW r \in Runs, Running(r), NEW s \in Ended, NEW failures, NEW before,
         Finishes(r, s, failures, before), UNCHANGED <<taken, lapses, row>>
  PROVE  /\ r = LastRun /\ FailedNow = spoilt /\ LastRun' = LastRun
         /\ FailedNow' = IF s \in Resumable THEN {} ELSE failures
<1>1. TypeOK /\ status[r] = "running" /\ LastRun \in 0 .. RunsMax
  BY LastRunIs DEF Sound, Running
<1>2. r = LastRun
  <2>1. ~(r < LastRun)
    BY <1>1 DEF Sound, RunsInOrder, Ended
  <2>2. ~(r > LastRun)
    BY <1>1 DEF Sound, RunsInOrder
  <2> QED BY <1>1, <2>1, <2>2 DEF Runs
<1>3. status' = [status EXCEPT ![r] = s] /\ s # "new" /\ spoilt' = IF s \in Resumable THEN {} ELSE failures
  BY DEF Finishes, Ended
<1>4. LastRun' = LastRun
  BY <1>1, <1>3, LastRunStays
<1>5. LastRun > 0 /\ status'[LastRun] = s
  BY <1>1, <1>2, <1>3 DEF TypeOK, Runs
<1>6. FailedNow = spoilt
  BY <1>1, <1>2, <1>5 DEF FailedNow, Resumable
<1>7. FailedNow' = IF s \in Resumable THEN {} ELSE failures
  BY <1>3, <1>4, <1>5 DEF FailedNow
<1> QED BY <1>2, <1>4, <1>6, <1>7

LEMMA LedgerSubmits ==
  ASSUME Sound, Submits
  PROVE  UNCHANGED L!vars
<1>1. UNCHANGED <<row, rows, spoilt, taken, lapses>>
  BY DEF Submits, disk, ghosts
<1>2. CASE status' = status
  BY <1>1, <1>2, LedgerStays
<1>3. CASE status' # status
  <2>1. LastRun < RunsMax /\ Quiet
    BY DEF Sound, Claims, Submits
  <2>2. status' = [status EXCEPT ![LastRun + 1] = "submitted"]
    BY <1>3 DEF Submits
  <2>3. LastRun \in 0 .. RunsMax /\ TypeOK
    BY LastRunIs DEF Sound
  <2>4. \A r \in Runs : status[r] = "new" <=> r > LastRun
    BY DEF Sound, RunsInOrder
  <2>5. LastRun + 1 \in Runs /\ status[LastRun + 1] = "new"
    <3>1. LastRun + 1 \in 1 .. RunsMax /\ LastRun + 1 > LastRun
      BY ONLY <2>1, <2>3, JournalAssumption
    <3> QED BY <2>4, <3>1 DEF Runs
  <2>6. LastRun' = LastRun + 1
    <3>1. {r \in Runs : status'[r] # "new"} = {r \in Runs : status[r] # "new"} \cup {LastRun + 1}
      BY <2>2, <2>3, <2>5 DEF TypeOK
    <3>2. IsFiniteSet({r \in Runs : status[r] # "new"})
      <4>1. IsFiniteSet(Runs)
        BY FS_Interval, JournalAssumption DEF Runs
      <4>2. {r \in Runs : status[r] # "new"} \subseteq Runs
        OBVIOUS
      <4> QED BY <4>1, <4>2, FS_Subset
    <3>3. LastRun + 1 \notin {r \in Runs : status[r] # "new"}
      BY <2>5
    <3>4. Cardinality({r \in Runs : status[r] # "new"} \cup {LastRun + 1}) = Cardinality({r \in Runs : status[r] # "new"}) + 1
      BY <3>2, <3>3, FS_AddElement
    <3> QED BY <3>1, <3>4 DEF LastRun
  <2>7. FailedNow' = spoilt
    <3>1. LastRun' > 0 /\ status'[LastRun'] = "submitted"
      BY <2>2, <2>3, <2>5, <2>6 DEF TypeOK
    <3> QED BY <1>1, <3>1 DEF FailedNow, Resumable
  <2>8. FailedNow = spoilt
    <3>1. CASE LastRun = 0
      BY <3>1 DEF FailedNow, Sound, Told, Now
    <3>2. CASE LastRun # 0
      <4>1. Now = status[LastRun] /\ LastRun > 0
        BY <2>3, <3>2 DEF Now
      <4> QED BY <4>1 DEF FailedNow, Sound, Told
    <3> QED BY <3>1, <3>2
  <2> QED BY <1>1, <2>7, <2>8 DEF L!vars
<1> QED BY <1>2, <1>3

LEMMA LedgerSettles ==
  ASSUME Sound, OnDelivered
  PROVE  L!Next \/ UNCHANGED L!vars
<1>1. TypeOK /\ UNCHANGED <<row, taken, lapses>>
  BY DEF Sound, OnDelivered, others, disk, ghosts
<1>2. PICK e \in Events : e = Head(events) /\ e = events[1] /\ 1 \in 1 .. Len(events) /\ e.op = "delivered"
  BY <1>1, Hearing DEF OnDelivered
<1>3. e.run = LastRun /\ e.chunk \in Chunks /\ Now \notin {"none", "gone"}
  BY <1>2 DEF Sound, Heard
<1>4. LastRun \in Runs /\ Now = status[LastRun]
  BY <1>3, NowTyped
<1>5. PICK failures : failures = IF e.ok THEN spoilt ELSE spoilt \cup {e.chunk}
  OBVIOUS
<1>6. ASSUME Now = "running", FailedNow = spoilt, FailedNow' = failures PROVE L!Next \/ UNCHANGED L!vars
  <2>1. CASE e.ok
    BY <1>1, <1>5, <1>6, <2>1 DEF L!vars
  <2>2. CASE ~e.ok
    <3>1. row.s # "completed"
      BY <1>6 DEF Sound, Told, Active, Final
    <3>2. L!Fail(e.chunk)
      BY <1>1, <1>5, <1>6, <2>2, <3>1 DEF L!Fail
    <3> QED BY <1>3, <3>2 DEF L!Next
  <2> QED BY <2>1, <2>2
<1>7. CASE Now = "running" /\ Finishes(LastRun, StatusWith(failures), failures, <<ChunkFinished(LastRun, e.chunk, e.ok)>>)
  <2>1. StatusWith(failures) \in Ended /\ StatusWith(failures) \notin Resumable
    BY DEF StatusWith, Ended, Resumable
  <2> QED BY <1>1, <1>4, <1>6, <1>7, <2>1, LedgerFinishes DEF Running
<1>8. CASE Now = "running" /\ spoilt' = failures /\ status' = status
  <2>1. LastRun > 0 /\ LastRun' = LastRun
    BY <1>4, <1>8 DEF Runs, LastRun
  <2>2. FailedNow = spoilt /\ FailedNow' = failures
    BY <1>4, <1>8, <2>1 DEF FailedNow, Resumable
  <2> QED BY <1>6, <1>8, <2>2
<1>9. CASE spoilt' = spoilt /\ status' = status
  BY <1>1, <1>9, LedgerStays
<1>10. Settles(LastRun, e.chunk, e.ok)
  BY <1>2, <1>3 DEF OnDelivered
<1> QED BY <1>4, <1>5, <1>7, <1>8, <1>9, <1>10 DEF Settles, Running

LEMMA LedgerHandsOver ==
  ASSUME Sound, NEW ok \in BOOLEAN, HandOver(ok)
  PROVE  L!Next \/ UNCHANGED L!vars
<1>1. UNCHANGED <<row, spoilt, status, lapses>> /\ TypeOK
  BY DEF HandOver, disk, known, work, Sound
<1>2. CASE ~ok
  BY <1>1, <1>2, LedgerStays DEF HandOver
<1>3. CASE ok
  <2>1. PICK c : c = Head(deliveries).chunk
    OBVIOUS
  <2>2. taken' = [taken EXCEPT ![c] = @ + 1]
    BY <1>3, <2>1 DEF HandOver
  <2>3. 1 \in Results /\ Head(deliveries) = deliveries[1]
    <3>1. deliveries \in Seq(Tidings) /\ deliveries # <<>> /\ Head(deliveries).op = "result"
      BY <1>1 DEF HandOver, Gets, TypeOK, Tidings
    <3>2. Len(deliveries) \in Nat /\ Len(deliveries) # 0 /\ Head(deliveries) = deliveries[1]
      BY <3>1, HeadTailProperties, LenProperties
    <3> QED BY <3>1, <3>2 DEF Results
  <2>4. c \in Chunks /\ row.s # "completed"
    BY <2>1, <2>3 DEF Sound, Staged, Told
  <2>5. taken[c] < Cap /\ taken[c] \in Nat
    BY <1>1, <2>1, <2>3, <2>4 DEF Sound, Counted, Owed, TypeOK
  <2>6. taken[c] <= lapses
    <3>1. lapses \in Nat
      BY <1>1, JournalAssumption DEF TypeOK
    <3>2. Cap \in {lapses, lapses + 1}
      BY DEF Cap
    <3> QED BY <2>5, <3>1, <3>2
  <2>7. UNCHANGED FailedNow
    BY <1>1 DEF FailedNow, LastRun
  <2>8. L!Take(c)
    BY <1>1, <2>2, <2>4, <2>6, <2>7 DEF L!Take
  <2> QED BY <2>4, <2>8 DEF L!Next
<1> QED BY <1>2, <1>3

LEMMA LedgerCommits ==
  ASSUME Sound, Commit
  PROVE  L!Next \/ UNCHANGED L!vars
<1>1. WriteEnds /\ Elsewhere /\ buffer' = <<>> /\ UNCHANGED <<records, lapses, spoilt, status>>
  BY DEF Commit, WriteEnds, Elsewhere, known, work
<1>2. PICK b \in Nat : b = Len(buffer)
  BY <1>1, Shift
<1>3. UNCHANGED FailedNow
  BY <1>1 DEF FailedNow, LastRun
<1>4. CASE Before("discard", b)
  <2>1. row' = NoRow
    BY <1>1, <1>2, <1>4, Discards DEF Commit
  <2>2. taken' = [c \in Chunks |-> 0]
    <3>1. DOMAIN buffer = 1 .. b
      BY <1>2 DEF Sound, TypeOK
    <3> QED BY <1>4, <3>1 DEF Commit, Before
  <2>3. L!Discard
    BY <1>1, <1>3, <2>1, <2>2 DEF L!Discard, NoRow
  <2> QED BY <2>3 DEF L!Next
<1>5. CASE ~Before("discard", b)
  <2>1. /\ row'.s = IF Before("job", b) \/ Before("ended", b) \/ live # 0 THEN Now ELSE row.s
        /\ taken' = taken
    BY <1>2, <1>5, WrittenLeaves
  <2>2. CASE row'.s = row.s
    BY <1>1, <2>1, <2>2, LedgerStays
  <2>3. CASE row'.s # row.s
    <3>1. row'.s = Now /\ (Before("job", b) \/ Before("ended", b) \/ live # 0)
      BY <2>1, <2>3
    <3>2. Waits("job") \/ Waits("ended") \/ live # 0
      BY <1>1, <1>2, <3>1, WaitsOn
    <3>3. row.s # "completed"
      BY <2>3, <3>1, <3>2 DEF Sound, Told, Final
    <3>4. CASE Now # "completed"
      BY <1>1, <1>3, <2>1, <3>1, <3>3, <3>4 DEF L!vars
    <3>5. CASE Now = "completed"
      <4>1. \A c \in Chunks : taken[c] > 0 \/ c \in spoilt
        BY <3>2, <3>5 DEF Sound, Told
      <4>2. LastRun \in Runs /\ status[LastRun] = "completed"
        BY <3>5, NowTyped
      <4>3. FailedNow = spoilt
        BY <4>2 DEF FailedNow, Resumable, Runs
      <4>4. L!Complete
        BY <1>1, <1>3, <2>1, <3>1, <3>3, <3>5, <4>1, <4>3 DEF L!Complete
      <4> QED BY <4>4 DEF L!Next
    <3> QED BY <3>4, <3>5
  <2> QED BY <2>2, <2>3
<1> QED BY <1>4, <1>5

LEMMA LedgerOpens ==
  ASSUME Opens, TypeOK
  PROVE  taken' = taken /\ FailedNow' = {} /\ ((row'.s = "completed") <=> (row.s = "completed"))
<1>1. taken' = taken /\ spoilt' = {}
  BY DEF Opens
<1>2. FailedNow' = {}
  BY <1>1 DEF FailedNow
<1>3. row' = row \/ (row.s = "running" /\ row' = [row EXCEPT !.s = "interrupted"])
  BY DEF Opens
<1>4. (row'.s = "completed") <=> (row.s = "completed")
  <2>1. CASE row.s = "running" /\ row' = [row EXCEPT !.s = "interrupted"]
    <3>1. row'.s = "interrupted"
      BY <2>1 DEF TypeOK
    <3> QED BY <2>1, <3>1
  <2> QED BY <1>3, <2>1
<1> QED BY <1>1, <1>2, <1>4

LEMMA LedgerStep ==
  ASSUME Sound, [Next]_vars
  PROVE  [L!Next]_L!vars
<1>0. TypeOK
  BY DEF Sound
<1>1. CASE UNCHANGED vars
  BY <1>1, LedgerStays DEF vars, disk, ghosts, known, work
<1>2. CASE Drain
  BY <1>2, LedgerStays DEF Drain, disk, ghosts, known, work
<1>3. CASE Commit
  BY <1>3, LedgerCommits
<1>4. CASE WriteFails
  <2>1. FailedNow' = FailedNow
    BY <1>4 DEF WriteFails, FailedNow, LastRun, known, work
  <2>2. L!Lapse
    BY <1>4, <2>1 DEF WriteFails, L!Lapse, disk
  <2> QED BY <2>2 DEF L!Next
<1>5. CASE OnSubmit
  <2>1. spoilt' = {} /\ UNCHANGED <<row, taken, lapses>>
    BY <1>5 DEF OnSubmit, others, disk, ghosts
  <2>2. FailedNow' = {}
    BY <2>1 DEF FailedNow
  <2>3. L!Forget
    BY <2>1, <2>2 DEF L!Forget
  <2> QED BY <2>3 DEF L!Next
<1>6. CASE OnDelivered
  BY <1>6, LedgerSettles
<1>7. CASE OnNoted
  BY <1>7, LedgerStays DEF OnNoted, known, work, others, disk, ghosts
<1>8. ASSUME NEW r \in Runs, NEW s \in Resumable, NEW failures, Running(r), Finishes(r, s, failures, <<>>), UNCHANGED <<row, taken, lapses>>
      PROVE  L!Next
  <2>1. FailedNow' = {}
    BY <1>8, LedgerFinishes DEF Resumable, Ended
  <2>2. L!Forget
    BY <1>8, <2>1 DEF L!Forget
  <2> QED BY <2>2 DEF L!Next
<1>9. CASE OnCancel
  <2>1. UNCHANGED <<row, taken, lapses>>
    BY <1>9 DEF OnCancel, others, disk, ghosts
  <2>2. CASE UNCHANGED <<status, work>>
    BY <2>1, <2>2, LedgerStays DEF work
  <2>3. CASE Running(Head(events).run) /\ Finishes(Head(events).run, "canceled", {}, <<>>)
    <3>1. Head(events).run \in Runs
      <4>1. 1 \in 1 .. Len(events) /\ Head(events) = events[1] /\ events[1].op = "cancel"
        BY <1>0, <1>9, Hearing DEF OnCancel
      <4>2. events[1].run \in 1 .. LastRun
        BY <4>1 DEF Sound, Heard
      <4>3. LastRun \in 0 .. RunsMax
        BY <1>0, LastRunIs
      <4>4. events[1].run \in 1 .. RunsMax
        BY ONLY <4>2, <4>3, JournalAssumption
      <4> QED BY <4>1, <4>4 DEF Runs
    <3> QED BY <1>8, <2>1, <2>3, <3>1 DEF Resumable
  <2> QED BY <1>9, <2>2, <2>3 DEF OnCancel
<1>10. CASE OnClose
  <2>1. UNCHANGED <<row, taken, lapses>>
    BY <1>10 DEF OnClose, others, disk, ghosts
  <2>2. CASE UNCHANGED <<status, work>>
    BY <2>1, <2>2, LedgerStays DEF work
  <2>3. CASE \E r \in Runs : Running(r) /\ Finishes(r, "interrupted", {}, <<>>)
    BY <1>8, <2>1, <2>3 DEF Resumable
  <2> QED BY <1>10, <2>2, <2>3 DEF OnClose
<1>11. ASSUME NEW s \in {"completed", "failed"}, Finishes(LastRun, s, spoilt, <<>>), Running(LastRun), LastRun > 0,
              UNCHANGED <<row, taken, lapses>>
       PROVE  UNCHANGED L!vars
  <2>1. LastRun \in Runs
    BY <1>0, <1>11, LastRunIs DEF Runs
  <2>2. FailedNow' = FailedNow
    BY <1>11, <2>1, LedgerFinishes DEF Resumable, Ended
  <2> QED BY <1>11, <2>2 DEF L!vars
<1>12. CASE SourceEnds
  <2>1. UNCHANGED <<row, taken, lapses>> /\ Running(LastRun) /\ LastRun > 0
    BY <1>12 DEF SourceEnds, others, disk, ghosts
  <2>2. CASE UNCHANGED <<status, spoilt>>
    BY <2>1, <2>2, LedgerStays
  <2>3. CASE Finishes(LastRun, StatusWith(spoilt), spoilt, <<>>)
    BY <1>11, <2>1, <2>3 DEF StatusWith
  <2> QED BY <1>12, <2>2, <2>3 DEF SourceEnds
<1>13. CASE StopBroken
  <2>1. UNCHANGED <<row, taken, lapses>> /\ Running(LastRun) /\ LastRun > 0
    BY <1>13 DEF StopBroken, others, disk, ghosts
  <2> QED BY <1>11, <1>13, <2>1 DEF StopBroken
<1>14. CASE Feed
  BY <1>14, LedgerStays DEF Feed, disk, known, ghosts
<1>15. CASE AnnounceBegins \/ Noted \/ Announces
  BY <1>15, LedgerStays DEF AnnounceBegins, Noted, Announces, disk, known, work, ghosts
<1>16. ASSUME NEW ok \in BOOLEAN, HandOver(ok) PROVE L!Next \/ UNCHANGED L!vars
  BY <1>16, LedgerHandsOver
<1>17. ASSUME NEW c \in Chunks, OnDone(c) PROVE UNCHANGED L!vars
  BY <1>17, LedgerStays DEF OnDone, known, others, disk, ghosts
<1>18. CASE Submits
  BY <1>18, LedgerSubmits
<1>19. CASE DiscardEnds \/ CloseJournal
  BY <1>19, LedgerStays DEF DiscardEnds, CloseJournal, disk, known, work, ghosts
<1>20. CASE SubmitBegins \/ DiscardBegins \/ CloseBegins
  BY <1>20, LedgerStays DEF SubmitBegins, DiscardBegins, CloseBegins, disk, known, work, ghosts
<1>21. ASSUME NEW r \in Runs, Cancel(r) PROVE UNCHANGED L!vars
  BY <1>21, LedgerStays DEF Cancel, disk, known, work, ghosts
<1>22. CASE Crash
  <2>1. lapses' = lapses + 1
    BY <1>22 DEF Crash
  <2>2. L!Lapse
    BY <1>0, <1>22, <2>1, LedgerOpens DEF Crash, L!Lapse
  <2> QED BY <2>2 DEF L!Next
<1>23. CASE Reopen
  <2>1. lapses' = lapses
    BY <1>23 DEF Reopen
  <2>2. L!Forget
    BY <1>0, <1>23, <2>1, LedgerOpens DEF Reopen, L!Forget
  <2> QED BY <2>2 DEF L!Next
<1> QED BY <1>1, <1>2, <1>3, <1>4, <1>5, <1>6, <1>7, <1>9, <1>10, <1>12, <1>13, <1>14, <1>15, <1>16, <1>17,
           <1>18, <1>19, <1>20, <1>21, <1>22, <1>23 DEF Next, Work, Outside, LoopEvent, Delivery

\* The journal and the engine implement the ledger, under the same conditions: what was taken is taken
\* again only after a crash or a failed write, and a job on record as completed had every chunk taken
\* or failed (`_settle`, `_announce`, `claim`, `done_before`, the drain in `close`).
THEOREM LedgerKept == ASSUME ~Hasty, Firm PROVE Spec => ImplementsLedger
<1>1. Sound /\ [Next]_vars => Sound'
  BY SoundStep
<1>2. Init => L!Init
  BY DEF Init, L!Init, NoRow, FailedNow
<1>3. Sound /\ [Next]_vars => [L!Next]_L!vars
  BY LedgerStep
<1> QED BY <1>1, <1>2, <1>3, SoundInit, PTL DEF Spec, ImplementsLedger, L!Spec
=============================================================================
