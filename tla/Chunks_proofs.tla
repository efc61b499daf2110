--------------------------- MODULE Chunks_proofs ----------------------------
(***************************************************************************)
(* Proofs about the chunks of the engine, part by part:                    *)
(*  - type correctness;                                                    *)
(*  - an executor that is told to stop what it runs, or runs a suspect,    *)
(*    comes out of it again, with nothing beside the suspect meanwhile;    *)
(*  - the tokens that are free and held are the ones there are, and a job  *)
(*    holds more than its cap with a single task alone;                    *)
(*  - a chunk of a job that runs is in one place until it is counted, and  *)
(*    what the window is measured with is what is open;                    *)
(*  - the chunk that a task goes by, and one in its first attempt, is      *)
(*    charged for a death or a time limit of its own alone.                *)
(***************************************************************************)
EXTENDS Chunks, FiniteSetTheorems, SequenceTheorems, WellFoundedInduction, TLAPS

-----------------------------------------------------------------------------
(* Type correctness *)

\* The part of the type that counting a chunk, or charging it, may change.
VerdictsType ==
  /\ status \in [Jobs -> {"running"} \cup Ended]
  /\ open \in [Jobs -> Int]
  /\ outcome \in [Chunks -> {"pending", "done", "failed"}]
  /\ attempt \in [Chunks -> Nat \ {0}]
  /\ \A c \in Chunks : attempt[c] <= Retries[JobOf[c]] + 1
  /\ backoff \subseteq Chunks

\* The end of a job, if it has come, is one of the ends there are.
LEMMA FinishIfOverType ==
  ASSUME TypeOK, NEW j \in Jobs, NEW line, NEW n, NEW came, FinishIfOver(j, line, n, came)
  PROVE  status' \in [Jobs -> {"running"} \cup Ended]
BY DEF TypeOK, FinishIfOver, Ended

\* A chunk that is counted leaves every job, count and outcome what it should be.
LEMMA SettleType ==
  ASSUME TypeOK, NEW c \in Chunks, NEW what \in {"done", "failed"}, Settle(c, what)
  PROVE  /\ status' \in [Jobs -> {"running"} \cup Ended]
         /\ open' \in [Jobs -> Int]
         /\ outcome' \in [Chunks -> {"pending", "done", "failed"}]
<1>1. JobOf[c] \in Jobs
  BY ChunksAssumption
<1>2. FinishIfOver(JobOf[c], ready[JobOf[c]], open[JobOf[c]] - 1, outcome')
  BY DEF Settle
<1>3. status' \in [Jobs -> {"running"} \cup Ended]
  BY <1>1, <1>2, FinishIfOverType
<1>4. open' \in [Jobs -> Int] /\ outcome' \in [Chunks -> {"pending", "done", "failed"}]
  BY <1>1 DEF Settle, TypeOK
<1> QED BY <1>3, <1>4

\* A chunk is never charged beyond the attempts its job gives it (`_attempt_failed`).
LEMMA AttemptFailedType ==
  ASSUME TypeOK, NEW c \in Chunks, AttemptFailed(c)
  PROVE  VerdictsType'
<1>1. CASE RunsAgain(c)
  <2>1. /\ attempt' = [attempt EXCEPT ![c] = @ + 1]
        /\ backoff' = backoff \cup {c}
        /\ UNCHANGED <<status, open, outcome>>
    BY <1>1 DEF AttemptFailed
  <2>2. attempt[c] <= Retries[JobOf[c]]
    BY <1>1 DEF RunsAgain
  <2>3. \A d \in Chunks : Retries[JobOf[d]] \in Nat
    BY ChunksAssumption
  <2>4. attempt' \in [Chunks -> Nat \ {0}]
    BY <2>1 DEF TypeOK
  <2>5. \A d \in Chunks : attempt'[d] <= Retries[JobOf[d]] + 1
    BY <2>1, <2>2, <2>3 DEF TypeOK
  <2> QED BY <2>1, <2>4, <2>5 DEF TypeOK, VerdictsType
<1>2. CASE ~RunsAgain(c)
  <2>1. Settle(c, "failed") /\ UNCHANGED <<attempt, backoff>>
    BY <1>2 DEF AttemptFailed
  <2> QED BY <2>1, SettleType DEF TypeOK, VerdictsType
<1> QED BY <1>1, <1>2

\* Whatever a chunk came back as, it goes to one of the places there are.
LEMMA ChunkEndedType ==
  ASSUME TypeOK, NEW c \in Chunks, NEW s, NEW wasAlone, NEW wasDoomed,
         ChunkEnded(c, s, wasAlone, wasDoomed)
  PROVE  /\ VerdictsType'
         /\ delivering' \subseteq Chunks
         /\ suspects' \in Seq(Chunks)
<1>1. CASE AttemptFailed(c) /\ UNCHANGED <<delivering, suspects>>
  BY <1>1, AttemptFailedType DEF TypeOK
<1>2. CASE delivering' = delivering \cup {c} /\ UNCHANGED <<verdicts, suspects>>
  BY <1>2 DEF TypeOK, VerdictsType, verdicts
<1>3. CASE suspects' = Append(suspects, c) /\ UNCHANGED <<verdicts, delivering>>
  BY <1>3 DEF TypeOK, VerdictsType, verdicts
<1> QED BY <1>1, <1>2, <1>3 DEF ChunkEnded

\* An executor that is not full has a place left.
LEMMA NextLaneFree ==
  ASSUME TypeOK, Inflight < Capacity
  PROVE  NextLane \in Lanes /\ NextLane \notin DOMAIN flying
<1>1. Capacity \in Nat /\ Capacity > 0
  BY ChunksAssumption
<1>2. IsFiniteSet(Lanes) /\ Cardinality(Lanes) = Capacity
  BY <1>1, FS_Interval DEF Lanes
<1>3. DOMAIN flying # Lanes
  BY <1>1, <1>2 DEF Inflight
<1>4. \E l \in Lanes : l \notin DOMAIN flying
  BY <1>3 DEF TypeOK
<1> QED BY <1>4 DEF NextLane

\* Nothing is inflight where no task is.
LEMMA NoneInflight ==
  ASSUME DOMAIN flying = {}
  PROVE  Inflight < Capacity
BY ChunksAssumption, FS_EmptySet DEF Inflight

\* A task that goes to an executor with a place left is a task like the others.
LEMMA LaunchType ==
  ASSUME TypeOK, Inflight < Capacity,
         NEW members \in Seq(Chunks), members # <<>>, NEW packed \in BOOLEAN,
         NEW byItself \in BOOLEAN, Launch(members, packed, byItself)
  PROVE  /\ DOMAIN flying' = DOMAIN flying \cup {NextLane}
         /\ DOMAIN flying' \subseteq Lanes
         /\ flying' \in [DOMAIN flying' -> Task]
         /\ flying'[NextLane].alone = byItself
         /\ \A l \in DOMAIN flying : flying'[l] = flying[l]
         /\ isolating' = byItself
         /\ free' \in Int
<1> DEFINE t == [head |-> Head(members), left |-> members, packed |-> packed, alone |-> byItself,
                 doomed |-> FALSE, spared |-> FALSE]
<1>1. NextLane \in Lanes /\ NextLane \notin DOMAIN flying
  BY NextLaneFree
<1>2. Head(members) \in Chunks
  OBVIOUS
<1>3. t \in Task
  BY <1>2 DEF Task
<1>4. flying' = [k \in DOMAIN flying \cup {NextLane} |-> IF k = NextLane THEN t ELSE flying[k]]
  BY DEF Launch
<1>5. free' = free - Cost[Head(members)] /\ isolating' = byItself
  BY DEF Launch
<1>6. Cost[Head(members)] \in Nat
  BY <1>2, ChunksAssumption
<1>7. \A l \in DOMAIN flying : flying[l] \in Task
  BY DEF TypeOK
<1> HIDE DEF t
<1>8. flying' \in [DOMAIN flying' -> Task]
  BY <1>3, <1>4, <1>7
<1>9. flying'[NextLane].alone = byItself
  BY <1>4 DEF t
<1>10. free' \in Int
  BY <1>5, <1>6 DEF TypeOK
<1> QED BY <1>1, <1>4, <1>5, <1>8, <1>9, <1>10 DEF TypeOK

\* Why a task falls says nothing of what it is otherwise.
LEMMA FallenTask ==
  ASSUME NEW t \in Task, NEW doom \in BOOLEAN, NEW spare \in BOOLEAN
  PROVE  LET u == [t EXCEPT !.doomed = doom, !.spared = spare]
         IN  u \in Task /\ u.alone = t.alone
BY DEF Task

\* The tasks of an executor that is told to stop what it runs stay what they were, except for
\* why each falls.
LEMMA KillType ==
  ASSUME TypeOK, NEW late, NEW running, Kill(late, running)
  PROVE  /\ DOMAIN flying' = DOMAIN flying
         /\ flying' \in [DOMAIN flying' -> Task]
         /\ \A l \in DOMAIN flying : flying'[l].alone = flying[l].alone
         /\ killing' = TRUE
<1> DEFINE doom(l)  == flying[l].doomed \/ l \in late
           spare(l) == IF JobOf[flying[l].head] \in running THEN ~doom(l) ELSE flying[l].spared
           t(l)     == [flying[l] EXCEPT !.doomed = doom(l), !.spared = spare(l)]
<1>1. flying' = [l \in DOMAIN flying |-> t(l)] /\ killing' = TRUE
  BY DEF Kill
<1>2. ASSUME NEW l \in DOMAIN flying
      PROVE  t(l) \in Task /\ t(l).alone = flying[l].alone
  <2>1. flying[l] \in Task
    BY DEF TypeOK
  <2>2. flying[l].spared \in BOOLEAN
    BY <2>1 DEF Task
  <2>3. doom(l) \in BOOLEAN
    OBVIOUS
  <2>4. spare(l) \in BOOLEAN
    BY <2>2
  <2> HIDE DEF doom, spare
  <2> QED BY <2>1, <2>3, <2>4, FallenTask
<1> HIDE DEF t
<1> QED BY <1>1, <1>2

\* `_start_one` starts tasks of the chunks there are.
LEMMA StartTaskType ==
  ASSUME TypeOK, NEW j \in Jobs, StartTask(j)
  PROVE  TypeOK'
<1>1. PICK n \in 1 .. Batch :
        /\ Packs(j, n)
        /\ Launch(SubSeq(ready[j], 1, n), n > 1 \/ Batched, FALSE)
        /\ ready' = [ready EXCEPT ![j] = SubSeq(@, n + 1, Len(@))]
        /\ open' = [open EXCEPT ![j] = @ + n]
  BY DEF StartTask
<1>2. UNCHANGED <<status, suspects, killing, backoff, delivering, outcome, attempt, marks,
                  ending, how>>
  BY DEF StartTask
<1>3. n \in Nat /\ n > 0 /\ n <= Len(ready[j]) /\ ready[j] \in Seq(Chunks)
  <2>1. n \in Nat /\ n > 0
    BY ChunksAssumption
  <2>2. n <= Len(ready[j])
    BY <1>1 DEF Packs
  <2>3. ready[j] \in Seq(Chunks)
    BY DEF TypeOK
  <2> QED BY <2>1, <2>2, <2>3
<1>4. SubSeq(ready[j], 1, n) \in Seq(Chunks) /\ SubSeq(ready[j], 1, n) # <<>>
  BY <1>3
<1>5. SubSeq(ready[j], n + 1, Len(ready[j])) \in Seq(Chunks)
  BY <1>3
<1>6. Inflight < Capacity
  BY DEF StartTask, SlotOpen
<1>7. (n > 1 \/ Batched) \in BOOLEAN
  BY ChunksAssumption
<1>8. /\ DOMAIN flying' \subseteq Lanes
      /\ flying' \in [DOMAIN flying' -> Task]
      /\ isolating' = FALSE
      /\ free' \in Int
  BY <1>1, <1>4, <1>6, <1>7, LaunchType
<1>9. ready' \in [Jobs -> Seq(Chunks)] /\ open' \in [Jobs -> Int]
  <2>1. ready \in [Jobs -> Seq(Chunks)] /\ open \in [Jobs -> Int]
    BY DEF TypeOK
  <2>2. open[j] + n \in Int
    BY <1>3, <2>1
  <2> QED BY ONLY <1>1, <1>5, <2>1, <2>2
<1> QED BY <1>2, <1>8, <1>9 DEF TypeOK, marks

\* `_start_one` may refuse a chunk.
LEMMA RefuseChunkType ==
  ASSUME TypeOK, NEW j \in Jobs, RefuseChunk(j)
  PROVE  TypeOK'
<1>1. ready[j] \in Seq(Chunks) /\ ready[j] # <<>>
  BY DEF RefuseChunk, TypeOK
<1>2. FinishIfOver(j, Tail(ready[j]), open[j], outcome')
  BY DEF RefuseChunk
<1>3. status' \in [Jobs -> {"running"} \cup Ended]
  BY <1>2, FinishIfOverType
<1>4. ready' \in [Jobs -> Seq(Chunks)] /\ outcome' \in [Chunks -> {"pending", "done", "failed"}]
  BY <1>1 DEF RefuseChunk, TypeOK
<1> QED BY <1>3, <1>4 DEF RefuseChunk, TypeOK, marks

\* `_retry_suspect`, for a suspect that runs.
LEMMA RetrySuspectType ==
  ASSUME TypeOK, RetrySuspect
  PROVE  TypeOK'
<1> DEFINE c == Head(suspects)
<1>1. suspects \in Seq(Chunks) /\ suspects # <<>>
  BY DEF RetrySuspect, TypeOK
<1>2. c \in Chunks /\ Tail(suspects) \in Seq(Chunks)
  BY <1>1
<1>3. Launch(<<c>>, Batched, TRUE)
  BY DEF RetrySuspect
<1>4. Inflight < Capacity
  BY NoneInflight DEF RetrySuspect
<1>5. <<c>> \in Seq(Chunks) /\ <<c>> # <<>> /\ Batched \in BOOLEAN
  BY <1>2, ChunksAssumption
<1> HIDE DEF c
<1>6. /\ DOMAIN flying' \subseteq Lanes
      /\ flying' \in [DOMAIN flying' -> Task]
      /\ isolating' = TRUE
      /\ free' \in Int
  BY <1>3, <1>4, <1>5, LaunchType
<1>7. suspects' = Tail(suspects)
      /\ UNCHANGED <<verdicts, ready, killing, delivering, marks, ending, how>>
  BY DEF RetrySuspect
<1> QED BY <1>2, <1>6, <1>7 DEF TypeOK, marks, verdicts

\* `_on_done`: what is left of a task goes to the line, to the end of the event, or nowhere.
LEMMA TaskDoneType ==
  ASSUME TypeOK, NEW l \in DOMAIN flying, NEW s \in Ways, TaskDone(l, s)
  PROVE  TypeOK'
<1> DEFINE t == flying[l]
           j == JobOf[t.head]
           rest == [k \in DOMAIN flying \ {l} |-> flying[k]]
<1>1. t \in Task
  BY DEF TypeOK
<1>2. /\ t.head \in Chunks /\ t.left \in Seq(Chunks)
      /\ t.alone \in BOOLEAN /\ t.doomed \in BOOLEAN /\ t.packed \in BOOLEAN
  BY <1>1 DEF Task
<1>3. j \in Jobs /\ Cost[t.head] \in Nat
  BY <1>2, ChunksAssumption
<1>4. /\ flying' = rest
      /\ isolating' = (isolating /\ ~t.alone)
      /\ killing' = (killing /\ DOMAIN flying # {l})
      /\ free' = free + Cost[t.head]
      /\ UNCHANGED <<status, suspects, backoff, delivering, outcome, attempt>>
  BY DEF TaskDone, KillingAfter, Given
<1>5. DOMAIN flying' \subseteq Lanes /\ flying' \in [DOMAIN flying' -> Task]
  BY <1>4 DEF TypeOK
<1>6. isolating' \in BOOLEAN /\ killing' \in BOOLEAN /\ free' \in Int
  BY <1>3, <1>4 DEF TypeOK
<1>7. /\ ready' \in [Jobs -> Seq(Chunks)] /\ open' \in [Jobs -> Int]
      /\ alone' \in [Chunks -> BOOLEAN] /\ doomed' \in [Chunks -> BOOLEAN]
      /\ ending' \in Seq(Chunks)
      /\ how' \in [s : Ways, head : Chunks \cup {"none"}, alone : BOOLEAN, doomed : BOOLEAN]
  <2>1. CASE UNCHANGED <<ready, open, marks, ending, how>>
    BY <2>1 DEF TypeOK, marks
  <2>2. CASE /\ ready' = [ready EXCEPT ![j] = t.left \o @]
             /\ open' = [open EXCEPT ![j] = @ - Len(t.left)]
             /\ alone' = [alone EXCEPT ![t.head] = IF Contains(t.left, t.head) THEN t.alone ELSE @]
             /\ doomed' = [doomed EXCEPT ![t.head] = IF Contains(t.left, t.head) THEN FALSE ELSE @]
             /\ UNCHANGED <<ending, how>>
    <3>1. ready[j] \in Seq(Chunks) /\ open[j] \in Int
      BY <1>3 DEF TypeOK
    <3>2. t.left \o ready[j] \in Seq(Chunks) /\ open[j] - Len(t.left) \in Int
      BY <1>2, <3>1
    <3>3. alone[t.head] \in BOOLEAN /\ doomed[t.head] \in BOOLEAN
      BY <1>2 DEF TypeOK
    <3>4. ready' \in [Jobs -> Seq(Chunks)] /\ open' \in [Jobs -> Int]
      BY <2>2, <1>3, <3>2 DEF TypeOK
    <3>5. alone' \in [Chunks -> BOOLEAN] /\ doomed' \in [Chunks -> BOOLEAN]
      BY <2>2, <1>2, <3>3 DEF TypeOK
    <3> QED BY <2>2, <3>4, <3>5 DEF TypeOK
  <2>3. CASE /\ ending' = t.left
             /\ how' = IF t.left = <<>> THEN NoEnd
                       ELSE [s |-> s, head |-> t.head, alone |-> t.alone, doomed |-> t.doomed]
             /\ alone' = [alone EXCEPT ![t.head] = IF Contains(t.left, t.head) THEN t.alone ELSE @]
             /\ doomed' = [doomed EXCEPT ![t.head] =
                             IF Contains(t.left, t.head) THEN t.doomed /\ (s = "DONE" \/ ~t.packed) ELSE @]
             /\ UNCHANGED <<ready, open>>
    <3>1. alone[t.head] \in BOOLEAN /\ doomed[t.head] \in BOOLEAN
      BY <1>2 DEF TypeOK
    <3>2. alone' \in [Chunks -> BOOLEAN] /\ doomed' \in [Chunks -> BOOLEAN]
      BY <2>3, <1>2, <3>1 DEF TypeOK
    <3>3. how' \in [s : Ways, head : Chunks \cup {"none"}, alone : BOOLEAN, doomed : BOOLEAN]
      BY <2>3, <1>2 DEF NoEnd, Ways
    <3> QED BY <2>3, <1>2, <3>2, <3>3 DEF TypeOK
  <2> QED BY <2>1, <2>2, <2>3 DEF TaskDone
<1> HIDE DEF t, j, rest
<1> QED BY <1>4, <1>5, <1>6, <1>7 DEF TypeOK

\* The rest of `_on_done`, a chunk at a time.
LEMMA ChunkEndsType ==
  ASSUME TypeOK, ChunkEnds
  PROVE  TypeOK'
<1> DEFINE c == Head(ending)
<1>1. ending \in Seq(Chunks) /\ ending # <<>>
  BY DEF ChunkEnds, TypeOK
<1>2. c \in Chunks /\ Tail(ending) \in Seq(Chunks)
  BY <1>1
<1>3. PICK s : ChunkEnded(c, s, alone[c], doomed[c])
  BY DEF ChunkEnds
<1> HIDE DEF c
<1>4. VerdictsType' /\ delivering' \subseteq Chunks /\ suspects' \in Seq(Chunks)
  BY <1>2, <1>3, ChunkEndedType
<1>5. ending' \in Seq(Chunks)
  BY <1>2 DEF ChunkEnds
<1>6. how' \in [s : Ways, head : Chunks \cup {"none"}, alone : BOOLEAN, doomed : BOOLEAN]
  <2>1. NoEnd \in [s : Ways, head : Chunks \cup {"none"}, alone : BOOLEAN, doomed : BOOLEAN]
    BY DEF NoEnd, Ways
  <2> QED BY <2>1 DEF ChunkEnds, TypeOK
<1>7. UNCHANGED <<ready, flying, isolating, killing, free, marks>>
  BY DEF ChunkEnds
<1> QED BY <1>4, <1>5, <1>6, <1>7 DEF TypeOK, VerdictsType, marks

\* A task without one of its chunks is a task like the others.
LEMMA TaskWithout ==
  ASSUME NEW t \in Task, NEW i \in DOMAIN t.left
  PROVE  /\ [t EXCEPT !.left = RemoveAt(t.left, i)] \in Task
         /\ [t EXCEPT !.left = RemoveAt(t.left, i)].alone = t.alone
<1>1. t.left \in Seq(Chunks)
  BY DEF Task
<1>2. i \in 1 .. Len(t.left)
  BY <1>1
<1>3. SubSeq(t.left, 1, i - 1) \in Seq(Chunks)
  BY <1>1, <1>2
<1>4. SubSeq(t.left, i + 1, Len(t.left)) \in Seq(Chunks)
  BY <1>1, <1>2
<1>5. RemoveAt(t.left, i) \in Seq(Chunks)
  BY <1>3, <1>4 DEF RemoveAt
<1> QED BY <1>5 DEF Task

\* `_on_part`: the task stays, without the chunk that ended.
LEMMA PartDoneFlying ==
  ASSUME TypeOK, NEW l \in DOMAIN flying, NEW i \in DOMAIN flying[l].left, NEW s,
         PartDone(l, i, s)
  PROVE  /\ DOMAIN flying' = DOMAIN flying
         /\ flying' \in [DOMAIN flying' -> Task]
         /\ \A k \in DOMAIN flying : flying'[k].alone = flying[k].alone
<1> DEFINE u == [flying[l] EXCEPT !.left = RemoveAt(flying[l].left, i)]
<1>1. flying' = [flying EXCEPT ![l] = u]
  BY DEF PartDone, LeftWithout
<1>2. u \in Task /\ u.alone = flying[l].alone
  BY TaskWithout DEF TypeOK
<1> HIDE DEF u
<1> QED BY <1>1, <1>2 DEF TypeOK

LEMMA PartDoneType ==
  ASSUME TypeOK, NEW l \in DOMAIN flying, NEW i \in DOMAIN flying[l].left,
         NEW s, PartDone(l, i, s)
  PROVE  TypeOK'
<1> DEFINE c == flying[l].left[i]
<1>1. flying[l].left \in Seq(Chunks)
  BY DEF TypeOK, Task
<1>2. c \in Chunks
  BY <1>1
<1>3. PICK wasAlone, wasDoomed : ChunkEnded(c, s, wasAlone, wasDoomed)
  BY DEF PartDone
<1>4. /\ alone' = [alone EXCEPT ![c] = @ /\ c # flying[l].head]
      /\ doomed' = [doomed EXCEPT ![c] = @ /\ c # flying[l].head]
  BY DEF PartDone
<1> HIDE DEF c
<1>5. VerdictsType' /\ delivering' \subseteq Chunks /\ suspects' \in Seq(Chunks)
  BY <1>2, <1>3, ChunkEndedType
<1>6. alone' \in [Chunks -> BOOLEAN] /\ doomed' \in [Chunks -> BOOLEAN]
  BY <1>2, <1>4 DEF TypeOK
<1>7. DOMAIN flying' \subseteq Lanes /\ flying' \in [DOMAIN flying' -> Task]
  BY PartDoneFlying DEF TypeOK
<1>8. UNCHANGED <<ready, isolating, killing, free, ending, how>>
  BY DEF PartDone
<1> QED BY <1>5, <1>6, <1>7, <1>8 DEF TypeOK, VerdictsType

\* `_requeue`
LEMMA RequeueType ==
  ASSUME TypeOK, NEW c \in Chunks, Requeue(c)
  PROVE  TypeOK'
<1> DEFINE j == JobOf[c]
<1>1. j \in Jobs
  BY ChunksAssumption
<1>2. ready[j] \in Seq(Chunks) /\ open[j] \in Int
  BY <1>1 DEF TypeOK
<1>3. <<c>> \o ready[j] \in Seq(Chunks)
  BY <1>2
<1>4. ready' \in [Jobs -> Seq(Chunks)] /\ open' \in [Jobs -> Int]
  <2>1. CASE /\ ready' = [ready EXCEPT ![j] = <<c>> \o @]
             /\ open' = [open EXCEPT ![j] = @ - 1]
    <3>1. ready' = [ready EXCEPT ![j] = <<c>> \o ready[j]]
      BY <2>1
    <3>2. open' = [open EXCEPT ![j] = open[j] - 1] /\ open[j] - 1 \in Int
      BY <2>1, <1>2
    <3> HIDE DEF j
    <3>3. ready' \in [Jobs -> Seq(Chunks)]
      BY <3>1, <1>3 DEF TypeOK
    <3>4. open' \in [Jobs -> Int]
      BY <3>2 DEF TypeOK
    <3> QED BY <3>3, <3>4
  <2>2. CASE UNCHANGED <<ready, open>>
    BY <2>2 DEF TypeOK
  <2> QED BY <2>1, <2>2 DEF Requeue
<1>5. backoff' \subseteq Chunks
  BY DEF TypeOK, Requeue
<1> HIDE DEF j
<1> QED BY <1>4, <1>5 DEF TypeOK, Requeue, marks

\* `_on_delivered`
LEMMA DeliveredType ==
  ASSUME TypeOK, NEW c \in Chunks, NEW what \in {"done", "failed"}, Delivered(c, what)
  PROVE  TypeOK'
<1>1. /\ status' \in [Jobs -> {"running"} \cup Ended]
      /\ open' \in [Jobs -> Int]
      /\ outcome' \in [Chunks -> {"pending", "done", "failed"}]
  <2>1. CASE Settle(c, what)
    BY <2>1, SettleType
  <2>2. CASE /\ outcome' = IF what = "done" THEN [outcome EXCEPT ![c] = what] ELSE outcome
             /\ UNCHANGED <<status, open>>
    BY <2>2 DEF TypeOK
  <2> QED BY <2>1, <2>2 DEF Delivered
<1>2. delivering' \subseteq Chunks
  BY DEF TypeOK, Delivered
<1> QED BY <1>1, <1>2 DEF TypeOK, Delivered, marks

\* `_on_stop_job`
LEMMA CancelType ==
  ASSUME TypeOK, NEW j \in Jobs, Cancel(j)
  PROVE  TypeOK'
<1>1. status' \in [Jobs -> {"running"} \cup Ended] /\ ready' \in [Jobs -> Seq(Chunks)]
  BY DEF Cancel, TypeOK, Ended
<1>2. DOMAIN flying' \subseteq Lanes /\ flying' \in [DOMAIN flying' -> Task] /\ killing' \in BOOLEAN
  <2>1. CASE UNCHANGED <<flying, killing>>
    BY <2>1 DEF TypeOK
  <2>2. CASE Kill({}, {k \in Jobs : status'[k] = "running"})
    BY <2>2, KillType DEF TypeOK
  <2> QED BY <2>1, <2>2 DEF Cancel
<1>3. UNCHANGED <<open, suspects, isolating, free, backoff, delivering, outcome, attempt, marks,
                  ending, how>>
  BY DEF Cancel
<1> QED BY <1>1, <1>2, <1>3 DEF TypeOK, marks

\* `_watch`
LEMMA TimeOutType ==
  ASSUME TypeOK, NEW j \in Jobs, NEW late, TimeOut(j, late)
  PROVE  TypeOK'
<1>1. DOMAIN flying' = DOMAIN flying /\ flying' \in [DOMAIN flying' -> Task] /\ killing' = TRUE
  BY KillType DEF TimeOut
<1>2. UNCHANGED <<verdicts, ready, suspects, isolating, free, delivering, marks, ending, how>>
  BY DEF TimeOut
<1> QED BY <1>1, <1>2 DEF TypeOK, marks, verdicts

\* The state of the chunks keeps its type, whatever comes back from the executor, the callback
\* and the timers: in particular no chunk ever gets more attempts than its job gives it.
THEOREM TypeCorrect == Spec => []TypeOK
<1>1. Init => TypeOK
  <2> SUFFICES ASSUME Init PROVE TypeOK
    OBVIOUS
  <2>1. flying \in [DOMAIN flying -> Task] /\ DOMAIN flying = {}
    BY DEF Init
  <2>2. ready \in [Jobs -> Seq(Chunks)]
    BY ChunksAssumption DEF Init
  <2>3. \A c \in Chunks : Retries[JobOf[c]] \in Nat
    BY ChunksAssumption
  <2>4. attempt \in [Chunks -> Nat \ {0}] /\ \A c \in Chunks : attempt[c] <= Retries[JobOf[c]] + 1
    BY <2>3 DEF Init
  <2>5. how \in [s : Ways, head : Chunks \cup {"none"}, alone : BOOLEAN, doomed : BOOLEAN]
    BY DEF Init, NoEnd, Ways
  <2>6. status \in [Jobs -> {"running"} \cup Ended] /\ open \in [Jobs -> Int]
    BY DEF Init
  <2>7. suspects \in Seq(Chunks) /\ ending \in Seq(Chunks)
    BY DEF Init
  <2>8. free \in Int
    BY ChunksAssumption DEF Init
  <2>9. /\ outcome \in [Chunks -> {"pending", "done", "failed"}]
        /\ alone \in [Chunks -> BOOLEAN] /\ doomed \in [Chunks -> BOOLEAN]
        /\ backoff \subseteq Chunks /\ delivering \subseteq Chunks
        /\ isolating \in BOOLEAN /\ killing \in BOOLEAN
    BY DEF Init
  <2> QED BY <2>1, <2>2, <2>4, <2>5, <2>6, <2>7, <2>8, <2>9 DEF TypeOK
<1>2. TypeOK /\ [Next]_vars => TypeOK'
  <2> SUFFICES ASSUME TypeOK, [Next]_vars PROVE TypeOK'
    OBVIOUS
  <2>1. ASSUME NEW j \in Jobs, StartTask(j) PROVE TypeOK'
    BY <2>1, StartTaskType
  <2>2. ASSUME NEW j \in Jobs, RefuseChunk(j) PROVE TypeOK'
    BY <2>2, RefuseChunkType
  <2>3. ASSUME NEW j \in Jobs, Cancel(j) PROVE TypeOK'
    BY <2>3, CancelType
  <2>4. CASE RetrySuspect
    BY <2>4, RetrySuspectType
  <2>5. CASE DropSuspect
    <3>1. Tail(suspects) \in Seq(Chunks)
      BY <2>5 DEF TypeOK, DropSuspect
    <3> QED BY <2>5, <3>1 DEF TypeOK, DropSuspect, verdicts, marks
  <2>6. CASE ChunkEnds
    BY <2>6, ChunkEndsType
  <2>7. ASSUME NEW l \in DOMAIN flying, NEW s \in Ways, TaskDone(l, s) PROVE TypeOK'
    BY <2>7, TaskDoneType
  <2>8. ASSUME NEW l \in DOMAIN flying, NEW i \in DOMAIN flying[l].left,
               NEW s \in {"DONE", "ERROR"}, PartDone(l, i, s)
        PROVE  TypeOK'
    BY <2>8, PartDoneType
  <2>9. ASSUME NEW c \in Chunks, Requeue(c) PROVE TypeOK'
    BY <2>9, RequeueType
  <2>10. ASSUME NEW c \in Chunks, NEW what \in {"done", "failed"}, Delivered(c, what) PROVE TypeOK'
    BY <2>10, DeliveredType
  <2>11. ASSUME NEW j \in Jobs, NEW late \in SUBSET DOMAIN flying, TimeOut(j, late) PROVE TypeOK'
    BY <2>11, TimeOutType
  <2>12. CASE UNCHANGED vars
    BY <2>12 DEF TypeOK, vars, marks
  <2> QED BY <2>1, <2>2, <2>3, <2>4, <2>5, <2>6, <2>7, <2>8, <2>9, <2>10, <2>11, <2>12 DEF Next
<1> QED BY <1>1, <1>2, PTL DEF Spec

-----------------------------------------------------------------------------
(* Isolation of suspects, and the end of a kill *)

\* What `Isolation` rests on: a task that runs alone is the only one, the bar
\* for it stands exactly while there is one, and an executor that stops what it runs runs
\* something.
Bars ==
  /\ \A l \in DOMAIN flying : flying[l].alone => isolating /\ DOMAIN flying = {l}
  /\ isolating => \E l \in DOMAIN flying : flying[l].alone
  /\ killing => DOMAIN flying # {}

\* A task starts only where nothing runs alone and nothing is being stopped.
LEMMA StartTaskBars ==
  ASSUME TypeOK, Bars, NEW j \in Jobs, StartTask(j)
  PROVE  Bars'
<1>1. PICK n \in 1 .. Batch :
        Packs(j, n) /\ Launch(SubSeq(ready[j], 1, n), n > 1 \/ Batched, FALSE)
  BY DEF StartTask
<1>2. n \in Nat /\ n > 0
  BY ChunksAssumption
<1>3. n <= Len(ready[j]) /\ ready[j] \in Seq(Chunks)
  BY <1>1 DEF Packs, TypeOK
<1>4. SubSeq(ready[j], 1, n) \in Seq(Chunks) /\ SubSeq(ready[j], 1, n) # <<>>
  BY <1>2, <1>3
<1>5. Inflight < Capacity /\ ~isolating /\ ~killing
  BY DEF StartTask, SlotOpen
<1>6. (n > 1 \/ Batched) \in BOOLEAN
  BY ChunksAssumption
<1>7. /\ DOMAIN flying' = DOMAIN flying \cup {NextLane}
      /\ ~flying'[NextLane].alone
      /\ \A l \in DOMAIN flying : flying'[l] = flying[l]
      /\ isolating' = FALSE
  BY <1>1, <1>4, <1>5, <1>6, LaunchType
<1>8. UNCHANGED killing
  BY DEF StartTask
<1> QED BY <1>5, <1>7, <1>8 DEF Bars

\* A suspect starts only where nothing runs.
LEMMA RetrySuspectBars ==
  ASSUME TypeOK, Bars, RetrySuspect
  PROVE  Bars'
<1> DEFINE c == Head(suspects)
<1>1. suspects \in Seq(Chunks) /\ suspects # <<>>
  BY DEF RetrySuspect, TypeOK
<1>2. <<c>> \in Seq(Chunks) /\ <<c>> # <<>> /\ Batched \in BOOLEAN
  BY <1>1, ChunksAssumption
<1>3. Launch(<<c>>, Batched, TRUE) /\ DOMAIN flying = {} /\ UNCHANGED killing
  BY DEF RetrySuspect
<1>4. Inflight < Capacity
  BY <1>3, NoneInflight
<1> HIDE DEF c
<1>5. /\ DOMAIN flying' = DOMAIN flying \cup {NextLane}
      /\ flying'[NextLane].alone = TRUE
      /\ isolating' = TRUE
  BY <1>2, <1>3, <1>4, LaunchType
<1> QED BY <1>3, <1>5 DEF Bars

\* A task that comes back takes its own bar with it, and the last one that of a kill.
LEMMA TaskDoneBars ==
  ASSUME TypeOK, Bars, NEW l \in DOMAIN flying, NEW s \in Ways, TaskDone(l, s)
  PROVE  Bars'
<1>1. /\ flying' = [k \in DOMAIN flying \ {l} |-> flying[k]]
      /\ isolating' = (isolating /\ ~flying[l].alone)
      /\ killing' = (killing /\ DOMAIN flying # {l})
  BY DEF TaskDone, KillingAfter
<1>2. DOMAIN flying' = DOMAIN flying \ {l} /\ \A k \in DOMAIN flying' : flying'[k] = flying[k]
  BY <1>1
<1>3. CASE flying[l].alone
  <2>1. DOMAIN flying' = {}
    BY <1>2, <1>3 DEF Bars
  <2>2. ~isolating'
    BY <1>1, <1>3
  <2>3. ~killing'
    BY <1>1, <1>3 DEF Bars
  <2> QED BY <2>1, <2>2, <2>3 DEF Bars
<1>4. CASE ~flying[l].alone
  <2>1. ~isolating
    BY <1>4 DEF Bars
  <2>2. \A k \in DOMAIN flying' : ~flying'[k].alone
    BY <1>2, <2>1 DEF Bars
  <2>3. killing' => DOMAIN flying' # {}
    BY <1>1, <1>2
  <2> QED BY <1>1, <2>1, <2>2, <2>3 DEF Bars
<1> QED BY <1>3, <1>4

\* A kill changes neither which tasks there are nor which of them runs alone.
LEMMA KillBars ==
  ASSUME TypeOK, Bars, NEW late, NEW running, Kill(late, running),
         UNCHANGED isolating, DOMAIN flying # {}
  PROVE  Bars'
BY KillType DEF Bars

\* Nothing runs beside a suspect, the bar that keeps others out stands exactly as long as it
\* runs, and an executor that is being stopped has a task still to come back.
THEOREM BarsHold == Spec => []Bars
<1>1. Init => Bars
  BY DEF Init, Bars
<1>2. TypeOK /\ Bars /\ [Next]_vars => Bars'
  <2> SUFFICES ASSUME TypeOK, Bars, [Next]_vars PROVE Bars'
    OBVIOUS
  <2>1. CASE UNCHANGED <<flying, isolating, killing>>
    BY <2>1 DEF Bars
  <2>2. ASSUME NEW j \in Jobs, StartTask(j) PROVE Bars'
    BY <2>2, StartTaskBars
  <2>3. CASE RetrySuspect
    BY <2>3, RetrySuspectBars
  <2>4. ASSUME NEW l \in DOMAIN flying, NEW s \in Ways, TaskDone(l, s) PROVE Bars'
    BY <2>4, TaskDoneBars
  <2>5. ASSUME NEW l \in DOMAIN flying, NEW i \in DOMAIN flying[l].left,
               NEW s \in {"DONE", "ERROR"}, PartDone(l, i, s)
        PROVE  Bars'
    <3>1. UNCHANGED <<isolating, killing>>
      BY <2>5 DEF PartDone
    <3>2. DOMAIN flying' = DOMAIN flying
          /\ \A k \in DOMAIN flying : flying'[k].alone = flying[k].alone
      BY <2>5, PartDoneFlying
    <3> QED BY <3>1, <3>2 DEF Bars
  <2>6. ASSUME NEW j \in Jobs, Cancel(j) PROVE Bars'
    <3>1. UNCHANGED isolating
      BY <2>6 DEF Cancel
    <3>2. CASE UNCHANGED <<flying, killing>>
      BY <3>1, <3>2 DEF Bars
    <3>3. CASE TasksOf(j) # {} /\ Kill({}, {k \in Jobs : status'[k] = "running"})
      BY <3>1, <3>3, KillBars DEF TasksOf
    <3> QED BY <2>6, <3>2, <3>3 DEF Cancel
  <2>7. ASSUME NEW j \in Jobs, NEW late \in SUBSET DOMAIN flying, TimeOut(j, late) PROVE Bars'
    <3>1. DOMAIN flying # {} /\ UNCHANGED isolating
      BY <2>7 DEF TimeOut
    <3> QED BY <2>7, <3>1, KillBars DEF TimeOut
  <2> QED BY <2>1, <2>2, <2>3, <2>4, <2>5, <2>6, <2>7
          DEF Next, vars, RefuseChunk, DropSuspect, ChunkEnds, Requeue, Delivered
<1> QED BY <1>1, <1>2, TypeCorrect, PTL DEF Spec

\* While a suspect runs nothing else does, so that the next death tells who died, and an executor told
\* to stop what it runs is barred only while something is still to come back.
THEOREM SuspectsRunAlone == Spec => []Isolation
<1>1. Bars => Isolation
  <2> SUFFICES ASSUME Bars PROVE Isolation
    OBVIOUS
  <2>1. isolating <=> \E l \in DOMAIN flying : flying[l].alone
    BY DEF Bars
  <2>2. isolating => \E l \in DOMAIN flying : DOMAIN flying = {l}
    BY DEF Bars
  <2>3. isolating => Cardinality(DOMAIN flying) = 1
    BY <2>2, FS_Singleton
  <2>4. killing => DOMAIN flying # {}
    BY DEF Bars
  <2> QED BY <2>1, <2>3, <2>4 DEF Isolation, Inflight
<1> QED BY <1>1, BarsHold, PTL
-----------------------------------------------------------------------------
(* The CPUs that tasks hold *)

\* The CPUs of the tasks at these places.
Held(tasks, S) == MapThenSumSet(LAMBDA l : Cost[tasks[l].head], S)

\* What a task at a place holds, and which place a sum takes first.
CpuOf(tasks, l) == Cost[tasks[l].head]
First(S) == CHOOSE l \in S : TRUE

\* The sums over all the parts of a set of places, as a fold makes them.
Sums(tasks, S, s) == s = [T \in SUBSET S |-> IF T = {} THEN 0 ELSE CpuOf(tasks, First(T)) + s[T \ {First(T)}]]

\* A sum is what the fold comes to.
LEMMA HeldIs ==
  ASSUME NEW tasks, NEW S
  PROVE  Held(tasks, S) = (CHOOSE s : Sums(tasks, S, s))[S]
BY Zenon DEF Held, MapThenSumSet, MapThenFoldSet, Sums, CpuOf, First

\* Of some parts of a finite set, one has no other within it.
LEMMA Smallest ==
  ASSUME NEW S, IsFiniteSet(S), NEW Parts \in SUBSET SUBSET S, Parts # {}
  PROVE  \E T \in Parts : \A U \in Parts : U \subseteq T => U = T
<1>1. Parts \subseteq FiniteSubsetsOf(S)
  BY FS_Subset DEF FiniteSubsetsOf
<1>2. PICK T \in Parts : \A U \in Parts : ~(<<U, T>> \in StrictSubsetOrdering(S))
  BY <1>1, FS_StrictSubsetOrderingWellFounded, WFMin
<1>3. ASSUME NEW U \in Parts, U \subseteq T, U # T PROVE FALSE
  BY <1>2, <1>3 DEF StrictSubsetOrdering
<1> QED BY <1>3

\* Two folds agree where the tasks do.
LEMMA SumsAgree ==
  ASSUME NEW one, NEW other, NEW S, NEW T, NEW U, IsFiniteSet(U), U \subseteq S, U \subseteq T,
         NEW s, Sums(one, S, s), NEW t, Sums(other, T, t),
         \A l \in U : CpuOf(one, l) = CpuOf(other, l)
  PROVE  s[U] = t[U]
<1> DEFINE Parts == {P \in SUBSET U : s[P] # t[P]}
<1>1. SUFFICES ASSUME Parts # {} PROVE FALSE
  OBVIOUS
<1>0. Parts \in SUBSET SUBSET U
  OBVIOUS
<1> HIDE DEF Parts
<1>2. PICK P \in Parts : \A Q \in Parts : Q \subseteq P => Q = P
  BY <1>1, <1>0, Smallest
<1>3. P \in SUBSET U /\ s[P] # t[P]
  BY DEF Parts
<1>4. s[P] = IF P = {} THEN 0 ELSE CpuOf(one, First(P)) + s[P \ {First(P)}]
  BY <1>3 DEF Sums
<1>5. t[P] = IF P = {} THEN 0 ELSE CpuOf(other, First(P)) + t[P \ {First(P)}]
  BY <1>3 DEF Sums
<1>6. P # {}
  BY <1>3, <1>4, <1>5
<1>7. First(P) \in P
  BY <1>6 DEF First
<1>8. s[P \ {First(P)}] = t[P \ {First(P)}]
  BY <1>2, <1>3, <1>7 DEF Parts
<1> QED BY <1>3, <1>4, <1>5, <1>6, <1>7, <1>8

\* A fold adds up the parts of any finite set.
LEMMA SumsExist ==
  ASSUME NEW tasks, NEW S, IsFiniteSet(S)
  PROVE  \E s : Sums(tasks, S, s)
<1> DEFINE Parts == {T \in SUBSET S : ~ \E s : Sums(tasks, T, s)}
<1>1. SUFFICES ASSUME Parts # {} PROVE FALSE
  OBVIOUS
<1>0. Parts \in SUBSET SUBSET S
  OBVIOUS
<1> HIDE DEF Parts
<1>2. PICK T \in Parts : \A U \in Parts : U \subseteq T => U = T
  BY <1>1, <1>0, Smallest
<1>3. T \in SUBSET S /\ ~ \E s : Sums(tasks, T, s)
  BY DEF Parts
<1>4. \A U \in SUBSET T : U # T => \E s : Sums(tasks, U, s)
  BY <1>2, <1>3 DEF Parts
<1> DEFINE Sum(U) == (CHOOSE s : Sums(tasks, U, s))[U]
<1>5. ASSUME NEW U \in SUBSET T, U # T
      PROVE  Sum(U) = IF U = {} THEN 0 ELSE CpuOf(tasks, First(U)) + Sum(U \ {First(U)})
  <2>1. PICK s : s = CHOOSE x : Sums(tasks, U, x)
    OBVIOUS
  <2>2. Sums(tasks, U, s)
    BY <1>4, <1>5, <2>1
  <2>3. s[U] = IF U = {} THEN 0 ELSE CpuOf(tasks, First(U)) + s[U \ {First(U)}]
    BY <2>2 DEF Sums
  <2>4. ASSUME U # {} PROVE s[U \ {First(U)}] = Sum(U \ {First(U)})
    <3> DEFINE V == U \ {First(U)}
    <3>1. V \in SUBSET T /\ V # T /\ V \subseteq U /\ IsFiniteSet(V)
      BY <1>3, <1>5, FS_Subset
    <3>2. PICK v : v = CHOOSE x : Sums(tasks, V, x)
      OBVIOUS
    <3>3. Sums(tasks, V, v)
      BY <1>4, <3>1, <3>2
    <3>4. s[V] = v[V]
      BY <2>2, <3>1, <3>3, SumsAgree
    <3> QED BY <3>2, <3>4
  <2> QED BY <2>1, <2>3, <2>4
<1> DEFINE s == [U \in SUBSET T |-> IF U = {} THEN 0 ELSE CpuOf(tasks, First(U)) + Sum(U \ {First(U)})]
<1> HIDE DEF Sum
<1>6. ASSUME NEW U \in SUBSET T, U # {} PROVE s[U \ {First(U)}] = Sum(U \ {First(U)})
  <2>1. First(U) \in U
    BY <1>6 DEF First
  <2>2. U \ {First(U)} \in SUBSET T /\ U \ {First(U)} # T
    BY <2>1
  <2> QED BY <1>5, <2>2
<1>7. Sums(tasks, T, s)
  <2>1. \A U \in SUBSET T : s[U] = IF U = {} THEN 0 ELSE CpuOf(tasks, First(U)) + s[U \ {First(U)}]
    BY <1>6
  <2> QED BY <2>1 DEF Sums
<1> QED BY <1>3, <1>7

\* What tasks at finitely many places hold: nothing at none; and one more holds what it costs.
LEMMA HeldAdds ==
  ASSUME NEW tasks, NEW S, IsFiniteSet(S), \A l \in S : CpuOf(tasks, l) \in Nat
  PROVE  /\ Held(tasks, S) \in Nat
         /\ S = {} => Held(tasks, S) = 0
         /\ \A l \in S : Held(tasks, S) = CpuOf(tasks, l) + Held(tasks, S \ {l})
<1>1. PICK s : s = CHOOSE x : Sums(tasks, S, x)
  OBVIOUS
<1>2. Sums(tasks, S, s)
  BY <1>1, SumsExist
<1>3. \A T \in SUBSET S : s[T] = IF T = {} THEN 0 ELSE CpuOf(tasks, First(T)) + s[T \ {First(T)}]
  BY <1>2 DEF Sums
<1>4. \A T \in SUBSET S : Held(tasks, T) = s[T]
  <2> SUFFICES ASSUME NEW T \in SUBSET S PROVE Held(tasks, T) = s[T]
    OBVIOUS
  <2>1. IsFiniteSet(T)
    BY FS_Subset
  <2>2. PICK t : t = CHOOSE x : Sums(tasks, T, x)
    OBVIOUS
  <2>3. Sums(tasks, T, t)
    BY <2>1, <2>2, SumsExist
  <2>4. PICK U : U = T
    OBVIOUS
  <2>5. PICK other : other = tasks
    OBVIOUS
  <2>6. U \subseteq S /\ U \subseteq T /\ IsFiniteSet(U) /\ Sums(other, T, t)
    BY <2>1, <2>3, <2>4, <2>5
  <2>7. \A l \in U : CpuOf(tasks, l) = CpuOf(other, l)
    BY <2>5
  <2>8. s[U] = t[U]
    BY <1>2, <2>6, <2>7, SumsAgree
  <2> QED BY <2>2, <2>4, <2>8, HeldIs
<1>5. \A T \in SUBSET S : s[T] \in Nat
  <2> DEFINE Parts == {T \in SUBSET S : s[T] \notin Nat}
  <2>1. SUFFICES ASSUME Parts # {} PROVE FALSE
    OBVIOUS
  <2>0. Parts \in SUBSET SUBSET S
    OBVIOUS
  <2> HIDE DEF Parts
  <2>2. PICK T \in Parts : \A U \in Parts : U \subseteq T => U = T
    BY <2>1, <2>0, Smallest
  <2>3. T \in SUBSET S /\ s[T] \notin Nat
    BY DEF Parts
  <2>4. T # {}
    BY <1>3, <2>3
  <2>5. First(T) \in T
    BY <2>4 DEF First
  <2>6. s[T \ {First(T)}] \in Nat
    BY <2>2, <2>3, <2>5 DEF Parts
  <2>7. CpuOf(tasks, First(T)) \in Nat
    BY <2>3, <2>5
  <2> QED BY <1>3, <2>3, <2>4, <2>6, <2>7
<1>6. \A T \in SUBSET S : \A l \in T : s[T] = CpuOf(tasks, l) + s[T \ {l}]
  <2> DEFINE Parts == {T \in SUBSET S : \E l \in T : s[T] # CpuOf(tasks, l) + s[T \ {l}]}
  <2>1. SUFFICES ASSUME Parts # {} PROVE FALSE
    OBVIOUS
  <2>0. Parts \in SUBSET SUBSET S
    OBVIOUS
  <2> HIDE DEF Parts
  <2>2. PICK T \in Parts : \A U \in Parts : U \subseteq T => U = T
    BY <2>1, <2>0, Smallest
  <2>3. PICK l \in T : s[T] # CpuOf(tasks, l) + s[T \ {l}]
    BY DEF Parts
  <2>4. T \in SUBSET S
    BY <2>0
  <2> DEFINE k == First(T)
  <2>5. k \in T
    BY <2>3 DEF First
  <2>6. s[T] = CpuOf(tasks, k) + s[T \ {k}]
    BY <1>3, <2>3, <2>4
  <2>7. k # l
    BY <2>3, <2>6
  <2> HIDE DEF k
  <2>8. s[T \ {k}] = CpuOf(tasks, l) + s[(T \ {k}) \ {l}]
    <3>1. T \ {k} \in SUBSET S /\ T \ {k} # T /\ l \in T \ {k}
      BY <2>3, <2>4, <2>5, <2>7
    <3> QED BY <2>2, <3>1 DEF Parts
  <2>9. s[T \ {l}] = CpuOf(tasks, k) + s[(T \ {l}) \ {k}]
    <3>1. T \ {l} \in SUBSET S /\ T \ {l} # T /\ k \in T \ {l}
      BY <2>3, <2>4, <2>5, <2>7
    <3> QED BY <2>2, <3>1 DEF Parts
  <2>10. (T \ {l}) \ {k} = (T \ {k}) \ {l} /\ (T \ {k}) \ {l} \in SUBSET S
    BY <2>4
  <2>11. CpuOf(tasks, k) \in Nat /\ CpuOf(tasks, l) \in Nat
    BY <2>3, <2>4, <2>5
  <2>12. PICK a \in Nat, b \in Nat, n \in Nat : a = CpuOf(tasks, k) /\ b = CpuOf(tasks, l) /\ n = s[(T \ {k}) \ {l}]
    BY <1>5, <2>10, <2>11
  <2>13. s[T] = a + (b + n) /\ s[T \ {l}] = a + n
    BY <2>6, <2>8, <2>9, <2>10, <2>12
  <2> QED BY <2>3, <2>12, <2>13
<1>7. S \in SUBSET S /\ \A l \in S : S \ {l} \in SUBSET S
  OBVIOUS
<1>8. Held(tasks, S) = s[S] /\ \A l \in S : Held(tasks, S \ {l}) = s[S \ {l}]
  BY <1>4, <1>7
<1> QED BY <1>3, <1>5, <1>6, <1>7, <1>8

\* Tasks that cost the same hold the same.
LEMMA HeldAgrees ==
  ASSUME NEW one, NEW other, NEW S, IsFiniteSet(S), \A l \in S : CpuOf(one, l) = CpuOf(other, l)
  PROVE  Held(one, S) = Held(other, S)
<1>1. PICK s : s = CHOOSE x : Sums(one, S, x)
  OBVIOUS
<1>2. PICK t : t = CHOOSE x : Sums(other, S, x)
  OBVIOUS
<1>3. Sums(one, S, s) /\ Sums(other, S, t)
  BY <1>1, <1>2, SumsExist
<1>4. s[S] = t[S]
  BY <1>3, SumsAgree
<1> QED BY <1>1, <1>2, <1>4, HeldIs

\* The CPUs of a job, and those of all tasks, are such sums, now and after a step.
LEMMA UsedIsHeld ==
  ASSUME NEW j
  PROVE  /\ CpuUsed(j) = Held(flying, TasksOf(j))
         /\ CpuUsed(j)' = Held(flying', TasksOf(j)')
         /\ MapThenSumSet(LAMBDA l : Cost[flying[l].head], DOMAIN flying) = Held(flying, DOMAIN flying)
         /\ MapThenSumSet(LAMBDA l : Cost[flying[l].head], DOMAIN flying)' = Held(flying', DOMAIN flying')
BY Zenon DEF CpuUsed, Held, TasksOf, MapThenSumSet, MapThenFoldSet

\* Tasks that cost nothing hold nothing, and what holds nothing costs nothing.
LEMMA NothingHeld ==
  ASSUME NEW tasks, NEW S, IsFiniteSet(S), \A l \in S : CpuOf(tasks, l) \in Nat
  PROVE  Held(tasks, S) = 0 <=> \A l \in S : CpuOf(tasks, l) = 0
<1>1. ASSUME Held(tasks, S) = 0, NEW l \in S PROVE CpuOf(tasks, l) = 0
  <2>1. IsFiniteSet(S \ {l})
    BY FS_Subset
  <2>2. Held(tasks, S \ {l}) \in Nat
    BY <2>1, HeldAdds
  <2>3. Held(tasks, S) = CpuOf(tasks, l) + Held(tasks, S \ {l})
    BY HeldAdds
  <2>4. CpuOf(tasks, l) \in Nat
    OBVIOUS
  <2> QED BY ONLY <1>1, <2>2, <2>3, <2>4
<1>2. ASSUME \A l \in S : CpuOf(tasks, l) = 0 PROVE Held(tasks, S) = 0
  <2> DEFINE Parts == {T \in SUBSET S : Held(tasks, T) # 0}
  <2>1. SUFFICES ASSUME Parts # {} PROVE FALSE
    <3>1. S \in SUBSET S
      OBVIOUS
    <3> QED BY <3>1
  <2>0. Parts \in SUBSET SUBSET S
    OBVIOUS
  <2> HIDE DEF Parts
  <2>2. PICK T \in Parts : \A U \in Parts : U \subseteq T => U = T
    BY <2>1, <2>0, Smallest
  <2>3. T \in SUBSET S /\ Held(tasks, T) # 0
    BY DEF Parts
  <2>4. IsFiniteSet(T) /\ \A l \in T : CpuOf(tasks, l) \in Nat
    BY <2>3, FS_Subset
  <2>5. T # {}
    BY <2>3, <2>4, HeldAdds
  <2>6. PICK l \in T : TRUE
    BY <2>5
  <2>7. Held(tasks, T) = CpuOf(tasks, l) + Held(tasks, T \ {l}) /\ CpuOf(tasks, l) = 0
    BY <1>2, <2>3, <2>4, HeldAdds
  <2>8. Held(tasks, T \ {l}) = 0
    BY <2>2, <2>3, <2>6 DEF Parts
  <2> QED BY <2>3, <2>7, <2>8
<1> QED BY <1>1, <1>2

-----------------------------------------------------------------------------
(* The CPU tokens *)

Tokens == TokensBalance /\ CapKept

\* What the accounts of the tokens say of any tasks.
Sane(tasks) == DOMAIN tasks \subseteq Lanes /\ \A l \in DOMAIN tasks : tasks[l].head \in Chunks
OfJob(tasks, j) == {l \in DOMAIN tasks : JobOf[tasks[l].head] = j}
Balanced(tasks, n) == n >= 0 /\ n + Held(tasks, DOMAIN tasks) = Cpus
Capped(tasks) ==
  \A j \in Jobs : Held(tasks, OfJob(tasks, j)) > MaxCpu[j] =>
    Cardinality({l \in OfJob(tasks, j) : CpuOf(tasks, l) > 0}) = 1

\* They are what the two invariants say of the tasks there are, before a step and after it.
LEMMA TokensAre ==
  /\ Tokens <=> Balanced(flying, free) /\ Capped(flying)
  /\ Tokens' <=> Balanced(flying', free') /\ Capped(flying')
<1>1. TokensBalance <=> Balanced(flying, free)
  BY UsedIsHeld, Zenon DEF TokensBalance, Balanced
<1>2. TokensBalance' <=> Balanced(flying', free')
  BY UsedIsHeld, Zenon DEF TokensBalance, Balanced
<1>3. CapKept <=> Capped(flying)
  <2>1. \A j : CpuUsed(j) = Held(flying, OfJob(flying, j)) /\ TasksOf(j) = OfJob(flying, j)
    BY UsedIsHeld DEF TasksOf, OfJob
  <2> QED BY <2>1, Zenon DEF CapKept, Capped, CpuOf
<1>4. CapKept' <=> Capped(flying')
  <2>1. \A j : CpuUsed(j)' = Held(flying', OfJob(flying', j)) /\ TasksOf(j)' = OfJob(flying', j)
    BY UsedIsHeld DEF TasksOf, OfJob
  <2> QED BY <2>1, Zenon DEF CapKept, Capped, CpuOf
<1> QED BY <1>1, <1>2, <1>3, <1>4 DEF Tokens

\* What there is to know of tasks before they are added up.
LEMMA TasksAre ==
  ASSUME NEW tasks, Sane(tasks)
  PROVE  /\ IsFiniteSet(DOMAIN tasks) /\ Held(tasks, DOMAIN tasks) \in Nat
         /\ \A l \in DOMAIN tasks : CpuOf(tasks, l) \in Nat
         /\ \A j : IsFiniteSet(OfJob(tasks, j)) /\ Held(tasks, OfJob(tasks, j)) \in Nat
<1>1. IsFiniteSet(Lanes)
  BY ChunksAssumption, FS_Interval DEF Lanes
<1>2. IsFiniteSet(DOMAIN tasks)
  BY <1>1, FS_Subset DEF Sane
<1>3. \A l \in DOMAIN tasks : CpuOf(tasks, l) \in Nat
  BY ChunksAssumption DEF CpuOf, Sane
<1>4. Held(tasks, DOMAIN tasks) \in Nat
  BY <1>2, <1>3, HeldAdds
<1>5. ASSUME NEW j PROVE IsFiniteSet(OfJob(tasks, j)) /\ Held(tasks, OfJob(tasks, j)) \in Nat
  <2>1. PICK S : S = OfJob(tasks, j)
    OBVIOUS
  <2>2. IsFiniteSet(S) /\ \A l \in S : CpuOf(tasks, l) \in Nat
    BY <1>2, <1>3, <2>1, FS_Subset DEF OfJob
  <2> QED BY <2>1, <2>2, HeldAdds
<1> QED BY <1>2, <1>3, <1>4, <1>5

\* Tasks that go by the same chunks hold the same.
LEMMA SameTasks ==
  ASSUME NEW one, NEW other, NEW n, Sane(one), DOMAIN other = DOMAIN one,
         \A l \in DOMAIN one : other[l].head = one[l].head, Balanced(one, n), Capped(one)
  PROVE  Balanced(other, n) /\ Capped(other)
<1>1. \A l \in DOMAIN one : CpuOf(one, l) = CpuOf(other, l)
  BY DEF CpuOf
<1>2. Held(one, DOMAIN one) = Held(other, DOMAIN one)
  BY <1>1, TasksAre, HeldAgrees
<1>3. ASSUME NEW j
      PROVE  /\ OfJob(other, j) = OfJob(one, j) /\ Held(other, OfJob(one, j)) = Held(one, OfJob(one, j))
             /\ \A l \in OfJob(one, j) : CpuOf(one, l) = CpuOf(other, l)
  <2>1. OfJob(other, j) = OfJob(one, j)
    BY DEF OfJob
  <2>2. PICK S : S = OfJob(one, j)
    OBVIOUS
  <2>3. IsFiniteSet(S) /\ \A l \in S : CpuOf(one, l) = CpuOf(other, l)
    BY <1>1, <2>2, TasksAre DEF OfJob
  <2>4. Held(one, S) = Held(other, S)
    BY <2>3, HeldAgrees
  <2> QED BY <2>1, <2>2, <2>3, <2>4
<1>4. Balanced(other, n)
  BY <1>2 DEF Balanced
<1>5. Capped(other)
  <2> SUFFICES ASSUME NEW j \in Jobs, Held(other, OfJob(other, j)) > MaxCpu[j]
               PROVE  Cardinality({l \in OfJob(other, j) : CpuOf(other, l) > 0}) = 1
    BY DEF Capped
  <2>1. {l \in OfJob(other, j) : CpuOf(other, l) > 0} = {l \in OfJob(one, j) : CpuOf(one, l) > 0}
    BY <1>3
  <2>2. Held(one, OfJob(one, j)) > MaxCpu[j]
    BY <1>3
  <2> QED BY <2>1, <2>2 DEF Capped
<1> QED BY <1>4, <1>5

\* The sums of tasks with another one among them.
LEMMA WithAnother ==
  ASSUME NEW one, NEW other, Sane(one), Sane(other), NEW l, l \notin DOMAIN one,
         DOMAIN other = DOMAIN one \cup {l}, \A k \in DOMAIN one : other[k].head = one[k].head
  PROVE  LET c == other[l].head
         IN  /\ Cost[c] \in Nat /\ JobOf[c] \in Jobs /\ CpuOf(other, l) = Cost[c]
             /\ Held(other, DOMAIN other) = Cost[c] + Held(one, DOMAIN one)
             /\ Held(other, OfJob(other, JobOf[c])) = Cost[c] + Held(one, OfJob(one, JobOf[c]))
             /\ OfJob(other, JobOf[c]) = OfJob(one, JobOf[c]) \cup {l}
             /\ \A j : j # JobOf[c] =>
                  OfJob(other, j) = OfJob(one, j) /\ Held(other, OfJob(other, j)) = Held(one, OfJob(one, j))
             /\ \A k \in DOMAIN one : CpuOf(other, k) = CpuOf(one, k)
<1> DEFINE c == other[l].head
           j == JobOf[c]
<1>1. c \in Chunks /\ Cost[c] \in Nat /\ j \in Jobs /\ CpuOf(other, l) = Cost[c]
  BY ChunksAssumption DEF Sane, CpuOf
<1>2. \A k \in DOMAIN one : CpuOf(other, k) = CpuOf(one, k)
  BY DEF CpuOf
<1>3. OfJob(other, j) = OfJob(one, j) \cup {l}
  BY DEF OfJob
<1>4. \A i : i # j => OfJob(other, i) = OfJob(one, i)
  BY DEF OfJob
<1>5. ASSUME NEW S \in SUBSET DOMAIN one, IsFiniteSet(S)
      PROVE  Held(other, S \cup {l}) = Cost[c] + Held(one, S) /\ Held(other, S) = Held(one, S)
  <2>1. Held(other, S) = Held(one, S)
    <3>1. \A k \in S : CpuOf(one, k) = CpuOf(other, k)
      BY <1>2
    <3> QED BY <1>5, <3>1, HeldAgrees
  <2>2. PICK T : T = S \cup {l}
    OBVIOUS
  <2>3. IsFiniteSet(T)
    BY <1>5, <2>2, FS_AddElement
  <2>4. \A k \in T : CpuOf(other, k) \in Nat
    BY <2>2, TasksAre
  <2>5. Held(other, T) = CpuOf(other, l) + Held(other, T \ {l})
    BY <2>2, <2>3, <2>4, HeldAdds
  <2>6. T \ {l} = S
    BY <2>2
  <2> QED BY <1>1, <2>1, <2>2, <2>5, <2>6
<1> HIDE DEF c, j
<1>6. Held(other, DOMAIN other) = Cost[c] + Held(one, DOMAIN one)
  BY <1>5, TasksAre
<1>7. \A i : OfJob(one, i) \in SUBSET DOMAIN one /\ IsFiniteSet(OfJob(one, i))
  BY TasksAre DEF OfJob
<1>8. Held(other, OfJob(other, j)) = Cost[c] + Held(one, OfJob(one, j))
  BY <1>3, <1>5, <1>7
<1>9. \A i : i # j => Held(other, OfJob(other, i)) = Held(one, OfJob(one, i))
  BY <1>4, <1>5, <1>7
<1> QED BY <1>1, <1>2, <1>3, <1>4, <1>6, <1>8, <1>9 DEF c, j

\* A task that starts takes the tokens there are, and its job stays under its cap or holds
\* nothing else.
LEMMA OneMore ==
  ASSUME NEW one, NEW other, Sane(one), Sane(other), NEW n \in Int, Balanced(one, n), Capped(one),
         NEW l, l \notin DOMAIN one,
         DOMAIN other = DOMAIN one \cup {l}, \A k \in DOMAIN one : other[k].head = one[k].head,
         Cost[other[l].head] <= n,
         LET j == JobOf[other[l].head]
         IN  Held(one, OfJob(one, j)) = 0 \/ Held(one, OfJob(one, j)) + Cost[other[l].head] <= MaxCpu[j]
  PROVE  Balanced(other, n - Cost[other[l].head]) /\ Capped(other)
<1> DEFINE c == other[l].head
           j == JobOf[c]
<1> HIDE DEF c, j
<1>1. /\ Cost[c] \in Nat /\ j \in Jobs /\ CpuOf(other, l) = Cost[c]
      /\ Held(other, DOMAIN other) = Cost[c] + Held(one, DOMAIN one)
      /\ Held(other, OfJob(other, j)) = Cost[c] + Held(one, OfJob(one, j))
      /\ OfJob(other, j) = OfJob(one, j) \cup {l}
      /\ \A i : i # j => OfJob(other, i) = OfJob(one, i) /\ Held(other, OfJob(other, i)) = Held(one, OfJob(one, i))
      /\ \A k \in DOMAIN one : CpuOf(other, k) = CpuOf(one, k)
  BY WithAnother DEF c, j
<1>2. Balanced(other, n - Cost[c])
  <2>1. n + Held(one, DOMAIN one) = Cpus /\ Cost[c] <= n /\ Held(one, DOMAIN one) \in Nat
    BY TasksAre DEF Balanced, c
  <2>2. (n - Cost[c]) + (Cost[c] + Held(one, DOMAIN one)) = Cpus /\ n - Cost[c] >= 0
    BY <1>1, <2>1
  <2> QED BY <1>1, <2>2 DEF Balanced
<1>3. ASSUME NEW i \in Jobs, Held(other, OfJob(other, i)) > MaxCpu[i]
      PROVE  Cardinality({k \in OfJob(other, i) : CpuOf(other, k) > 0}) = 1
  <2>1. MaxCpu[i] \in Nat /\ Held(one, OfJob(one, i)) \in Nat
    BY ChunksAssumption, TasksAre
  <2>2. CASE i = j
    <3>1. Held(one, OfJob(one, j)) = 0 \/ Held(one, OfJob(one, j)) + Cost[c] <= MaxCpu[j]
      BY DEF c, j
    <3>6. Cost[c] + Held(one, OfJob(one, j)) > MaxCpu[j]
      BY <1>1, <1>3, <2>2
    <3>7. Cost[c] \in Nat /\ MaxCpu[j] \in Nat /\ Held(one, OfJob(one, j)) \in Nat
      BY <1>1, <2>1, <2>2
    <3>2. Held(one, OfJob(one, j)) = 0 /\ Cost[c] > 0
      BY ONLY <3>1, <3>6, <3>7
    <3>3. \A k \in OfJob(one, j) : CpuOf(one, k) = 0
      <4>1. PICK S : S = OfJob(one, j)
        OBVIOUS
      <4>2. IsFiniteSet(S) /\ \A k \in S : CpuOf(one, k) \in Nat
        BY <4>1, TasksAre DEF OfJob
      <4>3. \A k \in S : CpuOf(one, k) = 0
        BY <3>2, <4>1, <4>2, NothingHeld
      <4> QED BY <4>1, <4>3
    <3>4. \A k \in OfJob(one, j) : CpuOf(other, k) = 0
      BY <1>1, <3>3 DEF OfJob
    <3>5. {k \in OfJob(other, j) : CpuOf(other, k) > 0} = {l}
      BY <1>1, <3>2, <3>4
    <3> QED BY <2>2, <3>5, FS_Singleton
  <2>3. CASE i # j
    <3>1. Held(one, OfJob(one, i)) > MaxCpu[i]
      BY <1>1, <1>3, <2>3
    <3>2. {k \in OfJob(other, i) : CpuOf(other, k) > 0} = {k \in OfJob(one, i) : CpuOf(one, k) > 0}
      BY <1>1, <2>3 DEF OfJob
    <3> QED BY <3>1, <3>2 DEF Capped
  <2> QED BY <2>2, <2>3
<1> QED BY <1>2, <1>3 DEF Capped, c

\* A task that comes back gives what it took.
LEMMA OneLess ==
  ASSUME NEW one, NEW other, Sane(one), Sane(other), NEW n \in Int, Balanced(other, n), Capped(other),
         NEW l, l \notin DOMAIN one,
         DOMAIN other = DOMAIN one \cup {l}, \A k \in DOMAIN one : other[k].head = one[k].head
  PROVE  Balanced(one, n + Cost[other[l].head]) /\ Capped(one)
<1> DEFINE c == other[l].head
           j == JobOf[c]
<1> HIDE DEF c, j
<1>1. /\ Cost[c] \in Nat /\ j \in Jobs /\ CpuOf(other, l) = Cost[c]
      /\ Held(other, DOMAIN other) = Cost[c] + Held(one, DOMAIN one)
      /\ Held(other, OfJob(other, j)) = Cost[c] + Held(one, OfJob(one, j))
      /\ OfJob(other, j) = OfJob(one, j) \cup {l}
      /\ \A i : i # j => OfJob(other, i) = OfJob(one, i) /\ Held(other, OfJob(other, i)) = Held(one, OfJob(one, i))
      /\ \A k \in DOMAIN one : CpuOf(other, k) = CpuOf(one, k)
  BY WithAnother DEF c, j
<1>2. Balanced(one, n + Cost[c])
  <2>1. n >= 0 /\ n + (Cost[c] + Held(one, DOMAIN one)) = Cpus /\ Held(one, DOMAIN one) \in Nat
    BY <1>1, TasksAre DEF Balanced
  <2>2. (n + Cost[c]) + Held(one, DOMAIN one) = Cpus /\ n + Cost[c] >= 0
    BY <1>1, <2>1
  <2> QED BY <2>2 DEF Balanced
<1>3. ASSUME NEW i \in Jobs, Held(one, OfJob(one, i)) > MaxCpu[i]
      PROVE  Cardinality({k \in OfJob(one, i) : CpuOf(one, k) > 0}) = 1
  <2>1. MaxCpu[i] \in Nat /\ Held(one, OfJob(one, i)) \in Nat
    BY ChunksAssumption, TasksAre
  <2>2. CASE i # j
    <3>1. {k \in OfJob(other, i) : CpuOf(other, k) > 0} = {k \in OfJob(one, i) : CpuOf(one, k) > 0}
      BY <1>1, <2>2 DEF OfJob
    <3> QED BY <1>1, <1>3, <2>2, <3>1 DEF Capped
  <2>3. CASE i = j
    <3>1. Held(other, OfJob(other, j)) > MaxCpu[j]
      BY <1>1, <1>3, <2>1, <2>3
    <3>2. Cardinality({k \in OfJob(other, j) : CpuOf(other, k) > 0}) = 1
      BY <1>1, <3>1 DEF Capped
    <3>3. IsFiniteSet({k \in OfJob(other, j) : CpuOf(other, k) > 0})
      BY TasksAre, FS_Subset
    <3>4. PICK m : {k \in OfJob(other, j) : CpuOf(other, k) > 0} = {m}
      BY <3>2, <3>3, FS_Singleton
    <3>5. \E k \in OfJob(one, j) : CpuOf(one, k) > 0
      <4>1. PICK S : S = OfJob(one, j)
        OBVIOUS
      <4>2. IsFiniteSet(S) /\ \A k \in S : CpuOf(one, k) \in Nat
        BY <4>1, TasksAre DEF OfJob
      <4>3. Held(one, S) # 0
        BY <1>3, <2>1, <2>3, <4>1
      <4>4. \E k \in S : CpuOf(one, k) # 0
        BY <4>2, <4>3, NothingHeld
      <4> QED BY <4>1, <4>2, <4>4
    <3>6. \A k \in OfJob(one, j) : CpuOf(other, k) = CpuOf(one, k) /\ k \in OfJob(other, j)
      BY <1>1 DEF OfJob
    <3>7. {k \in OfJob(one, j) : CpuOf(one, k) > 0} = {m}
      BY <3>4, <3>5, <3>6
    <3> QED BY <2>3, <3>7, FS_Singleton
  <2> QED BY <2>2, <2>3
<1> QED BY <1>2, <1>3 DEF Capped, c

\* The tasks of a state are tasks to add up.
LEMMA SaneTasks ==
  /\ TypeOK => Sane(flying)
  /\ TypeOK' => Sane(flying')
<1>1. TypeOK => Sane(flying)
  BY DEF TypeOK, Task, Sane
<1>2. TypeOK' => Sane(flying')
  BY DEF TypeOK, Task, Sane, Lanes
<1> QED BY <1>1, <1>2

\* A step that changes neither which tasks there are, nor what they go by, nor the tokens.
LEMMA TokensStay ==
  ASSUME TypeOK, Tokens, UNCHANGED free, DOMAIN flying' = DOMAIN flying,
         \A l \in DOMAIN flying : flying'[l].head = flying[l].head
  PROVE  Tokens'
<1>1. Sane(flying) /\ Balanced(flying, free) /\ Capped(flying)
  BY SaneTasks, TokensAre
<1>2. Balanced(flying', free) /\ Capped(flying')
  BY <1>1, SameTasks
<1>3. PICK n : n = free
  OBVIOUS
<1> QED BY <1>2, TokensAre

\* A task goes to an executor with a place left when there are tokens for it and the cap of its
\* job lets it in, or nothing runs at all.
LEMMA LaunchTokens ==
  ASSUME TypeOK, TypeOK', Tokens, Inflight < Capacity,
         NEW members \in Seq(Chunks), members # <<>>, NEW packed \in BOOLEAN,
         NEW byItself \in BOOLEAN, Launch(members, packed, byItself),
         Fits(Head(members)), UnderCap(Head(members)) \/ DOMAIN flying = {}
  PROVE  Tokens'
<1> DEFINE c == Head(members)
           j == JobOf[c]
<1>1. /\ DOMAIN flying' = DOMAIN flying \cup {NextLane} /\ NextLane \notin DOMAIN flying
      /\ \A l \in DOMAIN flying : flying'[l].head = flying[l].head
  BY LaunchType, NextLaneFree
<1>2. flying'[NextLane].head = c /\ free' = free - Cost[c]
  BY DEF Launch
<1>3. Sane(flying) /\ Sane(flying') /\ Balanced(flying, free) /\ Capped(flying) /\ free \in Int
  BY SaneTasks, TokensAre DEF TypeOK
<1>4. Cost[c] <= free
  BY DEF Fits
<1>5. Held(flying, OfJob(flying, j)) = 0 \/ Held(flying, OfJob(flying, j)) + Cost[c] <= MaxCpu[j]
  <2>1. CASE UnderCap(c)
    <3>1. CpuUsed(j) = Held(flying, OfJob(flying, j))
      BY UsedIsHeld DEF TasksOf, OfJob
    <3> QED BY <2>1, <3>1 DEF UnderCap
  <2>2. CASE DOMAIN flying = {}
    <3>1. OfJob(flying, j) = {}
      BY <2>2 DEF OfJob
    <3> QED BY <3>1, FS_EmptySet, HeldAdds
  <2> QED BY <2>1, <2>2
<1> HIDE DEF c
<1>6. Balanced(flying', free - Cost[flying'[NextLane].head]) /\ Capped(flying')
  BY <1>1, <1>2, <1>3, <1>4, <1>5, OneMore
<1> QED BY <1>2, <1>6, TokensAre

\* Whatever is started, comes back, is stopped or told of, the free tokens and the held ones are
\* the ones there are, and no job is above its cap but with a single task that holds any.
THEOREM TokensKept == Spec => []Tokens
<1>1. Init => Tokens
  <2> SUFFICES ASSUME Init PROVE Tokens
    OBVIOUS
  <2>1. DOMAIN flying = {} /\ free = Cpus /\ Cpus \in Nat
    BY ChunksAssumption DEF Init
  <2>2. Held(flying, DOMAIN flying) = 0
    BY <2>1, FS_EmptySet, HeldAdds
  <2>3. Balanced(flying, free)
    BY <2>1, <2>2 DEF Balanced
  <2>4. ASSUME NEW j \in Jobs PROVE ~(Held(flying, OfJob(flying, j)) > MaxCpu[j])
    <3>1. OfJob(flying, j) = {}
      BY <2>1 DEF OfJob
    <3>2. Held(flying, OfJob(flying, j)) = 0
      BY <3>1, FS_EmptySet, HeldAdds
    <3>3. MaxCpu[j] \in Nat
      BY ChunksAssumption
    <3> QED BY <3>2, <3>3
  <2> QED BY <2>3, <2>4, TokensAre DEF Capped
<1>2. TypeOK /\ TypeOK' /\ Tokens /\ [Next]_vars => Tokens'
  <2> SUFFICES ASSUME TypeOK, TypeOK', Tokens, [Next]_vars PROVE Tokens'
    OBVIOUS
  <2>1. CASE UNCHANGED <<flying, free>>
    BY <2>1, TokensStay
  <2>2. ASSUME NEW j \in Jobs, StartTask(j) PROVE Tokens'
    <3>1. PICK n \in 1 .. Batch :
            Packs(j, n) /\ Launch(SubSeq(ready[j], 1, n), n > 1 \/ Batched, FALSE)
      BY <2>2 DEF StartTask
    <3>2. n \in Nat /\ n > 0 /\ n <= Len(ready[j]) /\ ready[j] \in Seq(Chunks)
      <4>1. n \in Nat /\ n > 0
        BY ChunksAssumption
      <4>2. n <= Len(ready[j]) /\ ready[j] \in Seq(Chunks)
        BY <3>1 DEF Packs, TypeOK
      <4> QED BY <4>1, <4>2
    <3>3. /\ SubSeq(ready[j], 1, n) \in Seq(Chunks) /\ SubSeq(ready[j], 1, n) # <<>>
          /\ Head(SubSeq(ready[j], 1, n)) = Head(ready[j])
      BY <3>2
    <3>4. Inflight < Capacity /\ Fits(Head(ready[j])) /\ UnderCap(Head(ready[j])) /\ (n > 1 \/ Batched) \in BOOLEAN
      BY <2>2, ChunksAssumption DEF StartTask, SlotOpen
    <3> QED BY <3>1, <3>3, <3>4, LaunchTokens
  <2>3. CASE RetrySuspect
    <3>1. suspects \in Seq(Chunks) /\ suspects # <<>> /\ DOMAIN flying = {}
      BY <2>3 DEF RetrySuspect, TypeOK
    <3>2. PICK c \in Chunks : c = Head(suspects)
      BY <3>1
    <3>3. <<c>> \in Seq(Chunks) /\ <<c>> # <<>> /\ Head(<<c>>) = c /\ Batched \in BOOLEAN
      BY ChunksAssumption
    <3>4. Fits(c) /\ Launch(<<c>>, Batched, TRUE)
      BY <2>3, <3>2 DEF RetrySuspect
    <3>5. Inflight < Capacity
      BY <3>1, NoneInflight
    <3> QED BY <3>1, <3>3, <3>4, <3>5, LaunchTokens
  <2>4. ASSUME NEW l \in DOMAIN flying, NEW s \in Ways, TaskDone(l, s) PROVE Tokens'
    <3>1. /\ DOMAIN flying = DOMAIN flying' \cup {l} /\ l \notin DOMAIN flying'
          /\ \A k \in DOMAIN flying' : flying[k].head = flying'[k].head
          /\ free' = free + Cost[flying[l].head]
      BY <2>4 DEF TaskDone, Given
    <3>2. Sane(flying) /\ Sane(flying') /\ Balanced(flying, free) /\ Capped(flying) /\ free \in Int
      BY SaneTasks, TokensAre DEF TypeOK
    <3>3. Balanced(flying', free + Cost[flying[l].head]) /\ Capped(flying')
      BY <3>1, <3>2, OneLess
    <3> QED BY <3>1, <3>3, TokensAre
  <2>5. ASSUME NEW l \in DOMAIN flying, NEW i \in DOMAIN flying[l].left,
               NEW s \in {"DONE", "ERROR"}, PartDone(l, i, s)
        PROVE  Tokens'
    <3>1. UNCHANGED free
      BY <2>5 DEF PartDone
    <3>2. flying' = [flying EXCEPT ![l].left = LeftWithout(l, i)]
      BY <2>5 DEF PartDone
    <3>3. DOMAIN flying' = DOMAIN flying /\ \A k \in DOMAIN flying : flying'[k].head = flying[k].head
      BY <3>2 DEF TypeOK, Task
    <3> QED BY <3>1, <3>3, TokensStay
  <2>6. ASSUME NEW late, NEW running, Kill(late, running), UNCHANGED free PROVE Tokens'
    <3>1. DOMAIN flying' = DOMAIN flying /\ \A k \in DOMAIN flying : flying'[k].head = flying[k].head
      BY <2>6 DEF Kill, TypeOK, Task
    <3> QED BY <2>6, <3>1, TokensStay
  <2>7. ASSUME NEW j \in Jobs, Cancel(j) PROVE Tokens'
    BY <2>1, <2>6, <2>7 DEF Cancel
  <2>8. ASSUME NEW j \in Jobs, NEW late \in SUBSET DOMAIN flying, TimeOut(j, late) PROVE Tokens'
    BY <2>6, <2>8 DEF TimeOut
  <2> QED BY <2>1, <2>2, <2>3, <2>4, <2>5, <2>7, <2>8
          DEF Next, vars, RefuseChunk, DropSuspect, ChunkEnds, Requeue, Delivered
<1> QED BY <1>1, <1>2, TypeCorrect, PTL DEF Spec
-----------------------------------------------------------------------------
(* Lines that bear a chunk once *)

Once(s) == \A i, k \in DOMAIN s : s[i] = s[k] => i = k
In(s) == {s[i] : i \in DOMAIN s}

\* There are as many chunks in such a line as it is long.
LEMMA AsManyAsLong ==
  ASSUME NEW S, NEW s \in Seq(S), Once(s)
  PROVE  IsFiniteSet(In(s)) /\ Cardinality(In(s)) = Len(s)
<1>1. Len(s) \in Nat /\ DOMAIN s = 1 .. Len(s)
  OBVIOUS
<1>2. IsFiniteSet(DOMAIN s) /\ Cardinality(DOMAIN s) = Len(s)
  BY <1>1, FS_Interval
<1> DEFINE f == [i \in DOMAIN s |-> s[i]]
<1>3. f \in Surjection(DOMAIN s, In(s))
  BY DEF Surjection, In
<1>4. f \in Injection(DOMAIN s, In(s))
  <2>1. f \in [DOMAIN s -> In(s)] /\ \A i, k \in DOMAIN s : f[i] = f[k] => i = k
    BY DEF In, Once
  <2> HIDE DEF f
  <2> QED BY <2>1 DEF Injection, IsInjective
<1>5. Cardinality(In(s)) = Cardinality(DOMAIN s) /\ IsFiniteSet(In(s))
  BY <1>2, <1>3, <1>4, FS_Surjection
<1> QED BY <1>2, <1>5

\* Its first ones and the others are lines as well.
LEMMA TakeAndDrop ==
  ASSUME NEW S, NEW s \in Seq(S), Once(s), NEW n \in 0 .. Len(s)
  PROVE  LET a == SubSeq(s, 1, n)
             b == SubSeq(s, n + 1, Len(s))
         IN  /\ a \in Seq(S) /\ Once(a) /\ Len(a) = n
             /\ b \in Seq(S) /\ Once(b)
             /\ In(s) = In(a) \cup In(b) /\ In(a) \cap In(b) = {}
<1> DEFINE a == SubSeq(s, 1, n)
           b == SubSeq(s, n + 1, Len(s))
<1>1. Len(s) \in Nat /\ DOMAIN s = 1 .. Len(s) /\ n \in Nat /\ n <= Len(s)
  OBVIOUS
<1>2. a \in Seq(S) /\ Len(a) = n /\ DOMAIN a = 1 .. n /\ \A i \in 1 .. n : a[i] = s[i]
  BY <1>1
<1>3. b \in Seq(S) /\ Len(b) = Len(s) - n /\ DOMAIN b = 1 .. Len(s) - n
      /\ \A i \in 1 .. Len(s) - n : b[i] = s[n + i]
  <2>1. \A i \in n + 1 .. Len(s) : s[i] \in S
    <3> SUFFICES ASSUME NEW i \in n + 1 .. Len(s) PROVE s[i] \in S
      OBVIOUS
    <3>1. i \in 1 .. Len(s)
      BY <1>1
    <3> QED BY <3>1, ElementOfSeq
  <2>0. Len(s) \in Nat /\ n \in Nat /\ n <= Len(s)
    BY <1>1
  <2>7. \E m, k \in Nat : m = n + 1 /\ k = Len(s)
    BY ONLY <2>0
  <2>2. PICK m \in Nat, k \in Nat : m = n + 1 /\ k = Len(s)
    BY <2>7
  <2>3. /\ SubSeq(s, m, k) \in Seq(S) /\ Len(SubSeq(s, m, k)) = IF m <= k THEN k - m + 1 ELSE 0
        /\ \A i \in 1 .. k - m + 1 : SubSeq(s, m, k)[i] = s[m + i - 1]
    BY <2>1, <2>2, SubSeqProperties
  <2>4. \A i \in 1 .. k - m + 1 : m + i - 1 = n + i
    BY <1>1, <2>2
  <2>5. k - m + 1 = Len(s) - n /\ Len(b) = Len(s) - n /\ b = SubSeq(s, m, k)
    <3>1. k - m + 1 = Len(s) - n /\ (m > k => Len(s) - n = 0)
      BY ONLY <2>0, <2>2, m \in Nat, k \in Nat
    <3>2. b = SubSeq(s, m, k)
      BY <2>2
    <3> HIDE DEF b
    <3> QED BY <2>2, <2>3, <3>1, <3>2
  <2>6. DOMAIN b = 1 .. Len(b)
    BY <2>3, <2>5
  <2> QED BY <2>3, <2>4, <2>5, <2>6
<1> HIDE DEF a, b
<1>4. Once(a)
  BY <1>1, <1>2 DEF Once
<1>5. Once(b)
  <2> SUFFICES ASSUME NEW i \in DOMAIN b, NEW k \in DOMAIN b, b[i] = b[k] PROVE i = k
    BY DEF Once
  <2>1. s[n + i] = s[n + k] /\ n + i \in DOMAIN s /\ n + k \in DOMAIN s
    BY <1>1, <1>3
  <2>2. n + i = n + k
    BY <2>1 DEF Once
  <2> QED BY <1>1, <1>3, <2>2
<1>6. In(s) = In(a) \cup In(b)
  <2>1. \A i \in DOMAIN s : s[i] \in In(a) \cup In(b)
    <3> SUFFICES ASSUME NEW i \in DOMAIN s PROVE s[i] \in In(a) \cup In(b)
      OBVIOUS
    <3>1. CASE i <= n
      BY <1>1, <1>2, <3>1 DEF In
    <3>2. CASE i > n
      <4>1. i - n \in DOMAIN b /\ b[i - n] = s[i]
        BY <1>1, <1>3, <3>2
      <4> QED BY <4>1 DEF In
    <3> QED BY <1>1, <3>1, <3>2
  <2>2. \A i \in DOMAIN a : a[i] \in In(s)
    BY <1>1, <1>2 DEF In
  <2>3. \A i \in DOMAIN b : b[i] \in In(s)
    <3> SUFFICES ASSUME NEW i \in DOMAIN b PROVE b[i] \in In(s)
      OBVIOUS
    <3>1. n + i \in DOMAIN s /\ b[i] = s[n + i]
      BY <1>1, <1>3
    <3> QED BY <3>1 DEF In
  <2> QED BY <2>1, <2>2, <2>3 DEF In
<1>7. In(a) \cap In(b) = {}
  <2> SUFFICES ASSUME NEW i \in DOMAIN a, NEW k \in DOMAIN b, a[i] = b[k] PROVE FALSE
    BY DEF In
  <2>1. s[i] = s[n + k] /\ i \in DOMAIN s /\ n + k \in DOMAIN s
    BY <1>1, <1>2, <1>3
  <2>2. i = n + k
    BY <2>1 DEF Once
  <2> QED BY <1>1, <1>2, <1>3, <2>2
<1> QED BY <1>2, <1>3, <1>4, <1>5, <1>6, <1>7 DEF a, b

\* One goes from its head.
LEMMA HeadGoes ==
  ASSUME NEW S, NEW s \in Seq(S), Once(s), s # <<>>
  PROVE  /\ Head(s) \in S /\ Head(s) \in In(s) /\ Head(s) = s[1]
         /\ Tail(s) \in Seq(S) /\ Once(Tail(s)) /\ In(Tail(s)) = In(s) \ {Head(s)}
<1>1. Len(s) \in Nat \ {0} /\ DOMAIN s = 1 .. Len(s) /\ Head(s) = s[1]
  OBVIOUS
<1>2. /\ Tail(s) \in Seq(S) /\ Len(Tail(s)) = Len(s) - 1 /\ DOMAIN Tail(s) = 1 .. Len(s) - 1
      /\ \A i \in 1 .. Len(s) - 1 : Tail(s)[i] = s[i + 1]
  BY <1>1, HeadTailProperties
<1> DEFINE t == Tail(s)
<1> HIDE DEF t
<1>3. Once(t)
  <2> SUFFICES ASSUME NEW i \in DOMAIN t, NEW k \in DOMAIN t, t[i] = t[k] PROVE i = k
    BY DEF Once
  <2>1. s[i + 1] = s[k + 1] /\ i + 1 \in DOMAIN s /\ k + 1 \in DOMAIN s
    BY <1>1, <1>2 DEF t
  <2>2. i + 1 = k + 1
    BY <2>1 DEF Once
  <2> QED BY <1>1, <1>2, <2>2 DEF t
<1>4. \A i \in DOMAIN t : t[i] \in In(s) \ {s[1]}
  <2> SUFFICES ASSUME NEW i \in DOMAIN t PROVE t[i] \in In(s) \ {s[1]}
    OBVIOUS
  <2>1. t[i] = s[i + 1] /\ i + 1 \in DOMAIN s /\ 1 \in DOMAIN s /\ i + 1 # 1
    BY <1>1, <1>2 DEF t
  <2> QED BY <2>1 DEF In, Once
<1>5. \A i \in DOMAIN s : i # 1 => s[i] \in In(t)
  <2> SUFFICES ASSUME NEW i \in DOMAIN s, i # 1 PROVE s[i] \in In(t)
    OBVIOUS
  <2>1. i - 1 \in DOMAIN t /\ t[i - 1] = s[i]
    BY <1>1, <1>2 DEF t
  <2> QED BY <2>1 DEF In
<1>6. In(t) = In(s) \ {s[1]}
  BY <1>4, <1>5 DEF In
<1>7. s[1] \in In(s) /\ s[1] \in S
  BY <1>1 DEF In
<1> QED BY <1>1, <1>2, <1>3, <1>6, <1>7 DEF t

\* One comes behind it.
LEMMA OneComes ==
  ASSUME NEW S, NEW s \in Seq(S), Once(s), NEW c \in S, c \notin In(s)
  PROVE  Append(s, c) \in Seq(S) /\ Once(Append(s, c)) /\ In(Append(s, c)) = In(s) \cup {c}
<1> DEFINE t == Append(s, c)
<1>1. Len(s) \in Nat /\ DOMAIN s = 1 .. Len(s)
  OBVIOUS
<1>2. /\ t \in Seq(S) /\ DOMAIN t = 1 .. Len(s) + 1
      /\ \A i \in DOMAIN s : i \in DOMAIN t /\ t[i] = s[i] /\ i # Len(s) + 1
      /\ Len(s) + 1 \in DOMAIN t /\ t[Len(s) + 1] = c
  BY <1>1
<1>3. \A i \in DOMAIN t : i = Len(s) + 1 \/ i \in DOMAIN s
  BY <1>1, <1>2
<1> HIDE DEF t
<1>4. Once(t)
  BY <1>2, <1>3 DEF Once, In
<1>5. In(t) = In(s) \cup {c}
  BY <1>2, <1>3 DEF In
<1> QED BY <1>2, <1>4, <1>5 DEF t

\* A line before another that has none of its chunks.
LEMMA OneBeforeOther ==
  ASSUME NEW S, NEW s \in Seq(S), Once(s), NEW t \in Seq(S), Once(t), In(s) \cap In(t) = {}
  PROVE  s \o t \in Seq(S) /\ Once(s \o t) /\ In(s \o t) = In(s) \cup In(t)
<1> DEFINE u == s \o t
<1>1. Len(s) \in Nat /\ DOMAIN s = 1 .. Len(s) /\ Len(t) \in Nat /\ DOMAIN t = 1 .. Len(t)
  OBVIOUS
<1>2. /\ u \in Seq(S) /\ DOMAIN u = 1 .. Len(s) + Len(t)
      /\ \A i \in 1 .. Len(s) + Len(t) : u[i] = IF i <= Len(s) THEN s[i] ELSE t[i - Len(s)]
  BY <1>1, ConcatProperties
<1> HIDE DEF u
<1>3. \A i \in DOMAIN s : i \in DOMAIN u /\ u[i] = s[i]
  BY <1>1, <1>2
<1>4. \A i \in DOMAIN t : Len(s) + i \in DOMAIN u /\ u[Len(s) + i] = t[i]
  <2> SUFFICES ASSUME NEW i \in DOMAIN t PROVE Len(s) + i \in DOMAIN u /\ u[Len(s) + i] = t[i]
    OBVIOUS
  <2>1. i \in Nat /\ i >= 1 /\ i <= Len(t)
    BY <1>1
  <2>2. Len(s) + i \in 1 .. Len(s) + Len(t) /\ ~(Len(s) + i <= Len(s)) /\ (Len(s) + i) - Len(s) = i
    BY <1>1, <2>1
  <2> QED BY <1>2, <2>2
<1>5. \A i \in DOMAIN u : i \in DOMAIN s \/ \E k \in DOMAIN t : i = Len(s) + k
  <2> SUFFICES ASSUME NEW i \in DOMAIN u, i \notin DOMAIN s PROVE \E k \in DOMAIN t : i = Len(s) + k
    OBVIOUS
  <2>1. i - Len(s) \in DOMAIN t /\ i = Len(s) + (i - Len(s))
    BY <1>1, <1>2
  <2> QED BY <2>1
<1>6. In(u) = In(s) \cup In(t)
  <2>1. \A i \in DOMAIN u : u[i] \in In(s) \cup In(t)
    BY <1>3, <1>4, <1>5 DEF In
  <2>2. \A i \in DOMAIN s : s[i] \in In(u)
    BY <1>3 DEF In
  <2>3. \A i \in DOMAIN t : t[i] \in In(u)
    BY <1>4 DEF In
  <2> QED BY <2>1, <2>2, <2>3 DEF In
<1>7. Once(u)
  <2> SUFFICES ASSUME NEW i \in DOMAIN u, NEW k \in DOMAIN u, u[i] = u[k] PROVE i = k
    BY DEF Once
  <2>1. CASE i \in DOMAIN s /\ k \in DOMAIN s
    BY <1>3, <2>1 DEF Once
  <2>2. ASSUME NEW m \in DOMAIN t, NEW n \in DOMAIN t, i = Len(s) + m, k = Len(s) + n PROVE i = k
    <3>1. t[m] = t[n]
      BY <1>4, <2>2
    <3> QED BY <2>2, <3>1 DEF Once
  <2>3. ASSUME NEW m \in DOMAIN s, NEW n \in DOMAIN t, u[m] = u[Len(s) + n] PROVE FALSE
    <3>1. s[m] = t[n]
      BY <1>3, <1>4, <2>3
    <3> QED BY <3>1 DEF In
  <2> QED BY <1>5, <2>1, <2>2, <2>3
<1> QED BY <1>2, <1>6, <1>7 DEF u

\* One goes from anywhere in it.
LEMMA OneGoes ==
  ASSUME NEW S, NEW s \in Seq(S), Once(s), NEW i \in DOMAIN s
  PROVE  RemoveAt(s, i) \in Seq(S) /\ Once(RemoveAt(s, i)) /\ In(RemoveAt(s, i)) = In(s) \ {s[i]}
<1>1. Len(s) \in Nat /\ DOMAIN s = 1 .. Len(s) /\ i \in Nat /\ i >= 1 /\ i <= Len(s)
  OBVIOUS
<1> DEFINE a == SubSeq(s, 1, i - 1)
           r == SubSeq(s, i, Len(s))
           b == SubSeq(s, i + 1, Len(s))
<1>2. i - 1 \in 0 .. Len(s) /\ (i - 1) + 1 = i
  BY <1>1
<1>3. /\ a \in Seq(S) /\ Once(a) /\ r \in Seq(S) /\ Once(r)
      /\ In(s) = In(a) \cup In(r) /\ In(a) \cap In(r) = {}
  BY <1>2, TakeAndDrop
<1>4. r # <<>> /\ Head(r) = s[i] /\ Tail(r) = b
  <2>1. Len(r) = Len(s) - i + 1
    BY <1>1
  <2>2. Head(r) = s[i] /\ Tail(r) = b
    <3>1. i \in 1 .. Len(s) /\ Len(s) \in i .. Len(s)
      BY <1>1
    <3> QED BY <3>1, HeadTailOfSubSeq
  <2>3. r # <<>>
    BY <1>1, <2>1
  <2> QED BY <2>2, <2>3
<1>5. RemoveAt(s, i) = a \o b
  BY DEF RemoveAt
<1> HIDE DEF a, r, b
<1>6. /\ s[i] \in In(r) /\ b \in Seq(S) /\ Once(b) /\ In(b) = In(r) \ {s[i]}
  BY <1>3, <1>4, HeadGoes
<1>7. In(a) \cap In(b) = {}
  BY <1>3, <1>6
<1>8. a \o b \in Seq(S) /\ Once(a \o b) /\ In(a \o b) = In(a) \cup In(b)
  BY <1>3, <1>6, <1>7, OneBeforeOther
<1>9. In(a) \cup In(b) = In(s) \ {s[i]}
  BY <1>3, <1>6
<1> QED BY <1>5, <1>8, <1>9
-----------------------------------------------------------------------------
(* Where the chunks are *)

\* The chunks in the lines of the jobs, and in the tasks.
InLines(lines) == {c \in Chunks : c \in In(lines[JobOf[c]])}
InTasks(tasks) == UNION {In(tasks[l].left) : l \in DOMAIN tasks}

\* The chunks in each of the places there are.
Spots == {"line", "suspects", "ending", "flying", "backoff", "delivering"}
Spot == [line |-> InLines(ready), suspects |-> In(suspects), ending |-> In(ending),
         flying |-> InTasks(flying), backoff |-> backoff, delivering |-> delivering]

\* The chunks of a job, and those of them that left its line and are not counted.
Of(j) == {c \in Chunks : JobOf[c] = j}
OpenOf(j) == {c \in Of(j) : outcome[c] = "pending" /\ c \notin Spot.line}

\* No line bears a chunk twice, and a chunk is in the line of its job and in a task of its job
\* alone, in one task at most.
Lined(lines) == \A j \in Jobs : Once(lines[j]) /\ In(lines[j]) \subseteq Of(j)
Loaded(tasks) ==
  /\ \A l \in DOMAIN tasks : Once(tasks[l].left) /\ In(tasks[l].left) \subseteq Of(JobOf[tasks[l].head])
  /\ \A l, k \in DOMAIN tasks : l # k => In(tasks[l].left) \cap In(tasks[k].left) = {}
Lines == Lined(ready) /\ Loaded(flying) /\ Once(suspects) /\ Once(ending)

\* Nobody is told of a chunk of a job that is over.
ToldOfRunning == \A c \in In(ending) : status[JobOf[c]] = "running"

\* A chunk is in one place at most; it is not counted while it is somewhere; and it is somewhere
\* while its job runs and has not counted it.
Apart == \A p, q \in Spots : p # q => Spot[p] \cap Spot[q] = {}
Known ==
  /\ \A p \in Spots : \A c \in Spot[p] : outcome[c] = "pending"
  /\ \A c \in Chunks : status[JobOf[c]] = "running" /\ outcome[c] = "pending" => \E p \in Spots : c \in Spot[p]

Placed == Apart /\ Known /\ OpenCounts
Kept == Lines /\ ToldOfRunning /\ Placed

\* Chunks go from a place to another, or out of sight, and those in the other places stay.
Moves(P, from, to) ==
  /\ from \in Spots /\ to \in Spots \cup {"none"} /\ from # to
  /\ P \subseteq Spot[from]
  /\ \A p \in Spots : Spot'[p] = IF p = from THEN Spot[p] \ P ELSE IF p = to THEN Spot[p] \cup P ELSE Spot[p]

\* By how much that changes the number of open chunks.
Change(P, from, to) ==
  IF from = "line" THEN IF to = "none" THEN 0 ELSE Cardinality(P)
  ELSE IF to \in {"line", "none"} THEN 0 - Cardinality(P) ELSE 0

\* A job has finitely many chunks, and what is in its places are chunks.
LEMMA SpotsAre ==
  /\ \A j \in Jobs : IsFiniteSet(Of(j))
  /\ TypeOK => \A p \in Spots : Spot[p] \subseteq Chunks
  /\ TypeOK => (OpenCounts <=> \A j \in Jobs : status[j] = "running" => open[j] = Cardinality(OpenOf(j)))
  /\ TypeOK' => (OpenCounts' <=> \A j \in Jobs : status'[j] = "running" => open'[j] = Cardinality(OpenOf(j)'))
<1>1. ASSUME NEW j \in Jobs PROVE IsFiniteSet(Of(j))
  <2>1. Line[j] \in Seq(Chunks)
    BY ChunksAssumption
  <2>2. Once(Line[j])
    BY ChunksAssumption DEF Once
  <2>3. IsFiniteSet(In(Line[j]))
    BY <2>1, <2>2, AsManyAsLong
  <2>4. Of(j) \subseteq In(Line[j])
    <3> SUFFICES ASSUME NEW c \in Of(j) PROVE c \in In(Line[j])
      OBVIOUS
    <3>1. Contains(Line[j], c)
      BY ChunksAssumption DEF Of
    <3>2. \E i \in 1 .. Len(Line[j]) : Line[j][i] = c
      BY <3>1 DEF Contains
    <3> QED BY <2>1, <3>2 DEF In
  <2> QED BY <2>3, <2>4, FS_Subset
<1>2. ASSUME TypeOK, NEW p \in Spots PROVE Spot[p] \subseteq Chunks
  <2>1. \A s \in Seq(Chunks) : In(s) \subseteq Chunks
    BY DEF In
  <2>2. In(suspects) \subseteq Chunks /\ In(ending) \subseteq Chunks
    BY <1>2, <2>1 DEF TypeOK
  <2>3. InTasks(flying) \subseteq Chunks
    BY <1>2, <2>1 DEF TypeOK, Task, InTasks
  <2>4. InLines(ready) \subseteq Chunks /\ backoff \subseteq Chunks /\ delivering \subseteq Chunks
    BY <1>2 DEF TypeOK, InLines
  <2> QED BY <2>2, <2>3, <2>4 DEF Spot, Spots
<1>3. ASSUME TypeOK
      PROVE  \A j \in Jobs : OpenOf(j) = {c \in Chunks : /\ JobOf[c] = j /\ outcome[c] = "pending"
                                                         /\ ~Contains(ready[j], c)}
  <2>1. \A c \in Chunks : JobOf[c] \in Jobs
    BY ChunksAssumption
  <2>2. ASSUME NEW c \in Chunks PROVE Contains(ready[JobOf[c]], c) <=> c \in In(ready[JobOf[c]])
    <3>1. ready[JobOf[c]] \in Seq(Chunks)
      BY <1>3, <2>1 DEF TypeOK
    <3> QED BY <3>1 DEF Contains, In
  <2> QED BY <2>2 DEF OpenOf, Of, Spot, InLines
<1>4. ASSUME TypeOK'
      PROVE  \A j \in Jobs : OpenOf(j)' = {c \in Chunks : /\ JobOf[c] = j /\ outcome'[c] = "pending"
                                                          /\ ~Contains(ready'[j], c)}
  <2>1. \A c \in Chunks : JobOf[c] \in Jobs
    BY ChunksAssumption
  <2>2. ASSUME NEW c \in Chunks PROVE Contains(ready'[JobOf[c]], c) <=> c \in In(ready'[JobOf[c]])
    <3>1. ready'[JobOf[c]] \in Seq(Chunks)
      BY <1>4, <2>1 DEF TypeOK
    <3> QED BY <3>1 DEF Contains, In
  <2> QED BY <2>2 DEF OpenOf, Of, Spot, InLines
<1> QED BY <1>1, <1>2, <1>3, <1>4 DEF OpenCounts

\* Chunks that go from one place leave every chunk in one place.
LEMMA MovesApart ==
  ASSUME Apart, NEW P, NEW from, NEW to, Moves(P, from, to)
  PROVE  Apart'
<1>1. ASSUME NEW p \in Spots, NEW q \in Spots, p # q, NEW c, c \in Spot'[p], c \in Spot'[q] PROVE FALSE
  <2>1. /\ from \in Spots /\ from # to /\ P \subseteq Spot[from]
        /\ Spot'[p] = IF p = from THEN Spot[p] \ P ELSE IF p = to THEN Spot[p] \cup P ELSE Spot[p]
        /\ Spot'[q] = IF q = from THEN Spot[q] \ P ELSE IF q = to THEN Spot[q] \cup P ELSE Spot[q]
    BY DEF Moves
  <2>2. /\ c \in Spot[p] => c \notin Spot[q]
        /\ c \in Spot[p] /\ p # from => c \notin Spot[from]
        /\ c \in Spot[q] /\ q # from => c \notin Spot[from]
    BY <1>1, <2>1 DEF Apart
  <2> HIDE DEF Spot, Spots
  <2> QED BY <1>1, <2>1, <2>2
<1> QED BY <1>1, Zenon DEF Apart

\* They are known of as before, when those that go out of sight are counted or their job ended.
LEMMA MovesKnown ==
  ASSUME TypeOK, Apart, Known, NEW P, NEW from, NEW to, Moves(P, from, to),
         \A c \in Chunks : status'[JobOf[c]] = "running" => status[JobOf[c]] = "running",
         \A c \in Chunks : c \notin P \/ to # "none" => outcome'[c] = outcome[c],
         \A c \in P : to = "none" /\ status'[JobOf[c]] = "running" => outcome'[c] # "pending"
  PROVE  Known'
<1> HIDE DEF Spot, Spots
<1>0. /\ from \in Spots /\ from # to /\ P \subseteq Spot[from] /\ to \in Spots \cup {"none"}
      /\ \A p \in Spots :
           Spot'[p] = IF p = from THEN Spot[p] \ P ELSE IF p = to THEN Spot[p] \cup P ELSE Spot[p]
  BY DEF Moves
<1>3. "none" \notin Spots
  BY DEF Spots
<1>1. ASSUME NEW p \in Spots, NEW c \in Spot'[p] PROVE outcome'[c] = "pending"
  <2>1. CASE c \in P
    <3>1. c \in Spot[from] /\ c \in Chunks
      BY <1>0, <2>1, SpotsAre
    <3>2. outcome[c] = "pending"
      BY <1>0, <3>1 DEF Known
    <3>3. p # from
      BY <1>0, <1>1, <2>1
    <3>4. p = to
      BY <1>0, <1>1, <3>1, <3>3 DEF Apart
    <3> QED BY <1>3, <3>1, <3>2, <3>4
  <2>2. CASE c \notin P
    <3>1. c \in Spot[p] /\ c \in Chunks
      BY <1>0, <1>1, <2>2, SpotsAre
    <3> QED BY <2>2, <3>1 DEF Known
  <2> QED BY <2>1, <2>2
<1>2. ASSUME NEW c \in Chunks, status'[JobOf[c]] = "running", outcome'[c] = "pending"
      PROVE  \E p \in Spots : c \in Spot'[p]
  <2>1. CASE c \in P
    <3>1. to # "none"
      BY <1>2, <2>1
    <3>2. to \in Spots /\ c \in Spot'[to]
      BY <1>0, <2>1, <3>1
    <3> QED BY <3>2
  <2>2. CASE c \notin P
    <3>1. status[JobOf[c]] = "running" /\ outcome[c] = "pending"
      BY <1>2, <2>2
    <3>2. PICK p \in Spots : c \in Spot[p]
      BY <3>1 DEF Known
    <3>3. c \in Spot'[p]
      BY <1>0, <2>2, <3>2
    <3> QED BY <3>3
  <2> QED BY <2>1, <2>2
<1> QED BY <1>1, <1>2, Zenon DEF Known

\* How many chunks a finite set has without some of them, and with others.
LEMMA HowMany ==
  ASSUME NEW S, IsFiniteSet(S), NEW P, IsFiniteSet(P)
  PROVE  /\ Cardinality(P) \in Nat /\ Cardinality(S) \in Nat
         /\ P \subseteq S => Cardinality(S \ P) = Cardinality(S) - Cardinality(P)
         /\ P \cap S = {} => Cardinality(S \cup P) = Cardinality(S) + Cardinality(P)
<1>1. Cardinality(P) \in Nat /\ Cardinality(S) \in Nat
  BY FS_CardinalityType
<1>2. ASSUME P \subseteq S PROVE Cardinality(S \ P) = Cardinality(S) - Cardinality(P)
  <2>1. S \cap P = P
    BY <1>2
  <2> QED BY <2>1, FS_Difference
<1>3. ASSUME P \cap S = {} PROVE Cardinality(S \cup P) = Cardinality(S) + Cardinality(P)
  <2>1. Cardinality(S \cup P) = Cardinality(S) + Cardinality(P) - Cardinality(S \cap P)
    BY FS_Union
  <2>2. Cardinality(S \cap P) = 0
    BY <1>3, FS_EmptySet
  <2> QED BY <1>1, <2>1, <2>2
<1> QED BY <1>1, <1>2, <1>3

\* The open chunks of a job are those there were, but for the ones that go out of its line, are
\* counted or come back in line.
LEMMA OpenMoves ==
  ASSUME TypeOK, Apart, Known, NEW P, NEW from, NEW to, Moves(P, from, to),
         NEW j \in Jobs, status'[j] = "running",
         \A c \in Chunks : c \notin P \/ to # "none" => outcome'[c] = outcome[c],
         \A c \in P : to = "none" /\ status'[JobOf[c]] = "running" => outcome'[c] # "pending"
  PROVE  OpenOf(j)' = IF from = "line" THEN IF to = "none" THEN OpenOf(j) ELSE OpenOf(j) \cup (P \cap Of(j))
                      ELSE IF to \in {"line", "none"} THEN OpenOf(j) \ P ELSE OpenOf(j)
<1>0. /\ from \in Spots /\ from # to /\ P \subseteq Spot[from] /\ to \in Spots \cup {"none"}
      /\ Spot'["line"] = IF "line" = from THEN Spot["line"] \ P
                         ELSE IF "line" = to THEN Spot["line"] \cup P ELSE Spot["line"]
      /\ "line" \in Spots
  BY DEF Moves, Spots
<1>1. P \subseteq Chunks
  BY <1>0, SpotsAre
<1>2. \A c \in P : outcome[c] = "pending"
  BY <1>0 DEF Known
<1>3. from # "line" => P \cap Spot["line"] = {}
  BY <1>0 DEF Apart
<1>4. /\ OpenOf(j) = {c \in Of(j) : outcome[c] = "pending" /\ c \notin Spot["line"]}
      /\ OpenOf(j)' = {c \in Of(j) : outcome'[c] = "pending" /\ c \notin Spot'["line"]}
  BY DEF OpenOf, Of, Spot
<1>5. Of(j) \subseteq Chunks /\ \A c \in Of(j) : JobOf[c] = j
  BY DEF Of
<1> HIDE DEF Spot, Spots
<1>6. CASE to = "none"
  <2>1. \A c \in P \cap Of(j) : outcome'[c] # "pending"
    BY <1>5, <1>6
  <2>2. CASE from = "line"
    BY <1>0, <1>1, <1>4, <1>5, <1>6, <2>1, <2>2
  <2>3. CASE from # "line"
    BY <1>0, <1>1, <1>3, <1>4, <1>5, <1>6, <2>1, <2>3
  <2> QED BY <2>2, <2>3
<1>7. CASE to # "none"
  <2>1. \A c \in Of(j) : outcome'[c] = outcome[c]
    BY <1>5, <1>7
  <2>2. CASE from = "line"
    BY <1>0, <1>1, <1>2, <1>4, <1>5, <1>7, <2>1, <2>2
  <2>3. CASE from # "line"
    BY <1>0, <1>1, <1>3, <1>4, <1>5, <1>7, <2>1, <2>3
  <2> QED BY <2>2, <2>3
<1> QED BY <1>6, <1>7

\* What a step has to do with chunks of a job to keep every chunk in one place, and the count of
\* those that are open.
LEMMA MovesKeep ==
  ASSUME TypeOK, TypeOK', Placed, NEW k \in Jobs, NEW P \in SUBSET Of(k), NEW from, NEW to, Moves(P, from, to),
         \A i \in Jobs : i # k => status'[i] = status[i] /\ open'[i] = open[i],
         status'[k] = "running" => status[k] = "running" /\ open'[k] = open[k] + Change(P, from, to),
         \A c \in Chunks : c \notin P \/ to # "none" => outcome'[c] = outcome[c],
         to = "none" /\ status'[k] = "running" => \A c \in P : outcome'[c] # "pending"
  PROVE  Placed'
<1>1. Apart /\ Known /\ OpenCounts
  BY DEF Placed
<1>2. \A c \in P : to = "none" /\ status'[JobOf[c]] = "running" => outcome'[c] # "pending"
  BY DEF Of
<1>3. \A c \in Chunks : status'[JobOf[c]] = "running" => status[JobOf[c]] = "running"
  BY ChunksAssumption
<1>4. Apart' /\ Known'
  BY <1>1, <1>2, <1>3, MovesApart, MovesKnown
<1>5. ASSUME NEW j \in Jobs, status'[j] = "running" PROVE open'[j] = Cardinality(OpenOf(j)')
  <2>1. status[j] = "running" /\ open[j] = Cardinality(OpenOf(j))
    BY <1>1, <1>5, SpotsAre
  <2>2. OpenOf(j)' = IF from = "line" THEN IF to = "none" THEN OpenOf(j) ELSE OpenOf(j) \cup (P \cap Of(j))
                     ELSE IF to \in {"line", "none"} THEN OpenOf(j) \ P ELSE OpenOf(j)
    BY <1>1, <1>2, <1>5, OpenMoves
  <2>3. from \in Spots /\ "line" \in Spots /\ P \subseteq Spot[from]
    BY DEF Moves, Spots
  <2> HIDE DEF Spot, Spots
  <2>4. CASE j # k
    <3>1. P \cap Of(j) = {} /\ open'[j] = open[j]
      BY <2>4 DEF Of
    <3>2. OpenOf(j) \subseteq Of(j)
      BY DEF OpenOf
    <3>3. OpenOf(j)' = OpenOf(j)
      BY <2>2, <3>1, <3>2
    <3> QED BY <2>1, <3>1, <3>3
  <2>5. CASE j = k
    <3>1. open'[j] = open[j] + Change(P, from, to)
      BY <1>5, <2>5
    <3>2. IsFiniteSet(OpenOf(j)) /\ IsFiniteSet(P) /\ P \cap Of(j) = P
      BY <2>5, SpotsAre, FS_Subset DEF OpenOf
    <3>3. Cardinality(P) \in Nat /\ Cardinality(OpenOf(j)) \in Nat
      BY <3>2, FS_CardinalityType
    <3>4. CASE from = "line" /\ to # "none"
      <4>1. P \cap OpenOf(j) = {}
        BY <2>3, <3>4 DEF OpenOf
      <4>2. Cardinality(OpenOf(j) \cup P) = Cardinality(OpenOf(j)) + Cardinality(P)
        BY <3>2, <4>1, HowMany
      <4>3. OpenOf(j)' = OpenOf(j) \cup P /\ Change(P, from, to) = Cardinality(P)
        BY <2>2, <3>2, <3>4 DEF Change
      <4> QED BY <2>1, <3>1, <4>2, <4>3
    <3>5. CASE from # "line" /\ to \in {"line", "none"}
      <4>1. P \subseteq OpenOf(j)
        <5>1. \A c \in P : outcome[c] = "pending" /\ c \notin Spot["line"]
          BY <1>1, <2>3, <3>5 DEF Known, Apart
        <5> QED BY <2>5, <5>1 DEF OpenOf
      <4>2. Cardinality(OpenOf(j) \ P) = Cardinality(OpenOf(j)) - Cardinality(P)
        BY <3>2, <4>1, HowMany
      <4>3. OpenOf(j)' = OpenOf(j) \ P /\ Change(P, from, to) = 0 - Cardinality(P)
        BY <2>2, <3>5 DEF Change
      <4>4. open'[j] = Cardinality(OpenOf(j)) + (0 - Cardinality(P))
        BY <2>1, <3>1, <4>3
      <4>5. open'[j] = Cardinality(OpenOf(j)) - Cardinality(P)
        BY ONLY <3>3, <4>4
      <4> QED BY <4>2, <4>3, <4>5
    <3>6. CASE ~(from = "line" /\ to # "none") /\ ~(from # "line" /\ to \in {"line", "none"})
      <4>1. OpenOf(j)' = OpenOf(j) /\ Change(P, from, to) = 0
        BY <2>2, <3>6 DEF Change
      <4>2. open'[j] = Cardinality(OpenOf(j)) + 0
        BY <2>1, <3>1, <4>1
      <4>3. open'[j] = Cardinality(OpenOf(j))
        BY ONLY <3>3, <4>2
      <4> QED BY <4>1, <4>3
    <3> QED BY <3>4, <3>5, <3>6
  <2> QED BY <2>4, <2>5
<1>6. OpenCounts'
  BY <1>5, SpotsAre
<1> QED BY <1>4, <1>6 DEF Placed

\* The line of a job is replaced by another with chunks of the job.
LEMMA OneLine ==
  ASSUME NEW lines \in [Jobs -> Seq(Chunks)], Lined(lines), NEW j \in Jobs,
         NEW s \in Seq(Chunks), Once(s), In(s) \subseteq Of(j)
  PROVE  LET other == [lines EXCEPT ![j] = s]
         IN  /\ Lined(other)
             /\ In(lines[j]) \subseteq InLines(lines)
             /\ InLines(other) = (InLines(lines) \ In(lines[j])) \cup In(s)
<1> DEFINE other == [lines EXCEPT ![j] = s]
<1>1. other[j] = s /\ \A i \in Jobs : i # j => other[i] = lines[i]
  OBVIOUS
<1> HIDE DEF other
<1>2. Lined(other)
  <2> SUFFICES ASSUME NEW i \in Jobs PROVE Once(other[i]) /\ In(other[i]) \subseteq Of(i)
    BY DEF Lined
  <2>1. CASE i = j
    BY <1>1, <2>1
  <2>2. CASE i # j
    BY <1>1, <2>2 DEF Lined
  <2> QED BY <2>1, <2>2
<1>3. In(lines[j]) \subseteq Of(j)
  BY DEF Lined
<1>4. In(lines[j]) \subseteq InLines(lines)
  BY <1>3 DEF InLines, Of
<1>5. InLines(other) = (InLines(lines) \ In(lines[j])) \cup In(s)
  <2>1. \A c \in Chunks : JobOf[c] \in Jobs
    BY ChunksAssumption
  <2>2. ASSUME NEW c \in Chunks, JobOf[c] = j
        PROVE  c \in InLines(other) <=> c \in (InLines(lines) \ In(lines[j])) \cup In(s)
    BY <1>1, <2>2 DEF InLines
  <2>3. ASSUME NEW c \in Chunks, JobOf[c] # j
        PROVE  c \in InLines(other) <=> c \in (InLines(lines) \ In(lines[j])) \cup In(s)
    <3>1. c \notin In(s) /\ c \notin In(lines[j])
      BY <1>3, <2>3 DEF Of
    <3>2. other[JobOf[c]] = lines[JobOf[c]]
      BY <1>1, <2>1, <2>3
    <3> QED BY <3>1, <3>2 DEF InLines
  <2>4. In(s) \subseteq Chunks /\ InLines(other) \subseteq Chunks /\ InLines(lines) \subseteq Chunks
    BY DEF Of, InLines
  <2> QED BY <2>2, <2>3, <2>4
<1> QED BY <1>2, <1>4, <1>5 DEF other

\* A task among others has chunks of its own.
LEMMA OneLoad ==
  ASSUME NEW one, NEW other, NEW l, l \notin DOMAIN one, DOMAIN other = DOMAIN one \cup {l},
         \A k \in DOMAIN one : other[k].left = one[k].left /\ other[k].head = one[k].head
  PROVE  /\ InTasks(other) = InTasks(one) \cup In(other[l].left)
         /\ Loaded(one) /\ Once(other[l].left) /\ In(other[l].left) \subseteq Of(JobOf[other[l].head])
            /\ InTasks(one) \cap In(other[l].left) = {} => Loaded(other)
         /\ Loaded(other) => Loaded(one) /\ InTasks(one) = InTasks(other) \ In(other[l].left)
<1>1. InTasks(other) = InTasks(one) \cup In(other[l].left)
  BY DEF InTasks
<1>2. ASSUME Loaded(one), Once(other[l].left), In(other[l].left) \subseteq Of(JobOf[other[l].head]),
             InTasks(one) \cap In(other[l].left) = {}
      PROVE  Loaded(other)
  <2>1. ASSUME NEW k \in DOMAIN other
        PROVE  Once(other[k].left) /\ In(other[k].left) \subseteq Of(JobOf[other[k].head])
    BY <1>2 DEF Loaded
  <2>2. ASSUME NEW k \in DOMAIN one PROVE In(other[k].left) \cap In(other[l].left) = {}
    BY <1>2 DEF InTasks
  <2>3. ASSUME NEW k \in DOMAIN other, NEW m \in DOMAIN other, k # m
        PROVE  In(other[k].left) \cap In(other[m].left) = {}
    <3>1. CASE k = l \/ m = l
      BY <2>2, <2>3, <3>1
    <3>2. CASE k \in DOMAIN one /\ m \in DOMAIN one
      BY <1>2, <2>3, <3>2 DEF Loaded
    <3> QED BY <3>1, <3>2
  <2> QED BY <2>1, <2>3 DEF Loaded
<1>3. ASSUME Loaded(other) PROVE Loaded(one) /\ InTasks(one) = InTasks(other) \ In(other[l].left)
  <2>1. Loaded(one)
    BY <1>3 DEF Loaded
  <2>2. \A k \in DOMAIN one : In(one[k].left) \cap In(other[l].left) = {}
    BY <1>3 DEF Loaded
  <2>3. InTasks(one) \cap In(other[l].left) = {}
    BY <2>2 DEF InTasks
  <2> QED BY <1>1, <2>1, <2>3
<1> QED BY <1>1, <1>2, <1>3

\* Tasks with the same chunks.
LEMMA SameLoad ==
  ASSUME NEW one, NEW other, DOMAIN other = DOMAIN one,
         \A k \in DOMAIN one : other[k].left = one[k].left /\ other[k].head = one[k].head
  PROVE  InTasks(other) = InTasks(one) /\ (Loaded(one) => Loaded(other))
BY DEF InTasks, Loaded

\* A task without one of its chunks.
LEMMA LessLoad ==
  ASSUME NEW one, NEW other, Loaded(one), DOMAIN other = DOMAIN one, NEW l \in DOMAIN one, NEW c,
         \A k \in DOMAIN one : other[k].head = one[k].head /\ (k # l => other[k].left = one[k].left),
         c \in In(one[l].left), Once(other[l].left), In(other[l].left) = In(one[l].left) \ {c}
  PROVE  InTasks(other) = InTasks(one) \ {c} /\ Loaded(other)
<1>1. \A k \in DOMAIN one : k # l => c \notin In(one[k].left)
  BY DEF Loaded
<1>2. \A k \in DOMAIN one : In(other[k].left) = In(one[k].left) \ {c}
  BY <1>1
<1>3. InTasks(other) = InTasks(one) \ {c}
  BY <1>2 DEF InTasks
<1>4. \A k \in DOMAIN one : Once(other[k].left) /\ In(other[k].left) \subseteq Of(JobOf[other[k].head])
  BY <1>2 DEF Loaded
<1>5. \A k, m \in DOMAIN one : k # m => In(other[k].left) \cap In(other[m].left) = {}
  BY <1>2 DEF Loaded
<1> QED BY <1>3, <1>4, <1>5 DEF Loaded

\* What counting a chunk of a job does.
LEMMA SettleDoes ==
  ASSUME TypeOK, NEW c \in Chunks, NEW what \in {"done", "failed"}, Settle(c, what)
  PROVE  LET k == JobOf[c]
         IN  /\ \A i \in Jobs : i # k => status'[i] = status[i] /\ open'[i] = open[i]
             /\ status'[k] = "running" => status[k] = "running"
             /\ open'[k] = open[k] - 1
             /\ \A d \in Chunks : d # c => outcome'[d] = outcome[d]
             /\ outcome'[c] # "pending"
             /\ status'[k] # status[k] => open[k] - 1 = 0
<1> DEFINE k == JobOf[c]
<1>1. k \in Jobs
  BY ChunksAssumption
<1>2. /\ open' = [open EXCEPT ![k] = @ - 1] /\ outcome' = [outcome EXCEPT ![c] = what]
      /\ \E e \in Ended : status' = [status EXCEPT ![k] = IF ready[k] # <<>> \/ open[k] - 1 # 0 THEN @ ELSE e]
  BY DEF Settle, FinishIfOver, Ended
<1> HIDE DEF k
<1>3. \A d \in Chunks : d # c => outcome'[d] = outcome[d]
  BY <1>2 DEF TypeOK
<1>4. outcome'[c] # "pending"
  BY <1>2 DEF TypeOK
<1>5. open'[k] = open[k] - 1 /\ \A i \in Jobs : i # k => open'[i] = open[i]
  BY <1>1, <1>2 DEF TypeOK
<1>6. PICK e \in Ended : status' = [status EXCEPT ![k] = IF ready[k] # <<>> \/ open[k] - 1 # 0 THEN @ ELSE e]
  BY <1>2
<1>7. e # "running"
  BY DEF Ended
<1>8. status'[k] = (IF ready[k] # <<>> \/ open[k] - 1 # 0 THEN status[k] ELSE e) /\ \A i \in Jobs : i # k => status'[i] = status[i]
  BY <1>1, <1>6 DEF TypeOK
<1> QED BY <1>3, <1>4, <1>5, <1>7, <1>8 DEF k

\* Where a chunk goes that came back, and what is done of its job when it is counted.
LEMMA EndedGoes ==
  ASSUME TypeOK, NEW c \in Chunks, NEW s, NEW wasAlone, NEW wasDoomed, ChunkEnded(c, s, wasAlone, wasDoomed)
  PROVE  \E to \in {"suspects", "backoff", "delivering", "none"} :
           /\ suspects' = IF to = "suspects" THEN Append(suspects, c) ELSE suspects
           /\ backoff' = IF to = "backoff" THEN backoff \cup {c} ELSE backoff
           /\ delivering' = IF to = "delivering" THEN delivering \cup {c} ELSE delivering
           /\ IF to = "none" THEN Settle(c, "failed") ELSE UNCHANGED <<status, open, outcome>>
<1>1. CASE AttemptFailed(c) /\ UNCHANGED <<delivering, suspects>>
  <2>1. CASE RunsAgain(c)
    BY <1>1, <2>1 DEF AttemptFailed
  <2>2. CASE ~RunsAgain(c)
    BY <1>1, <2>2 DEF AttemptFailed
  <2> QED BY <2>1, <2>2
<1>2. CASE delivering' = delivering \cup {c} /\ UNCHANGED <<verdicts, suspects>>
  BY <1>2 DEF verdicts
<1>3. CASE suspects' = Append(suspects, c) /\ UNCHANGED <<verdicts, delivering>>
  BY <1>3 DEF verdicts
<1> QED BY <1>1, <1>2, <1>3 DEF ChunkEnded

-----------------------------------------------------------------------------
(* What each step does with the chunks *)

\* Nothing is in a line without chunks.
LEMMA NothingIn ==
  In(<<>>) = {} /\ Once(<<>>)
BY DEF In, Once

\* The tasks after one was launched.
LEMMA LaunchLoads ==
  ASSUME TypeOK, Loaded(flying), Inflight < Capacity,
         NEW k, NEW members \in Seq(Chunks), members # <<>>, Once(members), In(members) \subseteq Of(k),
         InTasks(flying) \cap In(members) = {},
         NEW packed \in BOOLEAN, NEW byItself \in BOOLEAN, Launch(members, packed, byItself)
  PROVE  Loaded(flying') /\ InTasks(flying') = InTasks(flying) \cup In(members)
<1>1. /\ DOMAIN flying' = DOMAIN flying \cup {NextLane} /\ NextLane \notin DOMAIN flying
      /\ \A l \in DOMAIN flying : flying'[l] = flying[l]
  BY LaunchType, NextLaneFree
<1>2. flying'[NextLane].left = members /\ flying'[NextLane].head = Head(members)
  BY DEF Launch
<1>3. Head(members) \in In(members)
  BY HeadGoes
<1>4. In(members) \subseteq Of(JobOf[Head(members)])
  BY <1>3 DEF Of
<1> QED BY <1>1, <1>2, <1>4, OneLoad

\* `_start_one`
LEMMA StartTaskKeeps ==
  ASSUME TypeOK, TypeOK', Kept, NEW j \in Jobs, StartTask(j)
  PROVE  Kept'
<1>1. PICK n \in 1 .. Batch :
        /\ Packs(j, n) /\ Launch(SubSeq(ready[j], 1, n), n > 1 \/ Batched, FALSE)
        /\ ready' = [ready EXCEPT ![j] = SubSeq(@, n + 1, Len(@))]
        /\ open' = [open EXCEPT ![j] = @ + n]
  BY DEF StartTask
<1>2. PICK line \in Seq(Chunks) : line = ready[j]
  BY DEF TypeOK
<1>3. n \in Nat /\ n > 0 /\ n <= Len(line)
  <2>1. n \in Nat /\ n > 0
    BY ChunksAssumption
  <2> QED BY <1>1, <1>2, <2>1 DEF Packs
<1> DEFINE members == SubSeq(line, 1, n)
           rest == SubSeq(line, n + 1, Len(line))
<1>4. Once(line) /\ In(line) \subseteq Of(j) /\ Lined(ready) /\ Loaded(flying) /\ ready \in [Jobs -> Seq(Chunks)]
  BY <1>2 DEF Kept, Lines, Lined, TypeOK
<1>5. n \in 0 .. Len(line)
  BY <1>3
<1>6. /\ members \in Seq(Chunks) /\ Once(members) /\ Len(members) = n
      /\ rest \in Seq(Chunks) /\ Once(rest)
      /\ In(line) = In(members) \cup In(rest) /\ In(members) \cap In(rest) = {}
  BY <1>4, <1>5, TakeAndDrop
<1>7. /\ Launch(members, n > 1 \/ Batched, FALSE) /\ ready' = [ready EXCEPT ![j] = rest]
      /\ open'[j] = open[j] + n /\ \A i \in Jobs : i # j => open'[i] = open[i]
  BY <1>1, <1>2 DEF TypeOK
<1> HIDE DEF members, rest
<1>8. members # <<>>
  BY <1>3, <1>6
<1>9. Cardinality(In(members)) = n
  BY <1>6, AsManyAsLong
<1>10. In(members) \subseteq Of(j) /\ In(rest) \subseteq Of(j)
  BY <1>4, <1>6
<1>11. /\ Lined(ready') /\ In(line) \subseteq InLines(ready)
       /\ InLines(ready') = (InLines(ready) \ In(line)) \cup In(rest)
  BY <1>2, <1>4, <1>6, <1>7, <1>10, OneLine
<1>12. InLines(ready') = InLines(ready) \ In(members) /\ In(members) \subseteq InLines(ready)
  BY <1>6, <1>11
<1>13. InTasks(flying) \cap In(members) = {}
  <2>1. Spot["line"] \cap Spot["flying"] = {}
    BY DEF Kept, Placed, Apart, Spots
  <2> QED BY <1>12, <2>1 DEF Spot
<1>14. Inflight < Capacity /\ (n > 1 \/ Batched) \in BOOLEAN
  BY ChunksAssumption DEF StartTask, SlotOpen
<1>15. Loaded(flying') /\ InTasks(flying') = InTasks(flying) \cup In(members)
  BY <1>4, <1>6, <1>7, <1>8, <1>10, <1>13, <1>14, LaunchLoads
<1>16. UNCHANGED <<status, suspects, backoff, delivering, outcome, ending>>
  BY DEF StartTask
<1>17. Moves(In(members), "line", "flying")
  BY <1>12, <1>15, <1>16 DEF Moves, Spots, Spot
<1>18. Change(In(members), "line", "flying") = n
  BY <1>9 DEF Change
<1>19. Placed'
  BY <1>7, <1>10, <1>16, <1>17, <1>18, MovesKeep DEF Kept
<1> QED BY <1>11, <1>15, <1>16, <1>19 DEF Kept, Lines, ToldOfRunning

\* `_start_one`, for a chunk that needs more than there is
LEMMA RefuseChunkKeeps ==
  ASSUME TypeOK, TypeOK', Kept, NEW j \in Jobs, RefuseChunk(j)
  PROVE  Kept'
<1>1. PICK line \in Seq(Chunks) : line = ready[j]
  BY DEF TypeOK
<1>2. line # <<>>
  BY <1>1 DEF RefuseChunk
<1>3. Once(line) /\ In(line) \subseteq Of(j) /\ Lined(ready) /\ ready \in [Jobs -> Seq(Chunks)]
  BY <1>1 DEF Kept, Lines, Lined, TypeOK
<1>4. PICK c \in Chunks : c = Head(line)
  BY <1>2
<1>5. /\ c \in In(line) /\ Tail(line) \in Seq(Chunks) /\ Once(Tail(line)) /\ In(Tail(line)) = In(line) \ {c}
  BY <1>2, <1>3, <1>4, HeadGoes
<1>6. ready' = [ready EXCEPT ![j] = Tail(line)] /\ outcome' = [outcome EXCEPT ![c] = "failed"]
  BY <1>1, <1>4 DEF RefuseChunk
<1>7. /\ Lined(ready') /\ In(line) \subseteq InLines(ready)
      /\ InLines(ready') = (InLines(ready) \ In(line)) \cup In(Tail(line))
  <2>1. PICK s \in Seq(Chunks) : s = Tail(line)
    BY <1>5
  <2>2. Once(s) /\ In(s) \subseteq Of(j) /\ ready' = [ready EXCEPT ![j] = s]
    BY <1>3, <1>5, <1>6, <2>1
  <2>3. /\ Lined(ready') /\ In(ready[j]) \subseteq InLines(ready)
        /\ InLines(ready') = (InLines(ready) \ In(ready[j])) \cup In(s)
    BY <1>3, <2>2, OneLine
  <2> QED BY <1>1, <2>1, <2>3
<1>8. InLines(ready') = InLines(ready) \ {c} /\ c \in InLines(ready) /\ c \in Of(j)
  BY <1>3, <1>5, <1>7
<1>9. UNCHANGED <<open, flying, suspects, backoff, delivering, ending>> /\ ending = <<>> /\ status[j] = "running"
  BY DEF RefuseChunk, LoopFree
<1>10. Moves({c}, "line", "none")
  BY <1>8, <1>9 DEF Moves, Spots, Spot
<1>11. \A i \in Jobs : i # j => status'[i] = status[i]
  BY DEF RefuseChunk, FinishIfOver, TypeOK
<1>12. outcome'[c] = "failed" /\ \A d \in Chunks : d # c => outcome'[d] = outcome[d]
  BY <1>6 DEF TypeOK
<1>13. open \in [Jobs -> Int]
  BY DEF TypeOK
<1>14. open'[j] = open[j] + Change({c}, "line", "none")
  BY <1>9, <1>13 DEF Change
<1>15. Placed'
  <2>1. PICK P \in SUBSET Of(j) : P = {c}
    BY <1>8
  <2>2. Moves(P, "line", "none") /\ open'[j] = open[j] + Change(P, "line", "none")
    BY <1>10, <1>14, <2>1
  <2>3. \A i \in Jobs : i # j => status'[i] = status[i] /\ open'[i] = open[i]
    BY <1>9, <1>11
  <2>4. (\A d \in Chunks : d \notin P => outcome'[d] = outcome[d]) /\ \A d \in P : outcome'[d] # "pending"
    BY <1>12, <2>1
  <2>5. Placed /\ status[j] = "running"
    BY <1>9 DEF Kept
  <2> QED BY <2>2, <2>3, <2>4, <2>5, MovesKeep
<1> QED BY <1>7, <1>9, <1>15, NothingIn DEF Kept, Lines, ToldOfRunning

\* `_retry_suspect`
LEMMA RetrySuspectKeeps ==
  ASSUME TypeOK, TypeOK', Kept, RetrySuspect
  PROVE  Kept'
<1>1. /\ suspects \in Seq(Chunks) /\ suspects # <<>> /\ Once(suspects) /\ Lined(ready) /\ Loaded(flying)
      /\ DOMAIN flying = {} /\ suspects' = Tail(suspects)
  BY DEF RetrySuspect, TypeOK, Kept, Lines
<1>2. PICK c \in Chunks : c = Head(suspects)
  BY <1>1
<1>3. c \in In(suspects) /\ Once(suspects') /\ In(suspects') = In(suspects) \ {c}
  BY <1>1, <1>2, HeadGoes
<1>4. Launch(<<c>>, Batched, TRUE) /\ Batched \in BOOLEAN
  BY <1>2, ChunksAssumption DEF RetrySuspect
<1>5. <<c>> \in Seq(Chunks) /\ <<c>> # <<>> /\ Once(<<c>>) /\ In(<<c>>) = {c}
  BY DEF Once, In
<1>6. In(<<c>>) \subseteq Of(JobOf[c]) /\ JobOf[c] \in Jobs
  BY <1>5, ChunksAssumption DEF Of
<1>7. InTasks(flying) = {}
  BY <1>1 DEF InTasks
<1>8. Inflight < Capacity
  BY <1>1, NoneInflight
<1>9. Loaded(flying') /\ InTasks(flying') = InTasks(flying) \cup {c}
  BY <1>1, <1>4, <1>5, <1>6, <1>7, <1>8, LaunchLoads
<1>10. UNCHANGED <<status, open, outcome, backoff, ready, delivering, ending>> /\ ending = <<>>
  BY DEF RetrySuspect, verdicts, LoopFree
<1>11. Moves({c}, "suspects", "flying")
  BY <1>3, <1>9, <1>10 DEF Moves, Spots, Spot
<1>12. open[JobOf[c]] \in Int
  BY <1>6 DEF TypeOK
<1>13. open'[JobOf[c]] = open[JobOf[c]] + Change({c}, "suspects", "flying")
  BY <1>10, <1>12 DEF Change
<1>14. Placed'
  BY <1>5, <1>6, <1>10, <1>11, <1>13, MovesKeep DEF Kept
<1> QED BY <1>1, <1>3, <1>9, <1>10, <1>14, NothingIn DEF Kept, Lines, ToldOfRunning

\* `_retry_suspect`, for a suspect whose job was stopped
LEMMA DropSuspectKeeps ==
  ASSUME TypeOK, TypeOK', Kept, DropSuspect
  PROVE  Kept'
<1>1. /\ suspects \in Seq(Chunks) /\ suspects # <<>> /\ Once(suspects) /\ suspects' = Tail(suspects)
      /\ status[JobOf[Head(suspects)]] # "running"
  BY DEF DropSuspect, TypeOK, Kept, Lines
<1>2. PICK c \in Chunks : c = Head(suspects)
  BY <1>1
<1>3. c \in In(suspects) /\ Once(suspects') /\ In(suspects') = In(suspects) \ {c}
  BY <1>1, <1>2, HeadGoes
<1>4. JobOf[c] \in Jobs /\ {c} \subseteq Of(JobOf[c])
  BY ChunksAssumption DEF Of
<1>5. UNCHANGED <<status, open, outcome, backoff, ready, flying, delivering, ending>> /\ ending = <<>>
  BY DEF DropSuspect, verdicts, LoopFree
<1>6. Moves({c}, "suspects", "none")
  BY <1>3, <1>5 DEF Moves, Spots, Spot
<1>7. Placed'
  BY <1>1, <1>2, <1>4, <1>5, <1>6, MovesKeep DEF Kept
<1> QED BY <1>3, <1>5, <1>7, NothingIn DEF Kept, Lines, ToldOfRunning

\* `_on_done`
LEMMA TaskDoneKeeps ==
  ASSUME TypeOK, TypeOK', Kept, NEW l \in DOMAIN flying, NEW s \in Ways, TaskDone(l, s)
  PROVE  Kept'
<1>1. PICK j \in Jobs : j = JobOf[flying[l].head]
  BY ChunksAssumption DEF TypeOK, Task
<1>2. PICK left \in Seq(Chunks) : left = flying[l].left
  BY DEF TypeOK, Task
<1>3. Lined(ready) /\ Loaded(flying) /\ Once(suspects) /\ Placed /\ Once(left) /\ In(left) \subseteq Of(j)
  BY <1>1, <1>2 DEF Kept, Lines, Loaded
<1>4. /\ DOMAIN flying = DOMAIN flying' \cup {l} /\ l \notin DOMAIN flying'
      /\ \A k \in DOMAIN flying' : flying[k].left = flying'[k].left /\ flying[k].head = flying'[k].head
  BY DEF TaskDone
<1>5. Loaded(flying') /\ InTasks(flying') = InTasks(flying) \ In(left) /\ In(left) \subseteq InTasks(flying)
  BY <1>2, <1>3, <1>4, OneLoad
<1>6. UNCHANGED <<status, suspects, backoff, delivering, outcome>> /\ ending = <<>>
  BY DEF TaskDone, LoopFree
<1>7. open \in [Jobs -> Int] /\ ready \in [Jobs -> Seq(Chunks)] /\ ready[j] \in Seq(Chunks)
  BY DEF TypeOK
<1>8. CASE status[j] # "running" /\ UNCHANGED <<ready, open, ending>>
  <2>1. Moves(In(left), "flying", "none")
    BY <1>5, <1>6, <1>8 DEF Moves, Spots, Spot
  <2>2. Placed'
    BY <1>3, <1>6, <1>8, <2>1, MovesKeep
  <2> QED BY <1>3, <1>5, <1>6, <1>8, <2>2, NothingIn DEF Kept, Lines, ToldOfRunning
<1>9. CASE /\ status[j] = "running"
           /\ ready' = [ready EXCEPT ![j] = left \o @] /\ open' = [open EXCEPT ![j] = @ - Len(left)]
           /\ UNCHANGED ending
  <2>1. Once(ready[j]) /\ In(ready[j]) \subseteq Of(j)
    BY <1>3 DEF Lined
  <2>2. In(ready[j]) \subseteq InLines(ready)
    BY <2>1 DEF InLines, Of
  <2>3. InLines(ready) \cap InTasks(flying) = {}
    <3>1. Spot["line"] \cap Spot["flying"] = {}
      BY <1>3 DEF Placed, Apart, Spots
    <3> QED BY <3>1 DEF Spot
  <2>4. In(left) \cap In(ready[j]) = {}
    BY <1>5, <2>2, <2>3
  <2>5. PICK line \in Seq(Chunks) : line = left \o ready[j]
    <3>1. PICK r \in Seq(Chunks) : r = ready[j]
      BY <1>7
    <3>2. left \o r \in Seq(Chunks)
      BY ConcatProperties
    <3> QED BY <3>1, <3>2
  <2>6. Once(line) /\ In(line) = In(left) \cup In(ready[j])
    BY <1>3, <1>7, <2>1, <2>4, <2>5, OneBeforeOther
  <2>7. In(line) \subseteq Of(j) /\ ready' = [ready EXCEPT ![j] = line]
    BY <1>3, <1>9, <2>1, <2>5, <2>6
  <2>8. Lined(ready') /\ InLines(ready') = (InLines(ready) \ In(ready[j])) \cup In(line)
    BY <1>3, <1>7, <2>6, <2>7, OneLine
  <2>9. InLines(ready') = InLines(ready) \cup In(left)
    BY <2>2, <2>6, <2>8
  <2>10. Moves(In(left), "flying", "line")
    <3>1. /\ Spot' = [line |-> InLines(ready) \cup In(left), suspects |-> In(suspects), ending |-> In(ending),
                      flying |-> InTasks(flying) \ In(left), backoff |-> backoff, delivering |-> delivering]
      BY <1>5, <1>6, <1>9, <2>9 DEF Spot
    <3> QED BY <1>5, <3>1 DEF Moves, Spots, Spot
  <2>11. Cardinality(In(left)) = Len(left) /\ Len(left) \in Nat
    BY <1>3, AsManyAsLong
  <2>12. open'[j] = open[j] - Len(left) /\ \A i \in Jobs : i # j => open'[i] = open[i]
    BY <1>7, <1>9
  <2>13. Change(In(left), "flying", "line") = 0 - Len(left)
    BY <2>11 DEF Change
  <2>14. open[j] - Len(left) = open[j] + (0 - Len(left))
    BY <1>7, <2>11
  <2>15. open'[j] = open[j] + Change(In(left), "flying", "line")
    BY <2>12, <2>13, <2>14
  <2>16. Placed'
    <3>1. In(left) \in SUBSET Of(j)
      BY <1>3
    <3>2. \A i \in Jobs : i # j => status'[i] = status[i] /\ open'[i] = open[i]
      BY <1>6, <2>12
    <3>3. \A c \in Chunks : outcome'[c] = outcome[c]
      BY <1>6
    <3> QED BY <1>3, <1>9, <2>10, <2>15, <3>1, <3>2, <3>3, MovesKeep
  <2> QED BY <1>3, <1>5, <1>6, <1>9, <2>8, <2>16, NothingIn DEF Kept, Lines, ToldOfRunning
<1>10. CASE status[j] = "running" /\ ending' = left /\ UNCHANGED <<ready, open>>
  <2>1. In(ending) = {}
    BY <1>6, NothingIn
  <2>2. Moves(In(left), "flying", "ending")
    BY <1>5, <1>6, <1>10, <2>1 DEF Moves, Spots, Spot
  <2>3. open'[j] = open[j] + Change(In(left), "flying", "ending")
    BY <1>7, <1>10 DEF Change
  <2>4. Placed'
    <3>1. In(left) \in SUBSET Of(j)
      BY <1>3
    <3>2. \A i \in Jobs : i # j => status'[i] = status[i] /\ open'[i] = open[i]
      BY <1>6, <1>10
    <3>3. \A c \in Chunks : outcome'[c] = outcome[c]
      BY <1>6
    <3> QED BY <1>3, <1>10, <2>2, <2>3, <3>1, <3>2, <3>3, MovesKeep
  <2>5. ToldOfRunning'
    BY <1>3, <1>6, <1>10 DEF ToldOfRunning, Of
  <2> QED BY <1>3, <1>5, <1>6, <1>10, <2>4, <2>5 DEF Kept, Lines
<1> QED BY <1>1, <1>2, <1>8, <1>9, <1>10 DEF TaskDone

\* A chunk that came back goes on from the place it was told of, out of the others.
LEMMA EndedKeeps ==
  ASSUME TypeOK, TypeOK', Kept, NEW c \in Chunks, NEW s, NEW wasAlone, NEW wasDoomed,
         ChunkEnded(c, s, wasAlone, wasDoomed), UNCHANGED ready,
         NEW from \in {"ending", "flying"}, c \in Spot[from],
         In(ending') = IF from = "ending" THEN In(ending) \ {c} ELSE In(ending),
         InTasks(flying') = IF from = "flying" THEN InTasks(flying) \ {c} ELSE InTasks(flying),
         status[JobOf[c]] = "running"
  PROVE  /\ Placed' /\ Once(suspects')
         /\ \A d \in Chunks : d # c /\ d \in Spot["ending"] /\ status[JobOf[d]] = "running"
              => status'[JobOf[d]] = "running"
<1>1. PICK to \in {"suspects", "backoff", "delivering", "none"} :
        /\ suspects' = IF to = "suspects" THEN Append(suspects, c) ELSE suspects
        /\ backoff' = IF to = "backoff" THEN backoff \cup {c} ELSE backoff
        /\ delivering' = IF to = "delivering" THEN delivering \cup {c} ELSE delivering
        /\ IF to = "none" THEN Settle(c, "failed") ELSE UNCHANGED <<status, open, outcome>>
  BY EndedGoes
<1>2. Placed /\ Once(suspects) /\ suspects \in Seq(Chunks)
  BY DEF Kept, Lines, TypeOK
<1>3. PICK k \in Jobs : k = JobOf[c]
  BY ChunksAssumption
<1>4. PICK P \in SUBSET Of(k) : P = {c}
  BY <1>3 DEF Of
<1>5. c \notin In(suspects)
  <2>1. Spot["suspects"] \cap Spot[from] = {}
    BY <1>2 DEF Placed, Apart, Spots
  <2> QED BY <2>1 DEF Spot
<1>6. Once(suspects') /\ In(suspects') = IF to = "suspects" THEN In(suspects) \cup {c} ELSE In(suspects)
  <2>1. CASE to = "suspects"
    BY <1>1, <1>2, <1>5, <2>1, OneComes
  <2>2. CASE to # "suspects"
    BY <1>1, <1>2, <2>2
  <2> QED BY <2>1, <2>2
<1>7. Moves(P, from, to)
  <2>1. /\ InLines(ready') = InLines(ready)
        /\ In(suspects') = IF to = "suspects" THEN In(suspects) \cup P ELSE In(suspects)
        /\ In(ending') = IF from = "ending" THEN In(ending) \ P ELSE In(ending)
        /\ InTasks(flying') = IF from = "flying" THEN InTasks(flying) \ P ELSE InTasks(flying)
        /\ backoff' = IF to = "backoff" THEN backoff \cup P ELSE backoff
        /\ delivering' = IF to = "delivering" THEN delivering \cup P ELSE delivering
    BY <1>1, <1>4, <1>6
  <2>2. P \subseteq Spot[from]
    BY <1>4
  <2>3. CASE from = "ending"
    <3>1. Spot' = [line |-> InLines(ready),
                   suspects |-> IF to = "suspects" THEN In(suspects) \cup P ELSE In(suspects),
                   ending |-> In(ending) \ P, flying |-> InTasks(flying),
                   backoff |-> IF to = "backoff" THEN backoff \cup P ELSE backoff,
                   delivering |-> IF to = "delivering" THEN delivering \cup P ELSE delivering]
      BY <2>1, <2>3 DEF Spot
    <3> QED BY <2>2, <2>3, <3>1 DEF Moves, Spots, Spot
  <2>4. CASE from = "flying"
    <3>1. Spot' = [line |-> InLines(ready),
                   suspects |-> IF to = "suspects" THEN In(suspects) \cup P ELSE In(suspects),
                   ending |-> In(ending), flying |-> InTasks(flying) \ P,
                   backoff |-> IF to = "backoff" THEN backoff \cup P ELSE backoff,
                   delivering |-> IF to = "delivering" THEN delivering \cup P ELSE delivering]
      BY <2>1, <2>4 DEF Spot
    <3> QED BY <2>2, <2>4, <3>1 DEF Moves, Spots, Spot
  <2> QED BY <2>3, <2>4
<1>8. open[k] \in Int /\ Cardinality(P) = 1
  BY <1>4, FS_Singleton DEF TypeOK
<1>9. CASE to # "none"
  <2>1. UNCHANGED <<status, open, outcome>>
    BY <1>1, <1>9
  <2>2. open'[k] = open[k] + Change(P, from, to)
    BY <1>1, <1>8, <1>9, <2>1 DEF Change
  <2>3. Placed'
    BY <1>2, <1>3, <1>7, <1>9, <2>1, <2>2, MovesKeep
  <2> QED BY <1>6, <2>1, <2>3
<1>10. CASE to = "none"
  <2>1. Settle(c, "failed")
    BY <1>1, <1>10
  <2>2. /\ \A i \in Jobs : i # k => status'[i] = status[i] /\ open'[i] = open[i]
        /\ status'[k] = "running" => status[k] = "running"
        /\ open'[k] = open[k] - 1
        /\ \A d \in Chunks : d # c => outcome'[d] = outcome[d]
        /\ outcome'[c] # "pending"
        /\ status'[k] # status[k] => open[k] - 1 = 0
    BY <1>3, <2>1, SettleDoes
  <2>3. Change(P, from, to) = 0 - 1
    BY <1>8, <1>10 DEF Change
  <2>4. open[k] - 1 = open[k] + (0 - 1)
    BY <1>8
  <2>5. Placed'
    <3>1. open'[k] = open[k] + Change(P, from, to)
      BY <2>2, <2>3, <2>4
    <3>2. (\A d \in Chunks : d \notin P => outcome'[d] = outcome[d]) /\ \A d \in P : outcome'[d] # "pending"
      BY <1>4, <2>2
    <3> QED BY <1>2, <1>7, <1>10, <2>2, <3>1, <3>2, MovesKeep
  <2>6. ASSUME NEW d \in Chunks, d # c, d \in Spot["ending"], status[JobOf[d]] = "running"
        PROVE  status'[JobOf[d]] = "running"
    <3>1. CASE JobOf[d] # k
      BY <2>2, <2>6, <3>1, ChunksAssumption
    <3>2. CASE JobOf[d] = k
      <4>1. open[k] = Cardinality(OpenOf(k)) /\ IsFiniteSet(OpenOf(k))
        <5>1. open[k] = Cardinality(OpenOf(k))
          BY <1>2, <2>6, <3>2, SpotsAre DEF Placed
        <5>2. IsFiniteSet(OpenOf(k))
          BY SpotsAre, FS_Subset DEF OpenOf
        <5> QED BY <5>1, <5>2
      <4>2. c \in OpenOf(k) /\ d \in OpenOf(k)
        <5>1. outcome[c] = "pending" /\ outcome[d] = "pending"
          BY <1>2, <2>6 DEF Placed, Known, Spots
        <5>2. c \notin Spot["line"] /\ d \notin Spot["line"]
          BY <1>2, <2>6 DEF Placed, Apart, Spots
        <5> QED BY <1>3, <3>2, <5>1, <5>2 DEF OpenOf, Of
      <4>3. open[k] # 1
        <5>1. ASSUME Cardinality(OpenOf(k)) = 1 PROVE FALSE
          <6>1. PICK x : OpenOf(k) = {x}
            BY <4>1, <5>1, FS_Singleton
          <6> QED BY <2>6, <4>2, <6>1
        <5> QED BY <4>1, <5>1
      <4>4. ~(open[k] - 1 = 0)
        BY <1>8, <4>3
      <4> QED BY <2>2, <2>6, <3>2, <4>4
    <3> QED BY <3>1, <3>2
  <2> QED BY <1>6, <2>5, <2>6
<1> QED BY <1>9, <1>10

\* The rest of `_on_done`, a chunk at a time
LEMMA ChunkEndsKeeps ==
  ASSUME TypeOK, TypeOK', Kept, ChunkEnds
  PROVE  Kept'
<1>1. /\ ending \in Seq(Chunks) /\ ending # <<>> /\ Once(ending) /\ ending' = Tail(ending)
      /\ Lined(ready) /\ Loaded(flying) /\ ToldOfRunning /\ UNCHANGED <<ready, flying>>
  BY DEF ChunkEnds, TypeOK, Kept, Lines
<1>2. PICK c \in Chunks : c = Head(ending)
  BY <1>1
<1>3. c \in In(ending) /\ Once(ending') /\ In(ending') = In(ending) \ {c}
  BY <1>1, <1>2, HeadGoes
<1>4. PICK s, wasAlone, wasDoomed : ChunkEnded(c, s, wasAlone, wasDoomed)
  BY <1>2 DEF ChunkEnds
<1>5. status[JobOf[c]] = "running"
  BY <1>1, <1>3 DEF ToldOfRunning
<1>6. c \in Spot["ending"] /\ Spot["ending"] = In(ending) /\ "ending" \in {"ending", "flying"} /\ "ending" # "flying"
  BY <1>3 DEF Spot
<1>7. /\ Placed' /\ Once(suspects')
      /\ \A d \in Chunks : d # c /\ d \in Spot["ending"] /\ status[JobOf[d]] = "running"
           => status'[JobOf[d]] = "running"
  <2>1. PICK from \in {"ending", "flying"} : from = "ending"
    OBVIOUS
  <2>2. /\ c \in Spot[from]
        /\ In(ending') = IF from = "ending" THEN In(ending) \ {c} ELSE In(ending)
        /\ InTasks(flying') = IF from = "flying" THEN InTasks(flying) \ {c} ELSE InTasks(flying)
    BY <1>1, <1>3, <1>6, <2>1
  <2> HIDE DEF Spot
  <2> QED BY <1>1, <1>4, <1>5, <2>2, EndedKeeps
<1>8. ToldOfRunning'
  <2> SUFFICES ASSUME NEW d \in In(ending') PROVE status'[JobOf[d]] = "running"
    BY DEF ToldOfRunning
  <2>1. d \in In(ending) /\ d # c /\ d \in Chunks
    BY <1>1, <1>3 DEF In
  <2>2. status[JobOf[d]] = "running"
    BY <1>1, <2>1 DEF ToldOfRunning
  <2> QED BY <1>6, <1>7, <2>1, <2>2
<1> QED BY <1>1, <1>3, <1>7, <1>8 DEF Kept, Lines

\* `_on_part`
LEMMA PartDoneKeeps ==
  ASSUME TypeOK, TypeOK', Kept, NEW l \in DOMAIN flying, NEW i \in DOMAIN flying[l].left,
         NEW s, PartDone(l, i, s)
  PROVE  Kept'
<1>1. PICK left \in Seq(Chunks) : left = flying[l].left
  BY DEF TypeOK, Task
<1>2. Once(left) /\ Lined(ready) /\ Loaded(flying)
  BY <1>1 DEF Kept, Lines, Loaded
<1>3. PICK c \in Chunks : c = left[i] /\ i \in DOMAIN left
  BY <1>1
<1>4. /\ RemoveAt(left, i) \in Seq(Chunks) /\ Once(RemoveAt(left, i)) /\ In(RemoveAt(left, i)) = In(left) \ {c}
      /\ c \in In(left)
  BY <1>2, <1>3, OneGoes DEF In
<1>5. /\ DOMAIN flying' = DOMAIN flying /\ flying'[l].left = RemoveAt(left, i)
      /\ \A k \in DOMAIN flying : flying'[k].head = flying[k].head /\ (k # l => flying'[k].left = flying[k].left)
  <2>1. PICK t \in Task : t = flying[l]
    BY DEF TypeOK
  <2>2. PICK u : u = [t EXCEPT !.left = RemoveAt(left, i)]
    OBVIOUS
  <2>3. u.left = RemoveAt(left, i) /\ u.head = t.head
    BY <2>2 DEF Task
  <2>4. flying' = [flying EXCEPT ![l] = u]
    BY <1>1, <2>1, <2>2 DEF PartDone, LeftWithout
  <2> QED BY <2>1, <2>3, <2>4 DEF TypeOK
<1>6. InTasks(flying') = InTasks(flying) \ {c} /\ Loaded(flying')
  <2>1. /\ c \in In(flying[l].left) /\ Once(flying'[l].left)
        /\ In(flying'[l].left) = In(flying[l].left) \ {c}
    BY <1>1, <1>4, <1>5
  <2> QED BY <1>2, <1>5, <2>1, LessLoad
<1>7. PICK wasAlone, wasDoomed : ChunkEnded(c, s, wasAlone, wasDoomed)
  BY <1>1, <1>3 DEF PartDone
<1>8. UNCHANGED <<ready, ending>> /\ ending = <<>> /\ status[JobOf[c]] = "running"
  BY <1>1, <1>3 DEF PartDone, LoopFree
<1>9. c \in Spot["flying"]
  BY <1>1, <1>4 DEF Spot, InTasks
<1>10. Placed' /\ Once(suspects')
  <2>1. PICK from \in {"ending", "flying"} : from = "flying"
    OBVIOUS
  <2>2. /\ c \in Spot[from]
        /\ In(ending') = IF from = "ending" THEN In(ending) \ {c} ELSE In(ending)
        /\ InTasks(flying') = IF from = "flying" THEN InTasks(flying) \ {c} ELSE InTasks(flying)
    BY <1>6, <1>8, <1>9, <2>1
  <2> HIDE DEF Spot
  <2> QED BY <1>7, <1>8, <2>2, EndedKeeps
<1> QED BY <1>2, <1>6, <1>8, <1>10, NothingIn DEF Kept, Lines, ToldOfRunning

\* `_requeue`
LEMMA RequeueKeeps ==
  ASSUME TypeOK, TypeOK', Kept, NEW c \in Chunks, Requeue(c)
  PROVE  Kept'
<1>1. PICK j \in Jobs : j = JobOf[c]
  BY ChunksAssumption
<1>2. Lined(ready) /\ Loaded(flying) /\ Once(suspects) /\ Placed
  BY DEF Kept, Lines
<1>3. /\ UNCHANGED <<status, flying, suspects, delivering, outcome, ending>> /\ ending = <<>>
      /\ c \in backoff /\ backoff' = backoff \ {c}
  BY DEF Requeue, LoopFree
<1>4. open \in [Jobs -> Int] /\ ready \in [Jobs -> Seq(Chunks)]
  BY DEF TypeOK
<1>5. PICK P \in SUBSET Of(j) : P = {c}
  BY <1>1 DEF Of
<1>6. \A d \in Chunks : outcome'[d] = outcome[d]
  BY <1>3
<1>7. CASE status[j] # "running" /\ UNCHANGED <<ready, open>>
  <2>1. Moves(P, "backoff", "none")
    BY <1>3, <1>5, <1>7 DEF Moves, Spots, Spot
  <2>2. Placed'
    BY <1>2, <1>3, <1>6, <1>7, <2>1, MovesKeep
  <2> QED BY <1>2, <1>3, <1>7, <2>2, NothingIn DEF Kept, Lines, ToldOfRunning
<1>8. CASE /\ status[j] = "running"
           /\ ready' = [ready EXCEPT ![j] = <<c>> \o @] /\ open' = [open EXCEPT ![j] = @ - 1]
  <2>1. PICK line \in Seq(Chunks) : line = ready[j]
    BY <1>4
  <2>2. Once(line) /\ In(line) \subseteq Of(j)
    BY <1>2, <2>1 DEF Lined
  <2>3. In(line) \subseteq InLines(ready)
    BY <2>1, <2>2 DEF InLines, Of
  <2>4. InLines(ready) \cap backoff = {}
    <3>1. Spot["line"] \cap Spot["backoff"] = {}
      BY <1>2 DEF Placed, Apart, Spots
    <3> QED BY <3>1 DEF Spot
  <2>5. <<c>> \in Seq(Chunks) /\ Once(<<c>>) /\ In(<<c>>) = {c} /\ In(<<c>>) \cap In(line) = {}
    <3>1. In(<<c>>) = {c} /\ Once(<<c>>)
      BY DEF In, Once
    <3> QED BY <1>3, <2>3, <2>4, <3>1
  <2>6. PICK longer \in Seq(Chunks) : longer = <<c>> \o line
    BY <2>5, ConcatProperties
  <2>7. Once(longer) /\ In(longer) = {c} \cup In(line)
    <3>1. PICK one \in Seq(Chunks) : one = <<c>>
      BY <2>5
    <3>2. Once(one) /\ In(one) = {c} /\ In(one) \cap In(line) = {} /\ longer = one \o line
      BY <2>5, <2>6, <3>1
    <3> QED BY <2>2, <3>2, OneBeforeOther
  <2>8. In(longer) \subseteq Of(j) /\ ready' = [ready EXCEPT ![j] = longer]
    BY <1>5, <1>8, <2>1, <2>2, <2>6, <2>7
  <2>9. Lined(ready') /\ InLines(ready') = (InLines(ready) \ In(ready[j])) \cup In(longer)
    BY <1>2, <1>4, <2>7, <2>8, OneLine
  <2>10. InLines(ready') = InLines(ready) \cup P
    BY <1>5, <2>1, <2>3, <2>7, <2>9
  <2>11. Moves(P, "backoff", "line")
    <3>1. Spot' = [line |-> InLines(ready) \cup P, suspects |-> In(suspects), ending |-> In(ending),
                   flying |-> InTasks(flying), backoff |-> backoff \ P, delivering |-> delivering]
      BY <1>3, <1>5, <2>10 DEF Spot
    <3> QED BY <1>3, <1>5, <3>1 DEF Moves, Spots, Spot
  <2>12. open'[j] = open[j] - 1 /\ \A i \in Jobs : i # j => open'[i] = open[i]
    BY <1>4, <1>8
  <2>13. Change(P, "backoff", "line") = 0 - 1
    BY <1>5, FS_Singleton DEF Change
  <2>14. open[j] - 1 = open[j] + (0 - 1)
    BY <1>4
  <2>15. Placed'
    <3>1. open'[j] = open[j] + Change(P, "backoff", "line")
      BY <2>12, <2>13, <2>14
    <3>2. \A i \in Jobs : i # j => status'[i] = status[i] /\ open'[i] = open[i]
      BY <1>3, <2>12
    <3> QED BY <1>2, <1>6, <1>8, <2>11, <3>1, <3>2, MovesKeep
  <2> QED BY <1>2, <1>3, <2>9, <2>15, NothingIn DEF Kept, Lines, ToldOfRunning
<1> QED BY <1>1, <1>7, <1>8 DEF Requeue

\* `_on_delivered`
LEMMA DeliveredKeeps ==
  ASSUME TypeOK, TypeOK', Kept, NEW c \in Chunks, NEW what \in {"done", "failed"}, Delivered(c, what)
  PROVE  Kept'
<1>1. PICK j \in Jobs : j = JobOf[c]
  BY ChunksAssumption
<1>2. Lined(ready) /\ Loaded(flying) /\ Once(suspects) /\ Placed
  BY DEF Kept, Lines
<1>3. /\ UNCHANGED <<ready, flying, suspects, backoff, ending>> /\ ending = <<>>
      /\ c \in delivering /\ delivering' = delivering \ {c}
  BY DEF Delivered, LoopFree
<1>4. PICK P \in SUBSET Of(j) : P = {c}
  BY <1>1 DEF Of
<1>5. Moves(P, "delivering", "none")
  BY <1>3, <1>4 DEF Moves, Spots, Spot
<1>6. Placed'
  <2>1. CASE Settle(c, what)
    <3>1. /\ \A i \in Jobs : i # j => status'[i] = status[i] /\ open'[i] = open[i]
          /\ status'[j] = "running" => status[j] = "running"
          /\ open'[j] = open[j] - 1
          /\ \A d \in Chunks : d # c => outcome'[d] = outcome[d]
          /\ outcome'[c] # "pending"
      BY <1>1, <2>1, SettleDoes
    <3>2. Change(P, "delivering", "none") = 0 - 1
      BY <1>4, FS_Singleton DEF Change
    <3>3. open[j] - 1 = open[j] + (0 - 1)
      BY DEF TypeOK
    <3>4. open'[j] = open[j] + Change(P, "delivering", "none")
      BY <3>1, <3>2, <3>3
    <3>5. (\A d \in Chunks : d \notin P => outcome'[d] = outcome[d]) /\ \A d \in P : outcome'[d] # "pending"
      BY <1>4, <3>1
    <3> QED BY <1>2, <1>5, <3>1, <3>4, <3>5, MovesKeep
  <2>2. CASE /\ status[j] # "running" /\ UNCHANGED <<status, open>>
             /\ outcome' = IF what = "done" THEN [outcome EXCEPT ![c] = what] ELSE outcome
    <3>1. \A d \in Chunks : d \notin P => outcome'[d] = outcome[d]
      BY <1>4, <2>2 DEF TypeOK
    <3> QED BY <1>2, <1>5, <2>2, <3>1, MovesKeep
  <2> QED BY <1>1, <2>1, <2>2 DEF Delivered
<1> QED BY <1>2, <1>3, <1>6, NothingIn DEF Kept, Lines, ToldOfRunning

\* `_kill` says why tasks fall, not what is in them.
LEMMA KillLoads ==
  ASSUME TypeOK, Loaded(flying), NEW late, NEW running, Kill(late, running)
  PROVE  Loaded(flying') /\ InTasks(flying') = InTasks(flying)
<1>1. DOMAIN flying' = DOMAIN flying
  BY DEF Kill
<1>2. \A k \in DOMAIN flying : flying'[k].left = flying[k].left /\ flying'[k].head = flying[k].head
  <2> SUFFICES ASSUME NEW k \in DOMAIN flying
               PROVE  flying'[k].left = flying[k].left /\ flying'[k].head = flying[k].head
    OBVIOUS
  <2>1. PICK t \in Task : t = flying[k]
    BY DEF TypeOK
  <2>2. \E doom, spare : flying'[k] = [t EXCEPT !.doomed = doom, !.spared = spare]
    BY <2>1 DEF Kill
  <2> QED BY <2>1, <2>2 DEF Task
<1> QED BY <1>1, <1>2, SameLoad

\* `_on_stop_job`
LEMMA CancelKeeps ==
  ASSUME TypeOK, TypeOK', Kept, NEW j \in Jobs, Cancel(j)
  PROVE  Kept'
<1>1. Lined(ready) /\ Loaded(flying) /\ Once(suspects) /\ Placed /\ ready \in [Jobs -> Seq(Chunks)]
  BY DEF Kept, Lines, TypeOK
<1>2. /\ UNCHANGED <<open, suspects, backoff, delivering, outcome, ending>> /\ ending = <<>>
      /\ status' = [status EXCEPT ![j] = "canceled"] /\ ready' = [ready EXCEPT ![j] = <<>>]
  BY DEF Cancel, LoopFree
<1>3. Loaded(flying') /\ InTasks(flying') = InTasks(flying)
  <2>1. CASE UNCHANGED flying
    BY <1>1, <2>1
  <2>2. CASE Kill({}, {k \in Jobs : status'[k] = "running"})
    BY <1>1, <2>2, KillLoads
  <2> QED BY <2>1, <2>2 DEF Cancel
<1>4. PICK P \in SUBSET Of(j) : P = In(ready[j])
  BY <1>1 DEF Lined
<1>5. PICK s \in Seq(Chunks) : s = <<>>
  BY EmptySeq
<1>6. Once(s) /\ In(s) = {} /\ In(s) \subseteq Of(j) /\ ready' = [ready EXCEPT ![j] = s]
  BY <1>2, <1>5, NothingIn
<1>7. Lined(ready') /\ P \subseteq InLines(ready) /\ InLines(ready') = (InLines(ready) \ P) \cup In(s)
  BY <1>1, <1>4, <1>6, OneLine
<1>8. InLines(ready') = InLines(ready) \ P
  BY <1>6, <1>7
<1>9. Moves(P, "line", "none")
  <2>1. Spot' = [line |-> InLines(ready) \ P, suspects |-> In(suspects), ending |-> In(ending),
                 flying |-> InTasks(flying), backoff |-> backoff, delivering |-> delivering]
    BY <1>2, <1>3, <1>8 DEF Spot
  <2> QED BY <1>7, <2>1 DEF Moves, Spots, Spot
<1>10. status'[j] = "canceled" /\ \A i \in Jobs : i # j => status'[i] = status[i]
  BY <1>2 DEF TypeOK
<1>11. Placed'
  BY <1>1, <1>2, <1>9, <1>10, MovesKeep
<1> QED BY <1>1, <1>2, <1>3, <1>7, <1>11, NothingIn DEF Kept, Lines, ToldOfRunning

\* A step that neither moves nor counts a chunk.
LEMMA NothingMoves ==
  ASSUME Kept, UNCHANGED <<status, open, outcome, ready, suspects, ending, backoff, delivering>>,
         Loaded(flying') /\ InTasks(flying') = InTasks(flying)
  PROVE  Kept'
<1>1. Spot' = Spot
  BY DEF Spot
<1>2. Apart' /\ Known'
  BY <1>1 DEF Kept, Placed, Apart, Known
<1>3. OpenCounts'
  BY DEF Kept, Placed, OpenCounts
<1> QED BY <1>2, <1>3 DEF Kept, Placed, Lines, ToldOfRunning

\* Each chunk has one place at most, and has one exactly until it is counted, if its job runs;
\* and what is open is what there is to count.
THEOREM ChunksKept == Spec => []Kept
<1>1. TypeOK /\ Init => Kept
  <2> SUFFICES ASSUME TypeOK, Init PROVE Kept
    OBVIOUS
  <2>1. /\ ready = Line /\ DOMAIN flying = {} /\ suspects = <<>> /\ ending = <<>> /\ backoff = {} /\ delivering = {}
        /\ \A c \in Chunks : outcome[c] = "pending"
        /\ \A j \in Jobs : open[j] = 0
    BY DEF Init
  <2>2. \A j \in Jobs : Once(Line[j]) /\ In(Line[j]) \subseteq Of(j)
    <3> SUFFICES ASSUME NEW j \in Jobs PROVE Once(Line[j]) /\ In(Line[j]) \subseteq Of(j)
      OBVIOUS
    <3>1. PICK line \in Seq(Chunks) : line = Line[j]
      BY ChunksAssumption
    <3>2. \A i, k \in DOMAIN line : JobOf[line[i]] = j /\ (line[i] = line[k] => i = k)
      BY <3>1, ChunksAssumption
    <3>3. Once(line) /\ In(line) \subseteq Of(j)
      BY <3>2 DEF Once, In, Of
    <3> QED BY <3>1, <3>3
  <2>3. Lines /\ ToldOfRunning
    BY <2>1, <2>2, NothingIn DEF Lines, Lined, Loaded, ToldOfRunning
  <2>4. \A c \in Chunks : c \in InLines(ready)
    <3> SUFFICES ASSUME NEW c \in Chunks PROVE c \in In(Line[JobOf[c]])
      BY <2>1 DEF InLines
    <3>1. PICK line \in Seq(Chunks) : line = Line[JobOf[c]]
      BY ChunksAssumption
    <3>2. Contains(line, c)
      BY <3>1, ChunksAssumption
    <3> QED BY <3>1, <3>2 DEF Contains, In
  <2>5. Spot = [line |-> InLines(ready), suspects |-> {}, ending |-> {}, flying |-> {}, backoff |-> {}, delivering |-> {}]
    BY <2>1, NothingIn DEF Spot, InTasks
  <2>6. Apart
    BY <2>5 DEF Apart, Spots
  <2>7. Known
    <3>1. \A p \in Spots : \A c \in Spot[p] : outcome[c] = "pending"
      BY <2>1, SpotsAre
    <3>2. \A c \in Chunks : c \in Spot["line"]
      BY <2>4 DEF Spot
    <3> QED BY <3>1, <3>2 DEF Known, Spots
  <2>8. OpenCounts
    <3>1. ASSUME NEW j \in Jobs PROVE open[j] = Cardinality(OpenOf(j))
      <4>1. OpenOf(j) = {}
        BY <2>4 DEF OpenOf, Of, Spot
      <4> QED BY <2>1, <4>1, FS_EmptySet
    <3> QED BY <3>1, SpotsAre
  <2> QED BY <2>3, <2>6, <2>7, <2>8 DEF Kept, Placed
<1>2. TypeOK /\ TypeOK' /\ Kept /\ [Next]_vars => Kept'
  <2> SUFFICES ASSUME TypeOK, TypeOK', Kept, [Next]_vars PROVE Kept'
    OBVIOUS
  <2>1. ASSUME NEW j \in Jobs, StartTask(j) PROVE Kept'
    BY <2>1, StartTaskKeeps
  <2>2. ASSUME NEW j \in Jobs, RefuseChunk(j) PROVE Kept'
    BY <2>2, RefuseChunkKeeps
  <2>3. ASSUME NEW j \in Jobs, Cancel(j) PROVE Kept'
    BY <2>3, CancelKeeps
  <2>4. CASE RetrySuspect
    BY <2>4, RetrySuspectKeeps
  <2>5. CASE DropSuspect
    BY <2>5, DropSuspectKeeps
  <2>6. CASE ChunkEnds
    BY <2>6, ChunkEndsKeeps
  <2>7. ASSUME NEW l \in DOMAIN flying, NEW s \in Ways, TaskDone(l, s) PROVE Kept'
    BY <2>7, TaskDoneKeeps
  <2>8. ASSUME NEW l \in DOMAIN flying, NEW i \in DOMAIN flying[l].left,
               NEW s \in {"DONE", "ERROR"}, PartDone(l, i, s)
        PROVE  Kept'
    BY <2>8, PartDoneKeeps
  <2>9. ASSUME NEW c \in Chunks, Requeue(c) PROVE Kept'
    BY <2>9, RequeueKeeps
  <2>10. ASSUME NEW c \in Chunks, NEW what \in {"done", "failed"}, Delivered(c, what) PROVE Kept'
    BY <2>10, DeliveredKeeps
  <2>11. ASSUME NEW j \in Jobs, NEW late \in SUBSET DOMAIN flying, TimeOut(j, late) PROVE Kept'
    <3>1. Loaded(flying') /\ InTasks(flying') = InTasks(flying)
      BY <2>11, KillLoads DEF TimeOut, Kept, Lines
    <3>2. UNCHANGED <<status, open, outcome, ready, suspects, ending, backoff, delivering>>
      BY <2>11 DEF TimeOut, verdicts
    <3> QED BY <3>1, <3>2, NothingMoves
  <2>12. CASE UNCHANGED vars
    <3>1. UNCHANGED <<status, open, outcome, ready, suspects, ending, backoff, delivering, flying>>
      BY <2>12 DEF vars
    <3>2. Loaded(flying') /\ InTasks(flying') = InTasks(flying)
      BY <3>1 DEF Kept, Lines
    <3> QED BY <3>1, <3>2, NothingMoves
  <2> QED BY <2>1, <2>2, <2>3, <2>4, <2>5, <2>6, <2>7, <2>8, <2>9, <2>10, <2>11, <2>12 DEF Next
<1> QED BY <1>1, <1>2, TypeCorrect, PTL DEF Spec

\* The places of a chunk in a line.
PlacesIn(name, s, c) == {<<name, i>> : i \in {i \in DOMAIN s : s[i] = c}}

\* In a line that bears a chunk once there is one place of it, if it is there.
LEMMA OnePlace ==
  ASSUME NEW s, Once(s), NEW c, NEW name
  PROVE  /\ c \in In(s) => \E x : PlacesIn(name, s, c) = {x}
         /\ c \notin In(s) => PlacesIn(name, s, c) = {}
<1> DEFINE found == {i \in DOMAIN s : s[i] = c}
           places == {<<name, i>> : i \in found}
<1>1. ASSUME c \in In(s) PROVE \E x : places = {x}
  <2>1. PICK i \in DOMAIN s : s[i] = c
    BY <1>1 DEF In
  <2>2. found = {i}
    BY <2>1 DEF Once
  <2> HIDE DEF found
  <2>3. places = {<<name, i>>}
    BY <2>2
  <2> QED BY <2>3
<1>2. ASSUME c \notin In(s) PROVE places = {}
  <2>1. found = {}
    BY <1>2 DEF In
  <2> HIDE DEF found
  <2> QED BY <2>1
<1> QED BY <1>1, <1>2 DEF PlacesIn

\* The chunk of a job is in the places that the lines and sets of the engine say it is in.
LEMMA PlacesAre ==
  ASSUME TypeOK, Lines, Apart, NEW c \in Chunks
  PROVE  /\ (\E p \in Spots : c \in Spot[p]) => \E x : PlacesOf(c) = {x}
         /\ (\A p \in Spots : c \notin Spot[p]) => PlacesOf(c) = {}
<1> DEFINE R == PlacesIn("ready", ready[JobOf[c]], c)
           S == PlacesIn("suspect", suspects, c)
           E == PlacesIn("ending", ending, c)
           In1(l) == {<<"flying", l, i>> : i \in {i \in DOMAIN flying[l].left : flying[l].left[i] = c}}
           F == UNION {{<<"flying", l, i>> : i \in {i \in DOMAIN flying[l].left : flying[l].left[i] = c}} :
                       l \in DOMAIN flying}
           B == {<<"backoff">> : x \in {c} \cap backoff}
           D == {<<"delivering">> : x \in {c} \cap delivering}
<1>1. PlacesOf(c) = R \cup S \cup E \cup F \cup B \cup D
  BY DEF PlacesOf, PlacesIn
<1>2. (c \in Spot["line"] => \E x : R = {x}) /\ (c \notin Spot["line"] => R = {})
  <2>1. c \in Spot["line"] <=> c \in In(ready[JobOf[c]])
    BY DEF Spot, InLines
  <2>2. Once(ready[JobOf[c]])
    BY ChunksAssumption DEF Lines, Lined
  <2> QED BY <2>1, <2>2, OnePlace
<1>3. (c \in Spot["suspects"] => \E x : S = {x}) /\ (c \notin Spot["suspects"] => S = {})
  <2>1. (c \in Spot["suspects"] <=> c \in In(suspects)) /\ Once(suspects)
    BY DEF Spot, Lines
  <2> QED BY <2>1, OnePlace
<1>4. (c \in Spot["ending"] => \E x : E = {x}) /\ (c \notin Spot["ending"] => E = {})
  <2>1. (c \in Spot["ending"] <=> c \in In(ending)) /\ Once(ending)
    BY DEF Spot, Lines
  <2> QED BY <2>1, OnePlace
<1>5. (c \in Spot["flying"] => \E x : F = {x}) /\ (c \notin Spot["flying"] => F = {})
  <2>1. c \in Spot["flying"] <=> \E l \in DOMAIN flying : c \in In(flying[l].left)
    BY DEF Spot, InTasks
  <2>2. ASSUME NEW l \in DOMAIN flying, c \notin In(flying[l].left) PROVE In1(l) = {}
    BY <2>2 DEF In
  <2>3. ASSUME NEW l \in DOMAIN flying, c \in In(flying[l].left) PROVE \E x : In1(l) = {x}
    <3>1. PICK i \in DOMAIN flying[l].left : flying[l].left[i] = c
      BY <2>3 DEF In
    <3>2. Once(flying[l].left)
      BY DEF Lines, Loaded
    <3> DEFINE found == {n \in DOMAIN flying[l].left : flying[l].left[n] = c}
    <3>3. found = {i}
      BY <3>1, <3>2 DEF Once
    <3> HIDE DEF found
    <3>4. {<<"flying", l, n>> : n \in found} = {<<"flying", l, i>>}
      BY <3>3
    <3>5. In1(l) = {<<"flying", l, i>>}
      BY <3>4 DEF found
    <3> QED BY <3>5
  <2>4. ASSUME NEW l \in DOMAIN flying, c \in In(flying[l].left), NEW k \in DOMAIN flying, k # l
        PROVE  c \notin In(flying[k].left)
    BY <2>4 DEF Lines, Loaded
  <2>7. F = UNION {In1(l) : l \in DOMAIN flying}
    OBVIOUS
  <2> HIDE DEF In1, F
  <2>5. ASSUME NEW l \in DOMAIN flying, c \in In(flying[l].left) PROVE \E x : F = {x}
    <3>1. \A k \in DOMAIN flying : k # l => In1(k) = {}
      BY <2>2, <2>4, <2>5
    <3>2. F = In1(l)
      BY <2>7, <3>1
    <3> QED BY <2>3, <2>5, <3>2
  <2>6. ASSUME \A l \in DOMAIN flying : c \notin In(flying[l].left) PROVE F = {}
    BY <2>2, <2>6, <2>7
  <2> QED BY <2>1, <2>5, <2>6
<1>6. (c \in Spot["backoff"] => \E x : B = {x}) /\ (c \notin Spot["backoff"] => B = {})
  <2>1. c \in Spot["backoff"] <=> c \in backoff
    BY DEF Spot
  <2>2. (c \in backoff => B = {<<"backoff">>}) /\ (c \notin backoff => B = {})
    OBVIOUS
  <2> QED BY <2>1, <2>2
<1>7. (c \in Spot["delivering"] => \E x : D = {x}) /\ (c \notin Spot["delivering"] => D = {})
  <2>1. c \in Spot["delivering"] <=> c \in delivering
    BY DEF Spot
  <2>2. (c \in delivering => D = {<<"delivering">>}) /\ (c \notin delivering => D = {})
    OBVIOUS
  <2> QED BY <2>1, <2>2
<1> HIDE DEF R, S, E, F, B, D, Spot
<1>8. \A p, q \in Spots : c \in Spot[p] /\ c \in Spot[q] => p = q
  BY DEF Apart
<1>9. /\ Spots = {"line", "suspects", "ending", "flying", "backoff", "delivering"}
  BY DEF Spots
<1>10. ASSUME \A p \in Spots : c \notin Spot[p] PROVE PlacesOf(c) = {}
  BY <1>1, <1>2, <1>3, <1>4, <1>5, <1>6, <1>7, <1>9, <1>10
<1>11. ASSUME NEW p \in Spots, c \in Spot[p] PROVE \E x : PlacesOf(c) = {x}
  <2>1. \A q \in Spots : q # p => c \notin Spot[q]
    BY <1>8, <1>11
  <2>2. CASE p = "line"
    <3>1. S = {} /\ E = {} /\ F = {} /\ B = {} /\ D = {} /\ \E x : R = {x}
      BY <1>2, <1>3, <1>4, <1>5, <1>6, <1>7, <1>9, <1>11, <2>1, <2>2
    <3> QED BY <1>1, <3>1
  <2>3. CASE p = "suspects"
    <3>1. R = {} /\ E = {} /\ F = {} /\ B = {} /\ D = {} /\ \E x : S = {x}
      BY <1>2, <1>3, <1>4, <1>5, <1>6, <1>7, <1>9, <1>11, <2>1, <2>3
    <3> QED BY <1>1, <3>1
  <2>4. CASE p = "ending"
    <3>1. R = {} /\ S = {} /\ F = {} /\ B = {} /\ D = {} /\ \E x : E = {x}
      BY <1>2, <1>3, <1>4, <1>5, <1>6, <1>7, <1>9, <1>11, <2>1, <2>4
    <3> QED BY <1>1, <3>1
  <2>5. CASE p = "flying"
    <3>1. R = {} /\ S = {} /\ E = {} /\ B = {} /\ D = {} /\ \E x : F = {x}
      BY <1>2, <1>3, <1>4, <1>5, <1>6, <1>7, <1>9, <1>11, <2>1, <2>5
    <3> QED BY <1>1, <3>1
  <2>6. CASE p = "backoff"
    <3>1. R = {} /\ S = {} /\ E = {} /\ F = {} /\ D = {} /\ \E x : B = {x}
      BY <1>2, <1>3, <1>4, <1>5, <1>6, <1>7, <1>9, <1>11, <2>1, <2>6
    <3> QED BY <1>1, <3>1
  <2>7. CASE p = "delivering"
    <3>1. R = {} /\ S = {} /\ E = {} /\ F = {} /\ B = {} /\ \E x : D = {x}
      BY <1>2, <1>3, <1>4, <1>5, <1>6, <1>7, <1>9, <1>11, <2>1, <2>7
    <3> QED BY <1>1, <3>1
  <2> QED BY <1>9, <2>2, <2>3, <2>4, <2>5, <2>6, <2>7
<1> QED BY <1>10, <1>11

\* No chunk is lost, runs twice at once or is counted while it is somewhere, the open ones are
\* as many as `job.open` says, the tokens add up and no job is above its cap but with one task,
\* in every state and for every engine.
THEOREM AccountsHold == Spec => []Accounts
<1>1. TypeOK /\ Kept /\ Tokens => Accounts
  <2> SUFFICES ASSUME TypeOK, Kept, Tokens PROVE Accounts
    OBVIOUS
  <2>1. OpenCounts /\ TokensBalance /\ CapKept /\ Apart /\ Known /\ Lines
    BY DEF Kept, Placed, Tokens
  <2>2. NoChunkLost
    <3> SUFFICES ASSUME NEW c \in Chunks, status[JobOf[c]] = "running"
                 PROVE  Cardinality(PlacesOf(c)) = IF outcome[c] = "pending" THEN 1 ELSE 0
      BY DEF NoChunkLost
    <3>1. CASE outcome[c] = "pending"
      <4>1. \E p \in Spots : c \in Spot[p]
        BY <2>1, <3>1 DEF Known
      <4>2. PICK x : PlacesOf(c) = {x}
        BY <2>1, <4>1, PlacesAre
      <4> QED BY <3>1, <4>2, FS_Singleton
    <3>2. CASE outcome[c] # "pending"
      <4>1. \A p \in Spots : c \notin Spot[p]
        BY <2>1, <3>2 DEF Known
      <4>2. PlacesOf(c) = {}
        BY <2>1, <4>1, PlacesAre
      <4> QED BY <3>2, <4>2, FS_EmptySet
    <3> QED BY <3>1, <3>2
  <2> QED BY <2>1, <2>2 DEF Accounts
<1> QED BY <1>1, TypeCorrect, ChunksKept, TokensKept, PTL

-----------------------------------------------------------------------------
(* Who is charged *)

\* What the marks on chunks and tasks mean: a task that runs alone is never spared; a chunk that
\* is being told of, and that its task went by, bears the marks its task had; and a chunk in its
\* first attempt bears a mark only between the return of the task that went by it and its result.
Marked ==
  /\ \A l \in DOMAIN flying : flying[l].alone => ~flying[l].spared
  /\ \A c \in In(ending) : c = how.head => (alone[c] => how.alone) /\ (doomed[c] => how.doomed)
  /\ \A c \in Chunks : (alone[c] \/ doomed[c]) /\ attempt[c] = 1 =>
       \/ c \in In(ending) /\ c = how.head
       \/ c \in delivering
       \/ outcome[c] # "pending"
       \/ status[JobOf[c]] # "running"

\* A step that gives no marks and after which no chunk is nearer to running for the first time.
LEMMA MarksStay ==
  ASSUME Marked, ending = <<>>, ending' = <<>>,
         \A l \in DOMAIN flying' : flying'[l].alone => ~flying'[l].spared,
         \A c \in Chunks : (alone'[c] => alone[c]) /\ (doomed'[c] => doomed[c]),
         \A c \in Chunks : attempt'[c] = 1 => attempt[c] = 1,
         \A c \in Chunks : outcome'[c] = "pending" => outcome[c] = "pending",
         \A c \in Chunks : status'[JobOf[c]] = "running" => status[JobOf[c]] = "running",
         \A c \in delivering : c \in delivering' \/ outcome'[c] # "pending" \/ status'[JobOf[c]] # "running"
  PROVE  Marked'
<1>1. \A c \in Chunks : (alone'[c] \/ doomed'[c]) /\ attempt'[c] = 1 =>
        c \in delivering' \/ outcome'[c] # "pending" \/ status'[JobOf[c]] # "running"
  <2> SUFFICES ASSUME NEW c \in Chunks, alone'[c] \/ doomed'[c], attempt'[c] = 1,
                      outcome'[c] = "pending", status'[JobOf[c]] = "running"
               PROVE  c \in delivering'
    OBVIOUS
  <2>1. c \notin In(ending)
    BY NothingIn
  <2>2. c \in delivering
    BY <2>1 DEF Marked
  <2> QED BY <2>2
<1> QED BY <1>1, NothingIn DEF Marked

\* A chunk that is charged, or not, comes no nearer to its first attempt, nor its job to running.
LEMMA EndedMarks ==
  ASSUME TypeOK, NEW c \in Chunks, NEW s, NEW wasAlone, NEW wasDoomed, ChunkEnded(c, s, wasAlone, wasDoomed)
  PROVE  /\ \A d \in Chunks : attempt'[d] = 1 => attempt[d] = 1
         /\ \A d \in Chunks : outcome'[d] = "pending" => outcome[d] = "pending"
         /\ \A d \in Chunks : status'[JobOf[d]] = "running" => status[JobOf[d]] = "running"
         /\ \A d \in Chunks : d # c => attempt'[d] = attempt[d] /\ outcome'[d] = outcome[d]
         /\ delivering \subseteq delivering'
         /\ \/ c \in delivering'
            \/ attempt'[c] # 1 \/ outcome'[c] # "pending"
            \/ s = "LOST" /\ ~wasAlone /\ ~wasDoomed
         /\ attempt'[c] # attempt[c] \/ outcome'[c] # outcome[c] => s # "LOST" \/ wasAlone \/ wasDoomed
<1>1. CASE AttemptFailed(c) /\ UNCHANGED <<delivering, suspects>> /\ (s # "LOST" \/ wasAlone \/ wasDoomed)
  <2>1. CASE RunsAgain(c)
    <3>1. attempt' = [attempt EXCEPT ![c] = @ + 1] /\ UNCHANGED <<status, outcome>>
      BY <1>1, <2>1 DEF AttemptFailed
    <3>2. attempt[c] \in Nat \ {0}
      BY DEF TypeOK
    <3>3. attempt'[c] = attempt[c] + 1 /\ \A d \in Chunks : d # c => attempt'[d] = attempt[d]
      BY <3>1 DEF TypeOK
    <3>4. attempt'[c] # 1
      BY ONLY <3>2, <3>3
    <3> QED BY <1>1, <3>1, <3>3, <3>4
  <2>2. CASE ~RunsAgain(c)
    <3>1. Settle(c, "failed") /\ UNCHANGED attempt
      BY <1>1, <2>2 DEF AttemptFailed
    <3>2. /\ \A i \in Jobs : i # JobOf[c] => status'[i] = status[i]
          /\ status'[JobOf[c]] = "running" => status[JobOf[c]] = "running"
          /\ \A d \in Chunks : d # c => outcome'[d] = outcome[d]
          /\ outcome'[c] # "pending"
      BY <3>1, SettleDoes
    <3>3. \A d \in Chunks : JobOf[d] \in Jobs
      BY ChunksAssumption
    <3> QED BY <1>1, <3>1, <3>2, <3>3
  <2> QED BY <2>1, <2>2
<1>2. CASE delivering' = delivering \cup {c} /\ UNCHANGED <<verdicts, suspects>>
  BY <1>2 DEF verdicts
<1>3. CASE /\ s = "LOST" /\ ~wasDoomed /\ ~wasAlone
           /\ UNCHANGED <<verdicts, delivering>>
  BY <1>3 DEF verdicts
<1> QED BY <1>1, <1>2, <1>3 DEF ChunkEnded, OwnDeath

\* A kill spares no task that runs alone: there is no other to be stopped.
LEMMA KillMarks ==
  ASSUME TypeOK, Bars, Marked, NEW late, NEW running, Kill(late, running),
         \A l \in DOMAIN flying : DOMAIN flying = {l} => l \in late \/ JobOf[flying[l].head] \notin running
  PROVE  \A l \in DOMAIN flying' : flying'[l].alone => ~flying'[l].spared
<1> SUFFICES ASSUME NEW l \in DOMAIN flying', flying'[l].alone PROVE ~flying'[l].spared
  OBVIOUS
<1>1. l \in DOMAIN flying /\ flying[l].alone
  BY KillType
<1>2. DOMAIN flying = {l}
  BY <1>1 DEF Bars
<1>3. PICK t \in Task : t = flying[l]
  BY <1>1 DEF TypeOK
<1>4. PICK doom, spare : /\ doom = (t.doomed \/ l \in late)
                         /\ spare = IF JobOf[t.head] \in running THEN ~doom ELSE t.spared
                         /\ flying'[l] = [t EXCEPT !.doomed = doom, !.spared = spare]
  BY <1>1, <1>3 DEF Kill
<1>5. ~t.spared
  BY <1>1, <1>3 DEF Marked
<1>6. ~spare
  BY <1>1, <1>2, <1>3, <1>4, <1>5
<1> QED BY <1>3, <1>4, <1>6 DEF Task

\* A task that starts is not spared yet.
LEMMA LaunchMarks ==
  ASSUME TypeOK, Marked, NEW members, NEW packed, NEW byItself, Launch(members, packed, byItself)
  PROVE  \A l \in DOMAIN flying' : flying'[l].alone => ~flying'[l].spared
<1> DEFINE t == [head |-> Head(members), left |-> members, packed |-> packed, alone |-> byItself,
                 doomed |-> FALSE, spared |-> FALSE]
<1>1. flying' = [k \in DOMAIN flying \cup {NextLane} |-> IF k = NextLane THEN t ELSE flying[k]]
  BY DEF Launch
<1>2. ~t.spared
  OBVIOUS
<1> HIDE DEF t
<1> QED BY <1>1, <1>2 DEF Marked

\* `_start_one` for a chunk that needs more than there is
LEMMA RefuseChunkMarks ==
  ASSUME TypeOK, Marked, NEW j \in Jobs, RefuseChunk(j)
  PROVE  Marked'
<1>1. PICK c \in Chunks : c = Head(ready[j])
  BY DEF RefuseChunk, TypeOK
<1>2. outcome' = [outcome EXCEPT ![c] = "failed"]
  BY <1>1 DEF RefuseChunk
<1>3. \A d \in Chunks : outcome'[d] = "pending" => outcome[d] = "pending"
  BY <1>2 DEF TypeOK
<1>4. PICK e : status' = [status EXCEPT ![j] = e]
  BY DEF RefuseChunk, FinishIfOver
<1>5. status[j] = "running"
  BY DEF RefuseChunk
<1>6. \A i \in Jobs : status'[i] = "running" => status[i] = "running"
  BY <1>4, <1>5 DEF TypeOK
<1>7. \A d \in Chunks : JobOf[d] \in Jobs
  BY ChunksAssumption
<1>8. /\ ending = <<>> /\ ending' = <<>>
      /\ UNCHANGED <<flying, alone, doomed, attempt, delivering>>
  BY DEF RefuseChunk, LoopFree, marks
<1>9. \A l \in DOMAIN flying' : flying'[l].alone => ~flying'[l].spared
  BY <1>8 DEF Marked
<1> QED BY <1>3, <1>6, <1>7, <1>8, <1>9, MarksStay

\* `_on_done`
LEMMA TaskDoneMarks ==
  ASSUME TypeOK, Marked, NEW l \in DOMAIN flying, NEW s \in Ways, TaskDone(l, s)
  PROVE  Marked'
<1>1. PICK t \in Task : t = flying[l]
  BY DEF TypeOK
<1>2. t.head \in Chunks /\ t.left \in Seq(Chunks)
  BY DEF Task
<1>3. ~t.spared \/ ~t.alone
  BY <1>1 DEF Marked
<1>4. /\ ending = <<>> /\ UNCHANGED <<status, outcome, attempt, delivering>>
      /\ flying' = [k \in DOMAIN flying \ {l} |-> flying[k]]
  BY DEF TaskDone, LoopFree
<1>5. \A k \in DOMAIN flying' : flying'[k].alone => ~flying'[k].spared
  BY <1>4 DEF Marked
<1>6. CASE UNCHANGED <<ending, marks>>
  BY <1>4, <1>5, <1>6, MarksStay DEF marks
<1>7. CASE /\ Spares(l, s) /\ UNCHANGED ending
           /\ alone' = [alone EXCEPT ![t.head] = IF Contains(t.left, t.head) THEN t.alone ELSE @]
           /\ doomed' = [doomed EXCEPT ![t.head] = IF Contains(t.left, t.head) THEN FALSE ELSE @]
  <2>1. ~t.alone
    BY <1>1, <1>3, <1>7 DEF Spares
  <2>2. \A c \in Chunks : (alone'[c] => alone[c]) /\ (doomed'[c] => doomed[c])
    BY <1>2, <1>7, <2>1 DEF TypeOK
  <2> QED BY <1>4, <1>5, <1>7, <2>2, MarksStay
<1>8. CASE /\ ending' = t.left
           /\ how' = IF t.left = <<>> THEN NoEnd
                     ELSE [s |-> s, head |-> t.head, alone |-> t.alone, doomed |-> t.doomed]
           /\ alone' = [alone EXCEPT ![t.head] = IF Contains(t.left, t.head) THEN t.alone ELSE @]
           /\ doomed' = [doomed EXCEPT ![t.head] =
                           IF Contains(t.left, t.head) THEN t.doomed /\ (s = "DONE" \/ ~t.packed) ELSE @]
  <2> DEFINE there == t.head \in In(t.left)
  <2>1. Contains(t.left, t.head) <=> there
    BY DEF Contains, In
  <2>2. In(t.left) # {} => t.left # <<>>
    BY NothingIn
  <2> HIDE DEF there
  <2>3. \A c \in Chunks : c # t.head \/ ~there => (alone'[c] = alone[c]) /\ (doomed'[c] = doomed[c])
    BY <1>2, <1>8, <2>1 DEF TypeOK
  <2>4. there => (alone'[t.head] = t.alone) /\ (doomed'[t.head] => t.doomed)
    BY <1>2, <1>8, <2>1 DEF TypeOK
  <2>5. In(t.left) # {} => how'.head = t.head /\ how'.alone = t.alone /\ how'.doomed = t.doomed
    BY <1>8, <2>2
  <2>6. \A c \in In(ending') : c = how'.head => (alone'[c] => how'.alone) /\ (doomed'[c] => how'.doomed)
    BY <1>8, <2>4, <2>5 DEF there
  <2>7. ASSUME NEW c \in Chunks, alone'[c] \/ doomed'[c], attempt'[c] = 1
        PROVE  \/ c \in In(ending') /\ c = how'.head
               \/ c \in delivering'
               \/ outcome'[c] # "pending"
               \/ status'[JobOf[c]] # "running"
    <3>1. CASE c = t.head /\ there
      BY <1>8, <2>5, <3>1 DEF there
    <3>2. CASE c # t.head \/ ~there
      <4>1. alone[c] \/ doomed[c]
        BY <2>3, <2>7, <3>2
      <4>2. c \notin In(ending)
        BY <1>4, NothingIn
      <4> QED BY <1>4, <2>7, <4>1, <4>2 DEF Marked
    <3> QED BY <3>1, <3>2
  <2> QED BY <1>5, <2>6, <2>7 DEF Marked
<1> QED BY <1>1, <1>6, <1>7, <1>8 DEF TaskDone

\* The rest of `_on_done`, a chunk at a time
LEMMA ChunkEndsMarks ==
  ASSUME TypeOK, Kept, Marked, ChunkEnds
  PROVE  Marked'
<1>1. /\ ending \in Seq(Chunks) /\ ending # <<>> /\ Once(ending) /\ ending' = Tail(ending)
      /\ how' = IF Tail(ending) = <<>> THEN NoEnd ELSE how
      /\ UNCHANGED <<flying, alone, doomed>>
  BY DEF ChunkEnds, TypeOK, Kept, Lines, marks
<1>2. PICK c \in Chunks : c = Head(ending)
  BY <1>1
<1>3. In(ending') = In(ending) \ {c}
  BY <1>1, <1>2, HeadGoes
<1>4. PICK s : ChunkEnded(c, s, alone[c], doomed[c])
  BY <1>2 DEF ChunkEnds
<1>5. In(ending') # {} => how' = how
  BY <1>1, NothingIn
<1>6. /\ \A d \in Chunks : attempt'[d] = 1 => attempt[d] = 1
      /\ \A d \in Chunks : outcome'[d] = "pending" => outcome[d] = "pending"
      /\ \A d \in Chunks : status'[JobOf[d]] = "running" => status[JobOf[d]] = "running"
      /\ delivering \subseteq delivering'
      /\ c \in delivering' \/ attempt'[c] # 1 \/ outcome'[c] # "pending" \/ (~alone[c] /\ ~doomed[c])
  BY <1>4, EndedMarks
<1>7. \A l \in DOMAIN flying' : flying'[l].alone => ~flying'[l].spared
  BY <1>1 DEF Marked
<1>8. \A d \in In(ending') : d = how'.head => (alone'[d] => how'.alone) /\ (doomed'[d] => how'.doomed)
  BY <1>1, <1>3, <1>5 DEF Marked
<1>9. ASSUME NEW d \in Chunks, alone'[d] \/ doomed'[d], attempt'[d] = 1
      PROVE  \/ d \in In(ending') /\ d = how'.head
             \/ d \in delivering'
             \/ outcome'[d] # "pending"
             \/ status'[JobOf[d]] # "running"
  <2> SUFFICES ASSUME d \notin delivering', outcome'[d] = "pending", status'[JobOf[d]] = "running"
               PROVE  d \in In(ending') /\ d = how'.head
    OBVIOUS
  <2>1. d # c
    BY <1>1, <1>6, <1>9
  <2>2. d \in In(ending) /\ d = how.head
    BY <1>1, <1>6, <1>9 DEF Marked
  <2> QED BY <1>3, <1>5, <2>1, <2>2
<1> QED BY <1>7, <1>8, <1>9 DEF Marked

\* `_on_part`
LEMMA PartDoneMarks ==
  ASSUME TypeOK, Marked, NEW l \in DOMAIN flying, NEW i \in DOMAIN flying[l].left,
         NEW s, PartDone(l, i, s)
  PROVE  Marked'
<1>1. PICK c \in Chunks : c = flying[l].left[i]
  BY DEF TypeOK, Task
<1>2. PICK p : alone' = [alone EXCEPT ![c] = @ /\ p] /\ doomed' = [doomed EXCEPT ![c] = @ /\ p]
  BY <1>1 DEF PartDone
<1>3. \A d \in Chunks : (alone'[d] => alone[d]) /\ (doomed'[d] => doomed[d])
  BY <1>2 DEF TypeOK
<1>4. PICK wasAlone, wasDoomed : ChunkEnded(c, s, wasAlone, wasDoomed)
  BY <1>1 DEF PartDone
<1>5. \A k \in DOMAIN flying' : flying'[k].alone => ~flying'[k].spared
  <2>1. PICK t \in Task : t = flying[l]
    BY DEF TypeOK
  <2>2. PICK u : u = [t EXCEPT !.left = LeftWithout(l, i)]
    OBVIOUS
  <2>3. u.alone = t.alone /\ u.spared = t.spared
    BY <2>2 DEF Task
  <2>4. flying' = [flying EXCEPT ![l] = u]
    BY <2>1, <2>2 DEF PartDone
  <2> QED BY <2>1, <2>3, <2>4 DEF TypeOK, Marked
<1>6. ending = <<>> /\ ending' = <<>>
  BY DEF PartDone, LoopFree
<1>7. /\ \A d \in Chunks : attempt'[d] = 1 => attempt[d] = 1
      /\ \A d \in Chunks : outcome'[d] = "pending" => outcome[d] = "pending"
      /\ \A d \in Chunks : status'[JobOf[d]] = "running" => status[JobOf[d]] = "running"
      /\ delivering \subseteq delivering'
  BY <1>4, EndedMarks
<1> QED BY <1>3, <1>5, <1>6, <1>7, MarksStay

\* `_on_delivered`
LEMMA DeliveredMarks ==
  ASSUME TypeOK, Marked, NEW c \in Chunks, NEW what \in {"done", "failed"}, Delivered(c, what)
  PROVE  Marked'
<1>1. /\ ending = <<>> /\ ending' = <<>> /\ delivering' = delivering \ {c}
      /\ UNCHANGED <<flying, alone, doomed, attempt>>
  BY DEF Delivered, LoopFree, marks
<1>2. \A l \in DOMAIN flying' : flying'[l].alone => ~flying'[l].spared
  BY <1>1 DEF Marked
<1>3. \A d \in Chunks : JobOf[d] \in Jobs
  BY ChunksAssumption
<1>4. CASE Settle(c, what)
  <2>1. /\ \A i \in Jobs : i # JobOf[c] => status'[i] = status[i]
        /\ status'[JobOf[c]] = "running" => status[JobOf[c]] = "running"
        /\ \A d \in Chunks : d # c => outcome'[d] = outcome[d]
        /\ outcome'[c] # "pending"
    BY <1>4, SettleDoes
  <2>2. \A d \in Chunks : status'[JobOf[d]] = "running" => status[JobOf[d]] = "running"
    BY <1>3, <2>1
  <2>3. \A d \in Chunks : outcome'[d] = "pending" => outcome[d] = "pending"
    BY <2>1
  <2> QED BY <1>1, <1>2, <2>1, <2>2, <2>3, MarksStay
<1>5. CASE /\ status[JobOf[c]] # "running" /\ UNCHANGED status
           /\ outcome' = IF what = "done" THEN [outcome EXCEPT ![c] = what] ELSE outcome
  <2>1. \A d \in Chunks : outcome'[d] = "pending" => outcome[d] = "pending"
    BY <1>5 DEF TypeOK
  <2> QED BY <1>1, <1>2, <1>5, <2>1, MarksStay
<1> QED BY <1>4, <1>5 DEF Delivered

\* What the marks mean holds in every state.
THEOREM MarksKept == Spec => []Marked
<1>1. Init => Marked
  BY NothingIn DEF Init, Marked
<1>2. TypeOK /\ Bars /\ Kept /\ Marked /\ [Next]_vars => Marked'
  <2> SUFFICES ASSUME TypeOK, Bars, Kept, Marked, [Next]_vars PROVE Marked'
    OBVIOUS
  <2>1. ASSUME NEW j \in Jobs, StartTask(j) PROVE Marked'
    <3>1. PICK members, packed, byItself : Launch(members, packed, byItself)
      BY <2>1 DEF StartTask
    <3>2. /\ ending = <<>> /\ ending' = <<>>
          /\ UNCHANGED <<status, delivering, outcome, attempt, alone, doomed>>
      BY <2>1 DEF StartTask, LoopFree, marks
    <3> QED BY <3>1, <3>2, LaunchMarks, MarksStay
  <2>2. ASSUME NEW j \in Jobs, RefuseChunk(j) PROVE Marked'
    BY <2>2, RefuseChunkMarks
  <2>3. ASSUME NEW j \in Jobs, Cancel(j) PROVE Marked'
    <3>1. /\ ending = <<>> /\ ending' = <<>> /\ status' = [status EXCEPT ![j] = "canceled"]
          /\ UNCHANGED <<delivering, outcome, attempt, alone, doomed>>
      BY <2>3 DEF Cancel, LoopFree, marks
    <3>2. /\ \A i \in Jobs : status'[i] = "running" => status[i] = "running"
          /\ status'[j] # "running"
      BY <3>1 DEF TypeOK
    <3>3. \A c \in Chunks : JobOf[c] \in Jobs
      BY ChunksAssumption
    <3>4. \A l \in DOMAIN flying' : flying'[l].alone => ~flying'[l].spared
      <4>1. CASE UNCHANGED flying
        BY <4>1 DEF Marked
      <4>2. CASE TasksOf(j) # {} /\ Kill({}, {k \in Jobs : status'[k] = "running"})
        <5>1. \A l \in DOMAIN flying : DOMAIN flying = {l} => JobOf[flying[l].head] = j
          BY <4>2 DEF TasksOf
        <5> QED BY <3>2, <4>2, <5>1, KillMarks
      <4> QED BY <2>3, <4>1, <4>2 DEF Cancel
    <3> QED BY <3>1, <3>2, <3>3, <3>4, MarksStay
  <2>4. CASE RetrySuspect
    <3>1. PICK members, packed, byItself : Launch(members, packed, byItself)
      BY <2>4 DEF RetrySuspect
    <3>2. /\ ending = <<>> /\ ending' = <<>>
          /\ UNCHANGED <<status, delivering, outcome, attempt, alone, doomed>>
      BY <2>4 DEF RetrySuspect, LoopFree, marks, verdicts
    <3> QED BY <3>1, <3>2, LaunchMarks, MarksStay
  <2>5. CASE DropSuspect
    BY <2>5, MarksStay DEF DropSuspect, LoopFree, marks, verdicts, Marked
  <2>6. CASE ChunkEnds
    BY <2>6, ChunkEndsMarks
  <2>7. ASSUME NEW l \in DOMAIN flying, NEW s \in Ways, TaskDone(l, s) PROVE Marked'
    BY <2>7, TaskDoneMarks
  <2>8. ASSUME NEW l \in DOMAIN flying, NEW i \in DOMAIN flying[l].left,
               NEW s \in {"DONE", "ERROR"}, PartDone(l, i, s)
        PROVE  Marked'
    BY <2>8, PartDoneMarks
  <2>9. ASSUME NEW c \in Chunks, Requeue(c) PROVE Marked'
    BY <2>9, MarksStay DEF Requeue, LoopFree, marks, Marked
  <2>10. ASSUME NEW c \in Chunks, NEW what \in {"done", "failed"}, Delivered(c, what) PROVE Marked'
    BY <2>10, DeliveredMarks
  <2>11. ASSUME NEW j \in Jobs, NEW late \in SUBSET DOMAIN flying, TimeOut(j, late) PROVE Marked'
    <3>1. /\ ending = <<>> /\ ending' = <<>>
          /\ UNCHANGED <<status, delivering, outcome, attempt, alone, doomed>>
      BY <2>11 DEF TimeOut, LoopFree, marks, verdicts
    <3>2. \A l \in DOMAIN flying : DOMAIN flying = {l} => l \in late
      BY <2>11 DEF TimeOut
    <3>3. \A l \in DOMAIN flying' : flying'[l].alone => ~flying'[l].spared
      BY <2>11, <3>2, KillMarks DEF TimeOut
    <3> QED BY <3>1, <3>3, MarksStay
  <2>12. CASE UNCHANGED vars
    BY <2>12 DEF vars, Marked
  <2> QED BY <2>1, <2>2, <2>3, <2>4, <2>5, <2>6, <2>7, <2>8, <2>9, <2>10, <2>11, <2>12 DEF Next
<1> QED BY <1>1, <1>2, TypeCorrect, BarsHold, ChunksKept, PTL DEF Spec

\* While there is a task to be told of, nothing else happens.
LEMMA ToldFirst ==
  ASSUME ending # <<>>, [Next]_vars
  PROVE  ChunkEnds \/ UNCHANGED vars
BY DEF Next, LoopFree, StartTask, RefuseChunk, Cancel, RetrySuspect, DropSuspect, TaskDone, PartDone,
       Requeue, Delivered, TimeOut

\* Who is charged when a task is told of bears a mark that it did not come by in the company of
\* others.
LEMMA ChargedForItsOwn ==
  ASSUME TypeOK, Kept, Marked, [Next]_vars, NEW c \in Chunks, ending # <<>>, Charges(c),
         c = how.head \/ attempt[c] = 1
  PROVE  Deserved
<1>1. SUFFICES ASSUME how.s = "LOST" PROVE how.alone \/ how.doomed
  BY DEF Deserved
<1>2. ~UNCHANGED vars
  BY DEF vars, Charges
<1>3. ChunkEnds
  BY <1>2, ToldFirst
<1>4. PICK d \in Chunks : d = Head(ending)
  BY DEF TypeOK
<1>5. ChunkEnded(d, "LOST", alone[d], doomed[d])
  BY <1>1, <1>3, <1>4 DEF ChunkEnds
<1>6. /\ \A e \in Chunks : e # d => attempt'[e] = attempt[e] /\ outcome'[e] = outcome[e]
      /\ attempt'[d] # attempt[d] \/ outcome'[d] # outcome[d] => alone[d] \/ doomed[d]
  BY <1>5, EndedMarks
<1>7. attempt'[c] # attempt[c] \/ outcome'[c] # outcome[c]
  BY DEF Charges
<1>8. c = d /\ (alone[c] \/ doomed[c])
  BY <1>6, <1>7
<1>9. c \in In(ending)
  <2>1. ending \in Seq(Chunks)
    BY DEF TypeOK
  <2> QED BY <1>4, <1>8, <2>1, HeadGoes DEF Kept, Lines
<1>10. c = how.head
  <2> SUFFICES ASSUME attempt[c] = 1 PROVE c = how.head
    OBVIOUS
  <2>1. status[JobOf[c]] = "running"
    BY <1>9 DEF Kept, ToldOfRunning
  <2>2. Spot["ending"] = In(ending) /\ Spot["delivering"] = delivering /\ "ending" # "delivering"
    BY DEF Spot
  <2>3. outcome[c] = "pending"
    BY <1>9, <2>2 DEF Kept, Placed, Known, Spots
  <2>4. c \notin delivering
    BY <1>9, <2>2 DEF Kept, Placed, Apart, Spots
  <2> QED BY <1>8, <2>1, <2>3, <2>4 DEF Marked
<1> QED BY <1>8, <1>9, <1>10 DEF Marked

\* The chunk a task goes by, and one in its first attempt, is charged for a death it was alone in
\* or a time limit that it broke (`_on_done`, `_kill`): what `submit` promises, for those.
THEOREM ChargedFairly == Spec => HeadChargedForItsOwn
<1>1. TypeOK /\ Kept /\ Marked /\ [Next]_vars =>
        [\A c \in Chunks :
           ending # <<>> /\ Charges(c) /\ (c = how.head \/ attempt[c] = 1) => Deserved]_vars
  BY ChargedForItsOwn
<1> QED BY <1>1, TypeCorrect, ChunksKept, MarksKept, PTL DEF Spec, HeadChargedForItsOwn
=============================================================================
