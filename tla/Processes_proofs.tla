-------------------------- MODULE Processes_proofs --------------------------
(***************************************************************************)
(* Proofs about the executors: each task is told over once, as the engine  *)
(* asks of an executor; it is lost only where its process came to harm;    *)
(* and tasks that need a card have one each.                               *)
(***************************************************************************)
EXTENDS Processes, FiniteSetTheorems, WellFoundedInduction, TLAPS

-----------------------------------------------------------------------------
(* The inductive invariant *)

SetOf(s) == {s[i] : i \in 1 .. Len(s)}
Distinct(s) == \A i, j \in 1 .. Len(s) : i # j => s[i] # s[j]

Letters == [to : Hosts, kind : {"run", "cancel", "stop"}, task : Tasks \cup {0}]
Replies == Tasks \X {"DONE", "ERROR", "CANCELED"}
HostType ==
  [over : BOOLEAN, alive : BOOLEAN, pending : SUBSET Tasks, inbox : Seq(Letters), back : Seq(Replies),
   says : {<<>>} \cup Replies, reader : {"poll", "idle", "end", "lost", "gone"}, lost : SUBSET Tasks]

Typed ==
  /\ TypeOK
  /\ host \in [Hosts -> HostType]
  /\ hosting = Nothing \/ hosting \in Letters
  /\ pool \in [n : Nat, is : {"up", "dying", "broken"}]

\* The engine has the tasks it gave: what has not ended is given, and what is free is nowhere.
Given ==
  \A t \in Tasks :
    /\ state[t] = "free" => phase[t] = "none" /\ raw[t] = "none" /\ how[t] = "none" /\ card[t] = 0
    /\ state[t] = "given" /\ mix[t] = "pool" => phase[t] \in {"queued", "begun"}
    /\ phase[t] \in {"queued", "begun"} /\ mix[t] \in {"pool", "thread"} => state[t] = "given"
    /\ card[t] # 0 => mix[t] = "pool"
    /\ raw[t] # "none" => phase[t] = "ended" /\ mix[t] = "ray"
    /\ t \in killed \cup killing => mix[t] = "ray" /\ state[t] # "free"

\* A host is started for a task.
Started ==
  /\ last <= Cardinality({t \in Tasks : state[t] # "free"})
  /\ \A t \in Tasks : mix[t] = "host" /\ state[t] # "free" => at[t] \in 1 .. last

\* A letter to a host is about a task that was sent there; it is asked to stop when it has nothing.
Proper(m) ==
  /\ m.to <= last
  /\ m.kind \in {"run", "cancel"} =>
       m.task \in Tasks /\ mix[m.task] = "host" /\ at[m.task] = m.to /\ state[m.task] # "free"
  /\ m.kind = "run" => phase[m.task] = "sent"
  /\ m.kind = "cancel" => m.task \in canceled
  /\ m.kind = "stop" => host[m.to].over /\ host[m.to].pending = {} /\ host[m.to].lost = {}

Sending == hosting = Nothing \/ (Proper(hosting) /\ hosting \notin SetOf(host[hosting.to].inbox))

\* An answer of a host is about a task that is awaited.
Owed(h, x) == x[1] \in host[h].pending /\ phase[x[1]] = "ended" /\ (x[2] = "CANCELED" => x[1] \in canceled)

Mail(h) ==
  /\ Distinct(host[h].inbox)
  /\ \A m \in SetOf(host[h].inbox) : m.to = h /\ Proper(m)

News(h) ==
  /\ Distinct(host[h].back)
  /\ \A x \in SetOf(host[h].back) : Owed(h, x)
  /\ \A x, y \in SetOf(host[h].back) : x[1] = y[1] => x = y
  /\ host[h].says # <<>> => Owed(h, host[h].says) /\ \A x \in SetOf(host[h].back) : x[1] # host[h].says[1]

Holds(h) ==
  /\ \A t \in host[h].pending \cup host[h].lost : mix[t] = "host" /\ at[t] = h /\ state[t] = "given"
  /\ host[h].alive => \A t \in Tasks : mix[t] = "host" /\ at[t] = h /\ phase[t] \in {"sent", "queued", "begun"} =>
                                         t \in host[h].pending

\* One that is no more came to harm, or had nothing to do.
Gone(h) ==
  /\ h > last => host[h] = Unborn
  /\ ~host[h].alive => host[h].inbox = <<>> /\ host[h].says = <<>>
  /\ host[h].reader \in {"end", "lost"} => ~host[h].alive /\ host[h].back = <<>>
  /\ host[h].lost # {} => host[h].reader = "lost"
  /\ host[h].reader = "lost" => host[h].over /\ host[h].pending = {}
  /\ h <= last /\ ~host[h].alive =>
       HostId(h) \in harmed \/ shut \/ (host[h].over /\ host[h].pending = {} /\ host[h].lost = {})

HostsFine == Sending /\ \A h \in Hosts : Mail(h) /\ News(h) /\ Holds(h) /\ Gone(h)

\* So did a pool that is broken or was replaced.
PoolsFine ==
  /\ pool.n >= 1
  /\ \A n \in 1 .. pool.n : n < pool.n \/ pool.is # "up" => shut \/ PoolId(n) \in harmed
  /\ \A t \in Tasks : mix[t] = "pool" /\ state[t] # "free" => at[t] \in 1 .. pool.n

\* Ray stops a task that the loop marked, or that was canceled.
RayFine ==
  \A t \in Tasks :
    /\ t \in killed => RayId(t) \in harmed
    /\ RayId(t) \in harmed => mix[t] = "ray" /\ state[t] # "free"
    /\ raw[t] = "lost" => RayId(t) \in harmed
    /\ raw[t] = "canceled" /\ state[t] = "given" => t \in canceled \cup killed
    /\ RayId(t) \in harmed /\ phase[t] \in {"queued", "begun"} => t \in killed

\* The counts of the cards are those of the tasks that hold them.
CardsFine ==
  /\ \A c \in 1 .. Cards : held[c] = Cardinality({t \in Tasks : card[t] = c})
  /\ \A t \in Tasks : mix[t] = "pool" /\ state[t] = "given" => card[t] # 0
  /\ \A s, t \in Tasks : s # t /\ state[s] = "given" /\ state[t] = "given" /\ card[s] # 0 /\ card[s] = card[t] => s \in late \/ t \in late

SlotsFine == \A s, t \in Tasks : s # t /\ slot[s] # 0 => slot[s] # slot[t]

Why ==
  \A t \in Tasks : /\ how[t] = "LOST" => shut \/ HomeOf(t) \in harmed
                   /\ how[t] = "CANCELED" => shut \/ t \in canceled

Sound == Typed /\ Given /\ Started /\ HostsFine /\ PoolsFine /\ RayFine /\ CardsFine /\ SlotsFine /\ Why

-----------------------------------------------------------------------------
(* Sequences *)

\* What a queue with one more at its end holds.
LEMMA AppendSet ==
  ASSUME NEW S, NEW s \in Seq(S), NEW x \in S
  PROVE  /\ Append(s, x) \in Seq(S) /\ Len(Append(s, x)) = Len(s) + 1
         /\ SetOf(Append(s, x)) = SetOf(s) \cup {x}
         /\ Distinct(s) /\ x \notin SetOf(s) => Distinct(Append(s, x))
<1>1. PICK r \in Seq(S) : r = Append(s, x)
  <2>1. Append(s, x) \in Seq(S)
    OBVIOUS
  <2> QED BY <2>1
<1>2. Len(s) \in Nat /\ Len(r) = Len(s) + 1 /\ r[Len(s) + 1] = x /\ \A i \in 1 .. Len(s) : r[i] = s[i]
  BY <1>1
<1>3. SetOf(r) = SetOf(s) \cup {x}
  <2>1. \A i \in 1 .. Len(r) : i \in 1 .. Len(s) \/ i = Len(s) + 1
    BY <1>2
  <2>2. \A i \in 1 .. Len(s) : i \in 1 .. Len(r)
    BY <1>2
  <2>3. Len(s) + 1 \in 1 .. Len(r)
    BY <1>2
  <2> QED BY <1>2, <2>1, <2>2, <2>3 DEF SetOf
<1>4. ASSUME Distinct(s), x \notin SetOf(s) PROVE Distinct(r)
  <2> SUFFICES ASSUME NEW i \in 1 .. Len(r), NEW j \in 1 .. Len(r), i # j PROVE r[i] # r[j]
    BY DEF Distinct
  <2>1. \A k \in 1 .. Len(r) : k \in 1 .. Len(s) \/ k = Len(s) + 1
    BY <1>2
  <2>2. \A k \in 1 .. Len(s) : r[k] = s[k] /\ s[k] # x
    BY <1>2, <1>4 DEF SetOf
  <2>3. CASE i \in 1 .. Len(s) /\ j \in 1 .. Len(s)
    BY <1>4, <2>2, <2>3 DEF Distinct
  <2>4. CASE i \in 1 .. Len(s) /\ j = Len(s) + 1
    BY <1>2, <2>2, <2>4
  <2>5. CASE i = Len(s) + 1 /\ j \in 1 .. Len(s)
    BY <1>2, <2>2, <2>5
  <2> QED BY <2>1, <2>3, <2>4, <2>5
<1> QED BY <1>1, <1>2, <1>3, <1>4

\* What a queue holds once its first is taken.
LEMMA TailSet ==
  ASSUME NEW S, NEW s \in Seq(S), s # <<>>
  PROVE  /\ Tail(s) \in Seq(S) /\ Len(Tail(s)) <= Len(s) /\ Len(Tail(s)) \in Nat
         /\ Head(s) \in S /\ Head(s) \in SetOf(s) /\ SetOf(Tail(s)) \subseteq SetOf(s)
         /\ Distinct(s) => Distinct(Tail(s)) /\ Head(s) \notin SetOf(Tail(s))
<1>1. PICK r \in Seq(S) : r = Tail(s)
  <2>1. Tail(s) \in Seq(S)
    OBVIOUS
  <2> QED BY <2>1
<1>2. /\ Len(s) \in Nat /\ Len(s) >= 1 /\ Len(r) = Len(s) - 1 /\ Head(s) = s[1] /\ Head(s) \in S
      /\ \A i \in 1 .. Len(r) : r[i] = s[i + 1]
  BY <1>1
<1>3. \A i \in 1 .. Len(r) : i + 1 \in 1 .. Len(s) /\ i + 1 # 1 /\ 1 \in 1 .. Len(s)
  BY <1>2
<1>4. 1 \in 1 .. Len(s) /\ Len(r) \in Nat /\ Len(r) <= Len(s)
  BY <1>2
<1>5. Head(s) \in SetOf(s) /\ SetOf(r) \subseteq SetOf(s)
  BY <1>2, <1>3, <1>4 DEF SetOf
<1>6. ASSUME Distinct(s) PROVE Distinct(r) /\ Head(s) \notin SetOf(r)
  <2>1. Head(s) \notin SetOf(r)
    BY <1>2, <1>3, <1>6 DEF SetOf, Distinct
  <2>2. ASSUME NEW i \in 1 .. Len(r), NEW j \in 1 .. Len(r), i # j PROVE r[i] # r[j]
    <3>1. i + 1 \in 1 .. Len(s) /\ j + 1 \in 1 .. Len(s)
      BY <1>3
    <3>2. i + 1 # j + 1
      BY <1>2, <2>2
    <3> QED BY <1>2, <1>6, <3>1, <3>2 DEF Distinct
  <2> QED BY <2>1, <2>2 DEF Distinct
<1> QED BY <1>1, <1>2, <1>4, <1>5, <1>6

\* An empty queue holds nothing.
LEMMA EmptySet == SetOf(<<>>) = {} /\ Distinct(<<>>)
BY DEF SetOf, Distinct

\* A set of numbers that has a member has a least one.
LEMMA LeastNumber ==
  ASSUME NEW T \in SUBSET Nat, T # {}
  PROVE  \E n \in T : \A m \in T : n <= m
<1> DEFINE I == {0 .. n : n \in T}
<1>1. \A n \in Nat : IsFiniteSet(0 .. n)
  BY FS_Interval
<1>2. I \subseteq FiniteSubsetsOf(Nat)
  <2> SUFFICES ASSUME NEW n \in T PROVE 0 .. n \in FiniteSubsetsOf(Nat)
    OBVIOUS
  <2>1. 0 .. n \in SUBSET Nat
    OBVIOUS
  <2> QED BY <1>1, <2>1 DEF FiniteSubsetsOf
<1>3. I # {}
  OBVIOUS
<1> HIDE DEF I
<1>4. PICK J \in I : \A K \in I : ~(<<K, J>> \in StrictSubsetOrdering(Nat))
  BY <1>2, <1>3, FS_StrictSubsetOrderingWellFounded, WFMin
<1>5. PICK n \in T : J = 0 .. n
  BY <1>4 DEF I
<1>6. ASSUME NEW m \in T, m < n PROVE FALSE
  <2>1. 0 .. m \in SUBSET Nat /\ 0 .. n \in SUBSET Nat
    OBVIOUS
  <2>2. 0 .. m \subseteq 0 .. n /\ 0 .. m # 0 .. n
    BY <1>6
  <2>3. <<0 .. m, 0 .. n>> \in StrictSubsetOrdering(Nat)
    BY <2>1, <2>2 DEF StrictSubsetOrdering
  <2>4. 0 .. m \in I
    BY DEF I
  <2> QED BY <1>4, <1>5, <2>3, <2>4
<1> QED BY <1>6

-----------------------------------------------------------------------------
(* What is known before a step *)

\* What the invariant says of each variable.
LEMMA Known ==
  ASSUME Sound
  PROVE  /\ Typed /\ Given /\ Started /\ HostsFine /\ PoolsFine /\ RayFine /\ CardsFine /\ SlotsFine /\ Why
         /\ mix \in [Tasks -> {"host", "pool", "thread", "ray", "none"}]
         /\ state \in [Tasks -> {"free", "given", "done", "over"}]
         /\ how \in [Tasks -> {"none", "DONE", "ERROR", "LOST", "CANCELED"}]
         /\ at \in [Tasks -> Nat] /\ phase \in [Tasks -> {"none", "sent", "queued", "begun", "ended"}]
         /\ canceled \subseteq Tasks /\ host \in [Hosts -> HostType] /\ (hosting = Nothing \/ hosting \in Letters)
         /\ pool \in [n : Nat, is : {"up", "dying", "broken"}]
         /\ held \in [1 .. Cards -> Nat] /\ card \in [Tasks -> 0 .. Cards] /\ slot \in [Tasks -> 0 .. Slots]
         /\ raw \in [Tasks -> {"none", "value", "raised", "lost", "canceled"}]
         /\ killed \subseteq Tasks /\ killing \subseteq Tasks /\ late \subseteq Tasks /\ shut \in BOOLEAN
         /\ last \in 0 .. Cardinality(Tasks) /\ last \in Nat /\ Hosts = 1 .. Cardinality(Tasks)
         /\ IsFiniteSet(Tasks) /\ Cardinality(Tasks) \in Nat
         /\ Cards \in Nat /\ Room \in Nat /\ Slots \in Nat /\ Capacity \in Nat
<1>1. Typed /\ TypeOK
  BY DEF Sound, Typed
<1>2. mix \in [Tasks -> {"host", "pool", "thread", "ray", "none"}]
  BY <1>1, ProcessesAssumption DEF TypeOK, ProcessesAssumption
<1>3. IsFiniteSet(Tasks) /\ Cards \in Nat /\ Room \in Nat /\ Slots \in Nat /\ Capacity \in Nat
  BY ProcessesAssumption DEF ProcessesAssumption
<1>4. Cardinality(Tasks) \in Nat
  BY <1>3, FS_CardinalityType
<1>5. {"none"} \cup DOMAIN Outcome = {"none", "value", "raised", "lost", "canceled"}
  BY DEF Outcome
<1>6. raw \in [Tasks -> {"none", "value", "raised", "lost", "canceled"}]
  BY <1>1, <1>5 DEF TypeOK
<1> QED BY <1>1, <1>2, <1>3, <1>4, <1>6 DEF Sound, Typed, TypeOK, Hosts

\* What the engine hears of a task it gave.
HearsOf(t, what) ==
  /\ state' \in [Tasks -> {"free", "given", "done", "over"}]
  /\ how' \in [Tasks -> {"none", "DONE", "ERROR", "LOST", "CANCELED"}]
  /\ slot' \in [Tasks -> 0 .. Slots]
  /\ \A s \in Tasks : s # t => state'[s] = state[s] /\ how'[s] = how[s] /\ slot'[s] = slot[s]
  /\ state'[t] \in {"done", "over"} /\ how'[t] = what /\ slot'[t] = 0

\* `Say` tells of one task, and frees its slot.
LEMMA SaysIt ==
  ASSUME Sound, NEW t \in Tasks, NEW what \in {"DONE", "ERROR", "LOST", "CANCELED"}, Say(t, what)
  PROVE  HearsOf(t, what)
<1>1. /\ state \in [Tasks -> {"free", "given", "done", "over"}] /\ slot \in [Tasks -> 0 .. Slots]
      /\ how \in [Tasks -> {"none", "DONE", "ERROR", "LOST", "CANCELED"}] /\ Slots \in Nat
  BY Known
<1>2. /\ slot' = [slot EXCEPT ![t] = 0]
      /\ state' = [state EXCEPT ![t] = IF what = "DONE" THEN "done" ELSE "over"]
      /\ how' = [how EXCEPT ![t] = what]
  BY DEF Say, FreeSlot
<1>3. 0 \in 0 .. Slots
  BY <1>1
<1> QED BY <1>1, <1>2, <1>3 DEF HearsOf

\* Whom the engine hears of it has given.
LEMMA GivenOnes ==
  ASSUME Sound, NEW t \in Tasks
  PROVE  /\ phase[t] \in {"queued", "begun"} /\ mix[t] \in {"pool", "thread"} => state[t] = "given"
         /\ \A h \in Hosts : t \in host[h].pending \cup host[h].lost => state[t] = "given" /\ mix[t] = "host" /\ at[t] = h
         /\ \A h \in Hosts : \A x \in SetOf(host[h].back) : x[1] = t => state[t] = "given" /\ mix[t] = "host" /\ at[t] = h
<1>1. phase[t] \in {"queued", "begun"} /\ mix[t] \in {"pool", "thread"} => state[t] = "given"
  BY Known DEF Given
<1>2. ASSUME NEW h \in Hosts, NEW u \in host[h].pending \cup host[h].lost
      PROVE  state[u] = "given" /\ mix[u] = "host" /\ at[u] = h
  BY Known DEF HostsFine, Holds
<1>3. ASSUME NEW h \in Hosts, NEW x \in SetOf(host[h].back)
      PROVE  x[1] \in host[h].pending
  BY Known DEF HostsFine, News, Owed
<1> QED BY <1>1, <1>2, <1>3

\* The first answer of a host.
LEMMA FirstAnswer ==
  ASSUME Sound, NEW h \in Hosts, host[h].back # <<>>
  PROVE  /\ Head(host[h].back) \in Replies /\ Head(host[h].back) \in SetOf(host[h].back)
         /\ Head(host[h].back)[1] \in host[h].pending /\ Head(host[h].back)[1] \in Tasks
         /\ Head(host[h].back)[2] \in {"DONE", "ERROR", "CANCELED"}
         /\ Head(host[h].back)[2] = "CANCELED" => Head(host[h].back)[1] \in canceled
<1>1. PICK s \in Seq(Replies) : s = host[h].back
  BY Known DEF HostType
<1>2. Head(s) \in Replies /\ Head(s) \in SetOf(s)
  BY <1>1, TailSet
<1>3. PICK x \in Replies : x = Head(s)
  BY <1>2
<1>4. x \in SetOf(host[h].back)
  BY <1>1, <1>2, <1>3
<1>5. Owed(h, x)
  BY <1>4, Known DEF HostsFine, News
<1>6. x[1] \in Tasks /\ x[2] \in {"DONE", "ERROR", "CANCELED"}
  BY DEF Replies
<1> QED BY <1>1, <1>3, <1>4, <1>5, <1>6 DEF Owed

Submits(t) == SubmitToHost(t) \/ SubmitToPool(t) \/ SubmitToThread(t) \/ SubmitToRay(t)

\* A step gives a free task, or tells of tasks that were given, or neither.
LEMMA StateMoves ==
  ASSUME Sound, Next
  PROVE  \/ UNCHANGED <<state, how>>
         \/ \E t \in Tasks : Submits(t) /\ state[t] = "free" /\ state' = [state EXCEPT ![t] = "given"] /\ how' = how
         \/ /\ state' \in [Tasks -> {"free", "given", "done", "over"}]
            /\ \A t \in Tasks : state'[t] = state[t] \/ (state[t] = "given" /\ state'[t] \in {"done", "over"})
<1> DEFINE Told == /\ state' \in [Tasks -> {"free", "given", "done", "over"}]
                   /\ \A t \in Tasks : state'[t] = state[t] \/ (state[t] = "given" /\ state'[t] \in {"done", "over"})
<1>0. ASSUME NEW t \in Tasks, NEW what \in {"DONE", "ERROR", "LOST", "CANCELED"}, Say(t, what), state[t] = "given"
      PROVE  Told
  BY <1>0, SaysIt DEF HearsOf
<1> HIDE DEF Told
<1>1. CASE \E t \in Tasks : Submits(t)
  BY <1>1 DEF Submits, SubmitToHost, SubmitToPool, SubmitToThread, SubmitToRay, Queue, Give, Fits
<1>2. CASE \E t \in Tasks : Cancel(t)
  <2>1. PICK t \in Tasks : Cancel(t)
    BY <1>2
  <2>2. CASE Say(t, "CANCELED") /\ mix[t] \in {"pool", "thread"} /\ phase[t] = "queued"
    <3>1. state[t] = "given"
      BY <2>2, GivenOnes
    <3> QED BY <1>0, <2>2, <3>1 DEF Told
  <2> QED BY <2>1, <2>2 DEF Cancel
<1>3. CASE Shutdown
  <2>1. state' = [t \in Tasks |-> IF t \in LetGo THEN "over" ELSE state[t]]
    BY <1>3 DEF Shutdown
  <2>2. \A t \in LetGo : t \in Tasks /\ state[t] = "given"
    BY GivenOnes DEF LetGo
  <2>3. state \in [Tasks -> {"free", "given", "done", "over"}]
    BY Known
  <2> QED BY <2>1, <2>2, <2>3
<1>4. CASE \E h \in Hosts : Receives(h)
  <2>1. PICK h \in Hosts : Receives(h)
    BY <1>4
  <2>2. host[h].back # <<>> /\ Say(Head(host[h].back)[1], Head(host[h].back)[2])
    BY <2>1 DEF Receives
  <2>3. PICK t \in Tasks, what \in {"DONE", "ERROR", "CANCELED"} :
          t = Head(host[h].back)[1] /\ what = Head(host[h].back)[2] /\ t \in host[h].pending
    BY <2>2, FirstAnswer
  <2>4. state[t] = "given" /\ Say(t, what)
    BY <2>2, <2>3, GivenOnes
  <2> QED BY <1>0, <2>4 DEF Told
<1>5. CASE \E h \in Hosts : \E t \in Tasks : GivesBack(h, t)
  <2>1. PICK h \in Hosts, t \in Tasks : t \in host[h].lost /\ Say(t, "LOST")
    BY <1>5 DEF GivesBack
  <2>2. state[t] = "given"
    BY <2>1, GivenOnes
  <2> QED BY <1>0, <2>1, <2>2 DEF Told
<1>6. CASE \E t \in Tasks : PoolEnds(t) \/ ThreadEnds(t)
  <2>1. PICK t \in Tasks : PoolEnds(t) \/ ThreadEnds(t)
    BY <1>6
  <2>2. \E what \in {"DONE", "ERROR", "LOST", "CANCELED"} : Say(t, what)
    BY <2>1 DEF PoolEnds, ThreadEnds, Outcome
  <2>3. state[t] = "given"
    BY <2>1, GivenOnes DEF PoolEnds, ThreadEnds
  <2> QED BY <1>0, <2>2, <2>3 DEF Told
<1>7. CASE \E t \in Tasks : Finished(t)
  <2>1. PICK t \in Tasks : Finished(t)
    BY <1>7
  <2>2. raw[t] \in {"value", "raised", "lost", "canceled"}
    BY <2>1, Known DEF Finished
  <2>3. Say(t, IF t \in killed /\ raw[t] # "value" THEN Outcome.lost ELSE Outcome[raw[t]])
    BY <2>1 DEF Finished
  <2>4. (IF t \in killed /\ raw[t] # "value" THEN Outcome.lost ELSE Outcome[raw[t]]) \in {"DONE", "ERROR", "LOST", "CANCELED"}
    BY <2>2 DEF Outcome
  <2>5. state[t] = "given"
    BY <2>1 DEF Finished
  <2> QED BY <1>0, <2>3, <2>4, <2>5 DEF Told
<1>8. CASE \/ \E t \in Tasks : FreeCard(t) \/ PoolBegins(t) \/ TakesUp(t) \/ StopNext(t) \/ RayEnds(t) \/ RayDies(t)
           \/ \E t \in Tasks : \E h \in Hosts : Begins(h, t) \/ Answers(h, t)
           \/ KillRay \/ Kill \/ Sent \/ PoolDies \/ PoolBreaks
           \/ \E h \in Hosts : Idle(h) \/ Ends(h) \/ Over(h) \/ Main(h) \/ Waits(h) \/ HostDies(h)
  BY <1>8 DEF FreeCard, PoolBegins, TakesUp, StopNext, RayEnds, RayDies, Begins, Answers, KillRay, Kill, Sent, PoolDies,
              PoolBreaks, Idle, Ends, Over, Main, HostRuns, HostCancels, HostStops, MainAnswers, Waits, HostDies,
              engine, OfHost, OfPool
<1> QED BY <1>1, <1>2, <1>3, <1>4, <1>5, <1>6, <1>7, <1>8 DEF Next, Submits, Goes, RayGoes, Reader, Told

-----------------------------------------------------------------------------
(* Pools, Ray and slots *)

\* Where a task went is written when it is given, and what came to harm and who was canceled is not undone.
LEMMA Lasting ==
  ASSUME Sound, Next
  PROVE  /\ UNCHANGED mix /\ harmed \subseteq harmed' /\ (shut => shut') /\ canceled \subseteq canceled'
         /\ canceled' \subseteq Tasks /\ shut' \in BOOLEAN
         /\ \A t \in Tasks : state[t] # "free" => at'[t] = at[t] /\ state'[t] # "free"
<1>1. UNCHANGED mix /\ harmed \subseteq harmed' /\ (shut => shut') /\ canceled \subseteq canceled'
      /\ canceled' \subseteq Tasks /\ shut' \in BOOLEAN
  <2>0. canceled \subseteq Tasks /\ shut \in BOOLEAN
    BY Known
  <2>1. CASE \E t \in Tasks : Cancel(t)
    BY <2>0, <2>1 DEF Cancel
  <2>2. CASE Kill \/ PoolDies \/ Shutdown \/ \E h \in Hosts : HostDies(h)
    BY <2>0, <2>2 DEF Kill, PoolDies, Shutdown, HostDies, engine, OfPool
  <2>3. CASE \E t \in Tasks : StopNext(t) \/ RayDies(t)
    BY <2>0, <2>3 DEF StopNext, RayDies, engine
  <2>4. CASE UNCHANGED <<mix, harmed, shut, canceled>>
    BY <2>0, <2>4
  <2>5. CASE \E t \in Tasks : Submits(t)
    BY <2>4, <2>5 DEF Submits, SubmitToHost, SubmitToPool, SubmitToThread, SubmitToRay, Queue
  <2>6. CASE \E t \in Tasks : FreeCard(t) \/ PoolBegins(t) \/ TakesUp(t) \/ RayEnds(t) \/ PoolEnds(t) \/ ThreadEnds(t) \/ Finished(t)
    BY <2>4, <2>6 DEF FreeCard, PoolBegins, TakesUp, RayEnds, PoolEnds, ThreadEnds, Finished, engine, OfPool
  <2>7. CASE \E h \in Hosts : \/ Idle(h) \/ Receives(h) \/ Ends(h) \/ Over(h) \/ Main(h) \/ Waits(h)
                              \/ \E t \in Tasks : GivesBack(h, t) \/ Begins(h, t) \/ Answers(h, t)
    BY <2>4, <2>7 DEF Idle, Receives, Ends, Over, Main, HostRuns, HostCancels, HostStops, MainAnswers, Waits, GivesBack, Begins, Answers,
                      engine, OfHost
  <2>8. CASE KillRay \/ Sent \/ PoolBreaks
    BY <2>4, <2>8 DEF KillRay, Sent, PoolBreaks, engine, OfPool
  <2> QED BY <2>1, <2>2, <2>3, <2>5, <2>6, <2>7, <2>8 DEF Next, Submits, Goes, RayGoes, Reader
<1>2. ASSUME NEW t \in Tasks, state[t] # "free" PROVE at'[t] = at[t]
  <2>1. CASE UNCHANGED at
    BY <2>1
  <2>2. CASE \E s \in Tasks : \E n : state[s] = "free" /\ at' = [at EXCEPT ![s] = n]
    BY <1>2, <2>2, Known
  <2>3. CASE \E s \in Tasks : SubmitToHost(s) \/ SubmitToPool(s) \/ SubmitToThread(s) \/ SubmitToRay(s)
    BY <2>2, <2>3 DEF SubmitToHost, SubmitToPool, SubmitToThread, SubmitToRay, Queue, Give, Fits
  <2> QED BY <2>1, <2>3 DEF Next, Cancel, Shutdown, Receives, GivesBack, PoolEnds, ThreadEnds, Finished, Goes, RayGoes, Reader,
              FreeCard, PoolBegins, TakesUp, StopNext, RayEnds, RayDies, Begins, Answers, KillRay, Kill, Sent, PoolDies,
              PoolBreaks, Idle, Ends, Over, Main, HostRuns, HostCancels, HostStops, MainAnswers, Waits, HostDies,
              engine, OfHost, OfPool
<1>3. ASSUME NEW t \in Tasks, state[t] # "free" PROVE state'[t] # "free"
  BY <1>3, StateMoves, Known
<1> QED BY <1>1, <1>2, <1>3

\* The pools, whichever step it is.
LEMMA PoolMoves ==
  ASSUME Sound, Next
  PROVE  \/ UNCHANGED pool
         \/ pool.is = "broken" /\ pool' = [n |-> pool.n + 1, is |-> "up"]
         \/ pool'.n = pool.n /\ pool' \in [n : Nat, is : {"up", "dying", "broken"}] /\ (shut' \/ pool.is # "up" \/ PoolId(pool.n) \in harmed')
<1>0. pool \in [n : Nat, is : {"up", "dying", "broken"}]
  BY Known
<1>1. CASE \E t \in Tasks : SubmitToPool(t)
  BY <1>1 DEF SubmitToPool
<1>2. CASE Kill \/ Shutdown \/ PoolDies \/ PoolBreaks
  BY <1>0, <1>2 DEF Kill, Shutdown, PoolDies, PoolBreaks
<1>3. CASE UNCHANGED pool
  BY <1>3
<1> QED BY <1>1, <1>2, <1>3 DEF Next, SubmitToHost, SubmitToThread, SubmitToRay, Queue, Cancel, Receives, GivesBack,
            PoolEnds, ThreadEnds, Finished, Goes, RayGoes, Reader,
            FreeCard, PoolBegins, TakesUp, StopNext, RayEnds, RayDies, Begins, Answers, KillRay, Sent,
            Idle, Ends, Over, Main, HostRuns, HostCancels, HostStops, MainAnswers, Waits, HostDies, OfHost, OfPool

\* A pool that is not the latest, or not up, came to harm or was shut down.
LEMMA PoolsStay == Sound /\ Next => PoolsFine' /\ pool' \in [n : Nat, is : {"up", "dying", "broken"}]
<1> SUFFICES ASSUME Sound, Next PROVE PoolsFine' /\ pool' \in [n : Nat, is : {"up", "dying", "broken"}]
  OBVIOUS
<1>0. /\ pool \in [n : Nat, is : {"up", "dying", "broken"}] /\ PoolsFine
      /\ at \in [Tasks -> Nat] /\ state \in [Tasks -> {"free", "given", "done", "over"}]
  BY Known
<1>1. pool' \in [n : Nat, is : {"up", "dying", "broken"}] /\ pool'.n >= pool.n /\ pool.n \in Nat /\ pool.n >= 1
  BY <1>0, PoolMoves DEF PoolsFine
<1>2. ASSUME NEW n \in 1 .. pool'.n, n < pool'.n \/ pool'.is # "up" PROVE shut' \/ PoolId(n) \in harmed'
  <2>1. CASE UNCHANGED pool
    BY <1>0, <1>2, <2>1, Lasting DEF PoolsFine
  <2>2. CASE pool.is = "broken" /\ pool' = [n |-> pool.n + 1, is |-> "up"]
    <3>1. n \in 1 .. pool.n
      BY <1>1, <1>2, <2>2
    <3> QED BY <1>0, <2>2, <3>1, Lasting DEF PoolsFine
  <2>3. CASE pool'.n = pool.n /\ (shut' \/ pool.is # "up" \/ PoolId(pool.n) \in harmed')
    <3>1. n < pool.n \/ n = pool.n
      BY <1>1, <1>2, <2>3
    <3> QED BY <1>0, <1>2, <2>3, <3>1, Lasting DEF PoolsFine
  <2> QED BY <2>1, <2>2, <2>3, PoolMoves
<1>3. ASSUME NEW t \in Tasks, mix'[t] = "pool", state'[t] # "free" PROVE at'[t] \in 1 .. pool'.n
  <2>1. mix[t] = "pool"
    BY <1>3, Lasting
  <2>2. CASE state[t] # "free"
    <3>1. at[t] \in 1 .. pool.n /\ at'[t] = at[t]
      BY <1>0, <2>1, <2>2, Lasting DEF PoolsFine
    <3> QED BY <1>1, <3>1
  <2>3. CASE state[t] = "free"
    <3>1. PICK s \in Tasks : Submits(s) /\ state' = [state EXCEPT ![s] = "given"]
      BY <1>0, <1>3, <2>3, StateMoves
    <3>2. s = t
      BY <1>0, <1>3, <2>3, <3>1
    <3>3. SubmitToPool(t)
      BY <2>1, <3>1, <3>2 DEF Submits, SubmitToHost, SubmitToThread, SubmitToRay
    <3>4. at' = [at EXCEPT ![t] = pool'.n]
      BY <3>3 DEF SubmitToPool, Give
    <3> QED BY <1>0, <1>1, <3>4
  <2> QED BY <2>2, <2>3
<1> QED BY <1>0, <1>1, <1>2, <1>3 DEF PoolsFine

-----------------------------------------------------------------------------
(* Tasks *)

\* What a host hears of is a task that was sent there.
LEMMA LetterIs ==
  ASSUME Sound, NEW h \in Hosts, NEW kind \in {"run", "cancel", "stop"}, Hears(h, kind)
  PROVE  /\ Head(host[h].inbox) \in Letters /\ Head(host[h].inbox) \in SetOf(host[h].inbox)
         /\ Head(host[h].inbox).to = h /\ Head(host[h].inbox).kind = kind /\ Proper(Head(host[h].inbox))
         /\ kind \in {"run", "cancel"} => /\ Heard(h) \in Tasks /\ mix[Heard(h)] = "host" /\ at[Heard(h)] = h
                                          /\ state[Heard(h)] # "free"
         /\ kind = "run" => phase[Heard(h)] = "sent"
         /\ kind = "cancel" => Heard(h) \in canceled
<1>1. host[h].inbox # <<>> /\ Head(host[h].inbox).kind = kind
  BY DEF Hears
<1>2. PICK s \in Seq(Letters) : s = host[h].inbox
  BY Known DEF HostType
<1>3. Head(s) \in Letters /\ Head(s) \in SetOf(s)
  BY <1>1, <1>2, TailSet
<1>4. PICK m \in Letters : m = Head(host[h].inbox) /\ m \in SetOf(host[h].inbox)
  BY <1>2, <1>3
<1>5. m.to = h /\ Proper(m)
  BY <1>4, Known DEF HostsFine, Mail
<1> QED BY <1>1, <1>4, <1>5 DEF Proper, Heard

\* A task that is free is nowhere, and one that begins or ends was given.
LEMMA GivenStays == Sound /\ Next => Given'
<1> SUFFICES ASSUME Sound, Next PROVE Given'
  OBVIOUS
<1>0. /\ Given /\ mix \in [Tasks -> {"host", "pool", "thread", "ray", "none"}]
      /\ state \in [Tasks -> {"free", "given", "done", "over"}]
      /\ how \in [Tasks -> {"none", "DONE", "ERROR", "LOST", "CANCELED"}]
      /\ phase \in [Tasks -> {"none", "sent", "queued", "begun", "ended"}]
      /\ card \in [Tasks -> 0 .. Cards] /\ raw \in [Tasks -> {"none", "value", "raised", "lost", "canceled"}]
      /\ killed \subseteq Tasks /\ killing \subseteq Tasks
  BY Known
<1>1. CASE \E t \in Tasks : Submits(t)
  <2>1. PICK t \in Tasks : Submits(t)
    BY <1>1
  <2>2. state[t] = "free" /\ state' = [state EXCEPT ![t] = "given"] /\ UNCHANGED <<mix, how, raw, killed, killing>>
    BY <2>1 DEF Submits, SubmitToHost, SubmitToPool, SubmitToThread, SubmitToRay, Queue, Give, Fits, ofRay
  <2>3. CASE SubmitToHost(t)
    BY <1>0, <2>2, <2>3 DEF SubmitToHost, gpus, Given
  <2>4. CASE SubmitToPool(t)
    <3>1. mix[t] = "pool" /\ phase' = [phase EXCEPT ![t] = "queued"] /\ card' = [card EXCEPT ![t] = Least]
      BY <2>4 DEF SubmitToPool
    <3> QED BY <1>0, <2>2, <3>1 DEF Given
  <2>5. CASE SubmitToThread(t) \/ SubmitToRay(t)
    BY <1>0, <2>2, <2>5 DEF SubmitToThread, SubmitToRay, Queue, gpus, Given
  <2> QED BY <2>1, <2>3, <2>4, <2>5 DEF Submits
<1>2. CASE \E t \in Tasks : Cancel(t)
  <2>1. PICK t \in Tasks : Cancel(t)
    BY <1>2
  <2>2. UNCHANGED <<mix, raw, killed, killing, card>>
    BY <2>1 DEF Cancel, gpus, ofRay
  <2>3. CASE Say(t, "CANCELED") /\ mix[t] \in {"pool", "thread"} /\ phase' = [phase EXCEPT ![t] = "ended"] /\ phase[t] = "queued"
    <3>1. HearsOf(t, "CANCELED")
      BY <2>3, SaysIt
    <3> QED BY <1>0, <2>2, <2>3, <3>1 DEF Given, HearsOf
  <2>4. CASE UNCHANGED <<state, how, slot, phase>>
    BY <1>0, <2>2, <2>4 DEF Given
  <2> QED BY <2>1, <2>3, <2>4 DEF Cancel
<1>3. CASE Shutdown
  <2>1. /\ state' = [t \in Tasks |-> IF t \in LetGo THEN "over" ELSE state[t]]
        /\ how' = [t \in Tasks |-> IF t \in LetGo THEN Outcome.canceled ELSE how[t]]
        /\ phase' = [t \in Tasks |-> IF t \in LetGo THEN "ended" ELSE phase[t]]
        /\ UNCHANGED <<mix, raw, killed, killing, card>>
    BY <1>3 DEF Shutdown, gpus, ofRay
  <2>2. \A t \in LetGo : mix[t] = "thread" /\ phase[t] = "queued"
    BY DEF LetGo
  <2> QED BY <1>0, <2>1, <2>2 DEF Given
<1>4. CASE \E h \in Hosts : Receives(h)
  <2>1. PICK h \in Hosts : Receives(h)
    BY <1>4
  <2>2. host[h].back # <<>> /\ Say(Head(host[h].back)[1], Head(host[h].back)[2])
    BY <2>1 DEF Receives
  <2>3. PICK t \in Tasks, what \in {"DONE", "ERROR", "CANCELED"} :
          t = Head(host[h].back)[1] /\ what = Head(host[h].back)[2] /\ t \in host[h].pending
    BY <2>2, FirstAnswer
  <2>4. HearsOf(t, what) /\ mix[t] = "host" /\ UNCHANGED <<mix, phase, raw, killed, killing, card>>
    BY <2>1, <2>2, <2>3, SaysIt, GivenOnes, SMTT(30) DEF Receives, gpus, ofRay
  <2> QED BY <1>0, <2>4 DEF Given, HearsOf
<1>5. CASE \E h \in Hosts : \E t \in Tasks : GivesBack(h, t)
  <2>1. PICK h \in Hosts, t \in Tasks : GivesBack(h, t)
    BY <1>5
  <2>2. HearsOf(t, "LOST") /\ mix[t] = "host" /\ UNCHANGED <<mix, phase, raw, killed, killing, card>>
    BY <2>1, SaysIt, GivenOnes DEF GivesBack, gpus, ofRay
  <2> QED BY <1>0, <2>2 DEF Given, HearsOf
<1>6. CASE \E t \in Tasks : PoolEnds(t) \/ ThreadEnds(t)
  <2>1. PICK t \in Tasks : PoolEnds(t) \/ ThreadEnds(t)
    BY <1>6
  <2>2. PICK what \in {"DONE", "ERROR", "LOST", "CANCELED"} : Say(t, what)
    BY <2>1 DEF PoolEnds, ThreadEnds, Outcome
  <2>3. /\ HearsOf(t, what) /\ UNCHANGED <<mix, raw, killed, killing, card>>
        /\ phase' = [phase EXCEPT ![t] = "ended"] /\ phase[t] \in {"queued", "begun"}
    BY <2>1, <2>2, SaysIt DEF PoolEnds, ThreadEnds, OfPool, gpus, ofRay
  <2> QED BY <1>0, <2>3 DEF Given, HearsOf
<1>7. CASE \E t \in Tasks : Finished(t)
  <2>1. PICK t \in Tasks : Finished(t)
    BY <1>7
  <2>2. raw[t] \in {"value", "raised", "lost", "canceled"}
    BY <2>1, Known DEF Finished
  <2>3. PICK what \in {"DONE", "ERROR", "LOST", "CANCELED"} : Say(t, what)
    BY <2>1, <2>2 DEF Finished, Outcome
  <2>4. /\ HearsOf(t, what) /\ UNCHANGED <<mix, phase, raw, killing, card>> /\ killed' = killed \ {t}
        /\ phase[t] = "ended"
    BY <1>0, <2>1, <2>3, SaysIt DEF Finished, gpus, Given
  <2> QED BY <1>0, <2>4 DEF Given, HearsOf
<1>8. CASE \E t \in Tasks : PoolBegins(t) \/ TakesUp(t)
  <2>1. PICK t \in Tasks : PoolBegins(t) \/ TakesUp(t)
    BY <1>8
  <2>2. /\ UNCHANGED <<mix, state, how, raw, killed, killing, card>>
        /\ phase' = [phase EXCEPT ![t] = "begun"] /\ phase[t] = "queued"
    BY <2>1 DEF PoolBegins, TakesUp, OfPool, gpus, ofRay
  <2> QED BY <1>0, <2>2 DEF Given
<1>9. CASE \E t \in Tasks : RayEnds(t) \/ RayDies(t)
  <2>1. PICK t \in Tasks : RayEnds(t) \/ RayDies(t)
    BY <1>9
  <2>2. /\ UNCHANGED <<mix, state, how, killed, killing, card>> /\ mix[t] = "ray"
        /\ phase' = [phase EXCEPT ![t] = "ended"] /\ phase[t] \in {"queued", "begun"}
        /\ \E is : raw' = [raw EXCEPT ![t] = is]
    BY <2>1 DEF RayEnds, RayDies, engine, gpus
  <2> QED BY <1>0, <2>2 DEF Given
<1>10. CASE \E t \in Tasks : FreeCard(t)
  <2>1. PICK t \in Tasks : UNCHANGED <<mix, state, how, phase, raw, killed, killing>> /\ card' = [card EXCEPT ![t] = 0]
    BY <1>10 DEF FreeCard, engine, ofRay
  <2> QED BY <1>0, <2>1 DEF Given
<1>11. CASE KillRay \/ \E t \in Tasks : StopNext(t)
  <2>1. /\ UNCHANGED <<mix, state, how, phase, raw, card>>
        /\ \A t \in killed' \cup killing' : t \in killed \cup killing \/ (t \in Tasks /\ mix[t] = "ray" /\ state[t] = "given")
    BY <1>11 DEF KillRay, StopNext, Marked, GivenTo, engine, gpus
  <2> QED BY <1>0, <2>1 DEF Given
<1>12. CASE \E h \in Hosts : HostRuns(h) \/ HostCancels(h) \/ \E t \in Tasks : Begins(h, t) \/ Answers(h, t)
  <2>1. PICK h \in Hosts : HostRuns(h) \/ HostCancels(h) \/ \E t \in Tasks : Begins(h, t) \/ Answers(h, t)
    BY <1>12
  <2>2. UNCHANGED <<mix, state, how, raw, killed, killing, card>>
    BY <2>1 DEF HostRuns, HostCancels, Begins, Answers, OfHost, engine, gpus, ofRay
  <2>3. UNCHANGED phase \/ \E t \in Tasks : /\ mix[t] = "host" /\ state[t] # "free"
                                           /\ \E p : phase' = [phase EXCEPT ![t] = p]
    <3>1. CASE HostRuns(h)
      <4>1. Heard(h) \in Tasks /\ mix[Heard(h)] = "host" /\ state[Heard(h)] # "free"
        BY <3>1, LetterIs DEF HostRuns
      <4> QED BY <3>1, <4>1 DEF HostRuns
    <3>2. CASE HostCancels(h)
      <4>1. Heard(h) \in Tasks /\ mix[Heard(h)] = "host" /\ state[Heard(h)] # "free"
        BY <3>2, LetterIs DEF HostCancels
      <4> QED BY <3>2, <4>1 DEF HostCancels
    <3>3. CASE \E t \in Tasks : Begins(h, t) \/ Answers(h, t)
      <4>1. PICK t \in Tasks : t \in In(h) /\ (\E p : phase' = [phase EXCEPT ![t] = p])
        BY <3>3 DEF Begins, Answers
      <4>2. mix[t] = "host" /\ phase[t] # "none"
        BY <4>1 DEF In
      <4> QED BY <1>0, <4>1, <4>2 DEF Given
    <3> QED BY <2>1, <3>1, <3>2, <3>3
  <2> QED BY <1>0, <2>2, <2>3 DEF Given
<1>13. CASE UNCHANGED <<mix, state, how, phase, raw, killed, killing, card>>
  BY <1>0, <1>13 DEF Given
<1>14. CASE Kill \/ Sent \/ PoolDies \/ PoolBreaks
            \/ \E h \in Hosts : Idle(h) \/ Ends(h) \/ Over(h) \/ HostStops(h) \/ MainAnswers(h) \/ Waits(h) \/ HostDies(h)
  <2>1. CASE Kill \/ Sent \/ PoolDies \/ PoolBreaks
    BY <1>13, <2>1 DEF Kill, Sent, PoolDies, PoolBreaks, engine, gpus, ofRay, OfHost, OfPool
  <2>2. ASSUME NEW h \in Hosts,
               Idle(h) \/ Ends(h) \/ Over(h) \/ HostStops(h) \/ MainAnswers(h) \/ Waits(h) \/ HostDies(h)
        PROVE  UNCHANGED <<mix, state, how, phase, raw, killed, killing, card>>
    BY <2>2, SMTT(30) DEF Idle, Ends, Over, HostStops, MainAnswers, Waits, HostDies, engine, gpus, ofRay, OfHost
  <2> QED BY <1>13, <1>14, <2>1, <2>2
<1> QED BY <1>1, <1>2, <1>3, <1>4, <1>5, <1>6, <1>7, <1>8, <1>9, <1>10, <1>11, <1>12, <1>14
        DEF Next, Submits, Goes, RayGoes, Reader, Main

\* A host is started for a task that was free.
LEMMA StartedStays == Sound /\ Next => Started' /\ last' \in 0 .. Cardinality(Tasks) /\ last <= last'
<1> SUFFICES ASSUME Sound, Next PROVE Started' /\ last' \in 0 .. Cardinality(Tasks) /\ last <= last'
  OBVIOUS
<1> DEFINE busy == {t \in Tasks : state[t] # "free"}
           busyThen == {t \in Tasks : state'[t] # "free"}
<1>0. /\ Started /\ state \in [Tasks -> {"free", "given", "done", "over"}] /\ IsFiniteSet(Tasks)
      /\ last \in Nat /\ last \in 0 .. Cardinality(Tasks) /\ Cardinality(Tasks) \in Nat
  BY Known
<1>00. UNCHANGED mix /\ at \in [Tasks -> Nat]
  BY Lasting, Known
<1>1. IsFiniteSet(busy) /\ Cardinality(busy) \in Nat
  <2>1. IsFiniteSet(busy)
    BY <1>0, FS_Subset
  <2> QED BY <2>1, FS_CardinalityType
<1>2. last <= Cardinality(busy)
  BY <1>0 DEF Started
<1>3. CASE \E t \in Tasks : Submits(t)
  <2>1. PICK t \in Tasks : Submits(t)
    BY <1>3
  <2>2. state[t] = "free" /\ state' = [state EXCEPT ![t] = "given"]
    BY <2>1 DEF Submits, SubmitToHost, SubmitToPool, SubmitToThread, SubmitToRay, Queue, Give, Fits
  <2>3. busyThen = busy \cup {t} /\ t \notin busy
    BY <1>0, <2>2
  <2>4. Cardinality(busyThen) = Cardinality(busy) + 1 /\ IsFiniteSet(busyThen)
    BY <1>1, <2>3, FS_AddElement
  <2>5. last' = last \/ last' = last + 1
    BY <2>1 DEF Submits, SubmitToHost, SubmitToPool, SubmitToThread, SubmitToRay, Queue
  <2>6. Cardinality(busyThen) <= Cardinality(Tasks)
    BY <1>0, FS_Subset
  <2>7. last' <= Cardinality(busyThen)
    BY <1>0, <1>1, <1>2, <2>4, <2>5
  <2>8. last' \in 0 .. Cardinality(Tasks) /\ last <= last'
    BY <1>0, <1>1, <2>4, <2>5, <2>6, <2>7
  <2>9. ASSUME NEW s \in Tasks, mix'[s] = "host", state'[s] # "free" PROVE at'[s] \in 1 .. last'
    <3>1. CASE s = t
      <4>1. SubmitToHost(t)
        BY <1>00, <2>1, <2>9, <3>1 DEF Submits, SubmitToPool, SubmitToThread, SubmitToRay, Queue
      <4>2. at' = [at EXCEPT ![t] = last'] /\ (last # 0 \/ last' = last + 1)
        BY <4>1 DEF SubmitToHost, Give, NeedsHost
      <4> QED BY <1>0, <1>00, <2>5, <2>8, <3>1, <4>2
    <3>2. CASE s # t
      <4>1. state[s] # "free" /\ mix[s] = "host"
        BY <1>0, <1>00, <2>2, <2>9, <3>2
      <4>2. at[s] \in 1 .. last /\ at'[s] = at[s]
        BY <1>0, <4>1, Lasting DEF Started
      <4> QED BY <1>0, <2>8, <4>2
    <3> QED BY <3>1, <3>2
  <2> QED BY <2>7, <2>8, <2>9 DEF Started
<1>4. CASE ~\E t \in Tasks : Submits(t)
  <2>1. UNCHANGED last
    BY <1>4 DEF Next, Submits, Cancel, Shutdown, Receives, GivesBack, PoolEnds, ThreadEnds, Finished, Goes, RayGoes, Reader,
                FreeCard, PoolBegins, TakesUp, StopNext, RayEnds, RayDies, Begins, Answers, KillRay, Kill, Sent, PoolDies,
                PoolBreaks, Idle, Ends, Over, Main, HostRuns, HostCancels, HostStops, MainAnswers, Waits, HostDies,
                OfHost, OfPool
  <2>2. busyThen = busy
    <3>1. \A t \in Tasks : state'[t] # "free" <=> state[t] # "free"
      BY <1>4, StateMoves
    <3> QED BY <3>1
  <2>3. Cardinality(busyThen) = Cardinality(busy)
    BY <2>2
  <2>4. \A t \in Tasks : state'[t] # "free" <=> state[t] # "free"
    BY <1>4, StateMoves
  <2>5. \A t \in Tasks : mix'[t] = "host" /\ state'[t] # "free" => at'[t] \in 1 .. last'
    BY <1>0, <1>00, <2>1, <2>4, Lasting DEF Started
  <2> QED BY <1>0, <1>2, <2>1, <2>3, <2>5 DEF Started
<1> QED BY <1>3, <1>4

\* A slot is taken from the free ones, and given back.
LEMMA SlotsStay == Sound /\ Next => SlotsFine'
<1> SUFFICES ASSUME Sound, Next PROVE SlotsFine'
  OBVIOUS
<1>0. SlotsFine /\ slot \in [Tasks -> 0 .. Slots] /\ Slots \in Nat
  BY Known
<1>1. ASSUME NEW t \in Tasks, slot' = [slot EXCEPT ![t] = 0] PROVE SlotsFine'
  BY <1>0, <1>1 DEF SlotsFine
<1>2. CASE \E t \in Tasks : TakeSlot(t)
  <2>1. PICK t \in Tasks : TakeSlot(t)
    BY <1>2
  <2>2. CASE FreeSlots = {}
    BY <1>1, <2>1, <2>2 DEF TakeSlot
  <2>3. CASE FreeSlots # {}
    <3>1. FreeSlots \in SUBSET Nat
      BY <1>0 DEF FreeSlots
    <3>2. PICK n \in FreeSlots : \A m \in FreeSlots : n <= m
      BY <2>3, <3>1, LeastNumber
    <3>3. Min(FreeSlots) \in FreeSlots
      BY <3>2 DEF Min
    <3>4. \A s \in Tasks : slot[s] # Min(FreeSlots)
      BY <3>3 DEF FreeSlots
    <3>5. slot' = [slot EXCEPT ![t] = Min(FreeSlots)]
      BY <2>1, <2>3 DEF TakeSlot
    <3> QED BY <1>0, <3>4, <3>5 DEF SlotsFine
  <2> QED BY <2>2, <2>3
<1>3. CASE \E t \in Tasks : \E what : Say(t, what)
  BY <1>1, <1>3 DEF Say, FreeSlot
<1>4. CASE UNCHANGED slot
  BY <1>0, <1>4 DEF SlotsFine
<1>5. ASSUME NEW h \in Hosts, Receives(h) PROVE SlotsFine'
  <2>1. Head(host[h].back)[1] \in Tasks /\ Say(Head(host[h].back)[1], Head(host[h].back)[2])
    BY <1>5, FirstAnswer DEF Receives
  <2> QED BY <1>3, <2>1
<1>6. CASE \E t \in Tasks : Submits(t)
  BY <1>2, <1>4, <1>6 DEF Submits, SubmitToHost, SubmitToPool, SubmitToThread, SubmitToRay, Queue
<1>7. CASE \E t \in Tasks : Cancel(t) \/ PoolEnds(t) \/ ThreadEnds(t) \/ Finished(t) \/ \E h \in Hosts : GivesBack(h, t)
  BY <1>3, <1>4, <1>7 DEF Cancel, PoolEnds, ThreadEnds, Finished, GivesBack
<1>8. CASE \/ \E t \in Tasks : FreeCard(t) \/ PoolBegins(t) \/ TakesUp(t) \/ StopNext(t) \/ RayEnds(t) \/ RayDies(t)
           \/ \E t \in Tasks : \E h \in Hosts : Begins(h, t) \/ Answers(h, t)
           \/ KillRay \/ Kill \/ Sent \/ PoolDies \/ PoolBreaks \/ Shutdown
           \/ \E h \in Hosts : Idle(h) \/ Ends(h) \/ Over(h) \/ Main(h) \/ Waits(h) \/ HostDies(h)
  BY <1>4, <1>8 DEF FreeCard, PoolBegins, TakesUp, StopNext, RayEnds, RayDies, Begins, Answers, KillRay, Kill, Sent, PoolDies,
              PoolBreaks, Shutdown, Idle, Ends, Over, Main, HostRuns, HostCancels, HostStops, MainAnswers, Waits, HostDies,
              engine, OfHost, OfPool
<1> QED BY <1>5, <1>6, <1>7, <1>8 DEF Next, Submits, Goes, RayGoes, Reader

\* What the engine is told of a task has its reason.
LEMMA WhyStays == Sound /\ Next => Why'
<1> SUFFICES ASSUME Sound, Next PROVE Why'
  OBVIOUS
<1>0. /\ Why /\ Given /\ mix \in [Tasks -> {"host", "pool", "thread", "ray", "none"}]
      /\ state \in [Tasks -> {"free", "given", "done", "over"}] /\ at \in [Tasks -> Nat]
      /\ how \in [Tasks -> {"none", "DONE", "ERROR", "LOST", "CANCELED"}]
      /\ RayFine /\ PoolsFine
  BY Known
<1>1. ASSUME NEW s \in Tasks, state[s] # "free" PROVE HomeOf(s)' = HomeOf(s)
  BY <1>1, Lasting DEF HomeOf
<1>2. ASSUME NEW s \in Tasks, how'[s] = how[s]
      PROVE  /\ how'[s] = "LOST" => shut' \/ HomeOf(s)' \in harmed'
             /\ how'[s] = "CANCELED" => shut' \/ s \in canceled'
  <2>1. CASE how[s] = "none" \/ how[s] = "DONE" \/ how[s] = "ERROR"
    BY <1>2, <2>1
  <2>2. CASE how[s] = "LOST" \/ how[s] = "CANCELED"
    <3>1. state[s] # "free"
      BY <1>0, <2>2 DEF Given
    <3> QED BY <1>0, <1>1, <1>2, <2>2, <3>1, Lasting DEF Why
  <2> QED BY <1>0, <2>1, <2>2
<1>3. ASSUME NEW t \in Tasks, NEW what \in {"DONE", "ERROR", "LOST", "CANCELED"}, Say(t, what), state[t] # "free",
             what = "LOST" => shut \/ HomeOf(t) \in harmed,
             what = "CANCELED" => t \in canceled'
      PROVE  Why'
  <2>1. HearsOf(t, what)
    BY <1>3, SaysIt
  <2>2. ASSUME NEW s \in Tasks
        PROVE  /\ how'[s] = "LOST" => shut' \/ HomeOf(s)' \in harmed'
               /\ how'[s] = "CANCELED" => shut' \/ s \in canceled'
    <3>1. CASE s # t
      BY <1>2, <2>1, <3>1 DEF HearsOf
    <3>2. CASE s = t
      <4>1. how'[s] = what
        BY <2>1, <3>2 DEF HearsOf
      <4> QED BY <1>1, <1>3, <3>2, <4>1, Lasting
    <3> QED BY <3>1, <3>2
  <2> QED BY <2>2 DEF Why
<1>4. CASE UNCHANGED how
  BY <1>2, <1>4 DEF Why
<1>5. CASE \E t \in Tasks : Cancel(t)
  <2>1. PICK t \in Tasks : Cancel(t)
    BY <1>5
  <2>2. CASE UNCHANGED <<state, how, slot, phase>>
    BY <1>4, <2>2
  <2>3. CASE Say(t, "CANCELED")
    <3>1. t \in canceled' /\ state[t] # "free"
      BY <2>1 DEF Cancel
    <3> QED BY <1>3, <2>3, <3>1
  <2> QED BY <2>1, <2>2, <2>3 DEF Cancel
<1>6. CASE Shutdown
  <2>1. shut' /\ how' = [t \in Tasks |-> IF t \in LetGo THEN Outcome.canceled ELSE how[t]]
    BY <1>6 DEF Shutdown
  <2> QED BY <2>1 DEF Why
<1>7. ASSUME NEW h \in Hosts, Receives(h) PROVE Why'
  <2>2. host[h].back # <<>> /\ Say(Head(host[h].back)[1], Head(host[h].back)[2])
    BY <1>7 DEF Receives
  <2>3. PICK t \in Tasks, what \in {"DONE", "ERROR", "CANCELED"} :
          /\ t = Head(host[h].back)[1] /\ what = Head(host[h].back)[2] /\ t \in host[h].pending
          /\ what = "CANCELED" => t \in canceled
    BY <2>2, FirstAnswer
  <2>4. state[t] # "free" /\ Say(t, what) /\ (what = "CANCELED" => t \in canceled')
    BY <2>2, <2>3, GivenOnes, Lasting
  <2> QED BY <1>3, <2>4
<1>8. ASSUME NEW h \in Hosts, NEW t \in Tasks, GivesBack(h, t) PROVE Why'
  <2>1. host[h].reader = "lost" /\ t \in host[h].lost /\ Say(t, "LOST")
    BY <1>8 DEF GivesBack
  <2>2. state[t] = "given" /\ mix[t] = "host" /\ at[t] = h
    BY <2>1, GivenOnes
  <2>3. Gone(h)
    BY Known DEF HostsFine
  <2>4. ~host[h].alive /\ h <= last
    <3>1. Unborn.lost = {}
      BY DEF Unborn
    <3>2. h \in Nat /\ last \in Nat
      BY Known
    <3> QED BY <2>1, <2>3, <3>1, <3>2 DEF Gone
  <2>5. HostId(h) \in harmed \/ shut
    BY <2>1, <2>3, <2>4 DEF Gone
  <2>6. HomeOf(t) = HostId(h)
    BY <2>2 DEF HomeOf
  <2> QED BY <1>3, <2>1, <2>2, <2>5, <2>6
<1>9. ASSUME NEW t \in Tasks, PoolEnds(t) PROVE Why'
  <2>1. mix[t] = "pool" /\ phase[t] \in {"queued", "begun"}
    BY <1>9 DEF PoolEnds
  <2>2. state[t] = "given"
    BY <2>1, GivenOnes
  <2>3. HomeOf(t) = PoolId(at[t])
    BY <2>1 DEF HomeOf
  <2>4. PICK what \in {"DONE", "ERROR", "LOST"} : Say(t, what) /\ (what = "LOST" => ~(at[t] = pool.n /\ pool.is # "broken"))
    BY <1>9 DEF PoolEnds, Outcome
  <2>5. what = "LOST" => shut \/ HomeOf(t) \in harmed
    <3> SUFFICES ASSUME what = "LOST" PROVE shut \/ HomeOf(t) \in harmed
      OBVIOUS
    <3>1. at[t] \in 1 .. pool.n
      BY <1>0, <2>1, <2>2 DEF PoolsFine
    <3>2. pool.n \in Nat
      BY Known
    <3>3. at[t] < pool.n \/ pool.is # "up"
      BY <2>4, <3>1, <3>2
    <3> QED BY <1>0, <2>3, <3>1, <3>3 DEF PoolsFine
  <2> QED BY <1>3, <2>2, <2>4, <2>5
<1>10. ASSUME NEW t \in Tasks, ThreadEnds(t) PROVE Why'
  <2>1. state[t] = "given"
    BY <1>10, GivenOnes DEF ThreadEnds
  <2>2. PICK what \in {"DONE", "ERROR"} : Say(t, what)
    BY <1>10 DEF ThreadEnds, Outcome
  <2> QED BY <1>3, <2>1, <2>2
<1>11. ASSUME NEW t \in Tasks, Finished(t) PROVE Why'
  <2>1. raw[t] \in {"value", "raised", "lost", "canceled"} /\ state[t] = "given"
    BY <1>11, Known DEF Finished
  <2>2. HomeOf(t) = RayId(t)
    <3>1. mix[t] = "ray"
      BY <1>0, <2>1 DEF Given
    <3> QED BY <3>1 DEF HomeOf
  <2>3. CASE t \in killed /\ raw[t] # "value"
    <3>1. Say(t, "LOST")
      BY <1>11, <2>3 DEF Finished, Outcome
    <3>2. HomeOf(t) \in harmed
      BY <1>0, <2>2, <2>3 DEF RayFine
    <3> QED BY <1>3, <2>1, <3>1, <3>2
  <2>4. CASE ~(t \in killed /\ raw[t] # "value")
    <3>1. PICK what \in {"DONE", "ERROR", "LOST", "CANCELED"} : what = Outcome[raw[t]]
      BY <2>1 DEF Outcome
    <3>2. Say(t, what)
      BY <1>11, <2>4, <3>1 DEF Finished
    <3>3. what = "LOST" => HomeOf(t) \in harmed
      BY <1>0, <2>1, <2>2, <3>1 DEF Outcome, RayFine
    <3>4. what = "CANCELED" => t \in canceled
      BY <1>0, <2>1, <2>4, <3>1 DEF Outcome, RayFine
    <3> QED BY <1>3, <2>1, <3>2, <3>3, <3>4, Lasting
  <2> QED BY <2>3, <2>4
<1>12. CASE \/ \E t \in Tasks : FreeCard(t) \/ PoolBegins(t) \/ TakesUp(t) \/ StopNext(t) \/ RayEnds(t) \/ RayDies(t)
            \/ \E t \in Tasks : \E h \in Hosts : Begins(h, t) \/ Answers(h, t)
            \/ \E t \in Tasks : Submits(t)
            \/ KillRay \/ Kill \/ Sent \/ PoolDies \/ PoolBreaks
            \/ \E h \in Hosts : Idle(h) \/ Ends(h) \/ Over(h) \/ Main(h) \/ Waits(h) \/ HostDies(h)
  BY <1>4, <1>12 DEF FreeCard, PoolBegins, TakesUp, StopNext, RayEnds, RayDies, Begins, Answers, KillRay, Kill, Sent, PoolDies,
              PoolBreaks, Idle, Ends, Over, Main, HostRuns, HostCancels, HostStops, MainAnswers, Waits, HostDies,
              Submits, SubmitToHost, SubmitToPool, SubmitToThread, SubmitToRay, Queue,
              engine, OfHost, OfPool
<1> QED BY <1>5, <1>6, <1>7, <1>8, <1>9, <1>10, <1>11, <1>12 DEF Next, Submits, Goes, RayGoes, Reader

-----------------------------------------------------------------------------
(* Ray, and the cards *)

\* Ray loses a task only where it was stopped or its worker died.
LEMMA RayStays == Sound /\ Next => RayFine'
<1> SUFFICES ASSUME Sound, Next PROVE RayFine'
  OBVIOUS
<1>0. /\ Given /\ RayFine /\ mix \in [Tasks -> {"host", "pool", "thread", "ray", "none"}]
      /\ state \in [Tasks -> {"free", "given", "done", "over"}]
      /\ phase \in [Tasks -> {"none", "sent", "queued", "begun", "ended"}]
      /\ raw \in [Tasks -> {"none", "value", "raised", "lost", "canceled"}]
      /\ killed \subseteq Tasks /\ killing \subseteq Tasks
  BY Known
<1>1. UNCHANGED mix /\ canceled \subseteq canceled' /\ \A t \in Tasks : state[t] # "free" => state'[t] # "free"
  BY Lasting
<1>2. \A t \in Tasks : state'[t] = "given" => state[t] = "given" \/ raw[t] = "none"
  BY <1>0, StateMoves DEF Given
<1>3. CASE \E t \in Tasks : Submits(t)
  <2>1. PICK t \in Tasks : Submits(t)
    BY <1>3
  <2>2. /\ state[t] = "free" /\ state' = [state EXCEPT ![t] = "given"] /\ UNCHANGED <<raw, killed, killing, harmed>>
        /\ \E p : phase' = [phase EXCEPT ![t] = p]
    BY <2>1 DEF Submits, SubmitToHost, SubmitToPool, SubmitToThread, SubmitToRay, Queue, Give, Fits, ofRay
  <2> QED BY <1>0, <1>1, <2>2 DEF Given, RayFine
\* What is no news of Ray.
<1>4. ASSUME UNCHANGED <<raw, killed>>, \A t \in Tasks : RayId(t) \in harmed' => RayId(t) \in harmed,
             \A t \in Tasks : phase'[t] = phase[t] \/ phase'[t] = "ended" \/ phase[t] \in {"queued", "begun"} \/ mix[t] # "ray"
      PROVE  RayFine'
  <2> SUFFICES ASSUME NEW t \in Tasks
               PROVE  /\ t \in killed' => RayId(t) \in harmed'
                      /\ RayId(t) \in harmed' => mix'[t] = "ray" /\ state'[t] # "free"
                      /\ raw'[t] = "lost" => RayId(t) \in harmed'
                      /\ raw'[t] = "canceled" /\ state'[t] = "given" => t \in canceled' \cup killed'
                      /\ RayId(t) \in harmed' /\ phase'[t] \in {"queued", "begun"} => t \in killed'
    BY DEF RayFine, RayId
  <2>1. harmed \subseteq harmed'
    BY Lasting
  <2> QED BY <1>0, <1>1, <1>2, <1>4, <2>1 DEF RayFine
<1>5. CASE \E t \in Tasks : RayEnds(t)
  <2>1. PICK t \in Tasks : RayEnds(t)
    BY <1>5
  <2>2. PICK is \in {"value", "raised", "lost", "canceled"} :
          /\ raw' = [raw EXCEPT ![t] = is] /\ phase' = [phase EXCEPT ![t] = "ended"]
          /\ is \in {"lost", "canceled"} => phase[t] \in {"queued", "begun"}
          /\ is = "lost" => RayId(t) \in harmed
          /\ is = "canceled" => t \in canceled \/ RayId(t) \in harmed
    BY <2>1 DEF RayEnds
  <2>3. UNCHANGED <<state, killed, harmed, canceled>>
    BY <2>1 DEF RayEnds, engine
  <2> QED BY <1>0, <1>1, <2>2, <2>3 DEF RayFine, RayId
<1>6. CASE \E t \in Tasks : RayDies(t)
  <2>1. PICK t \in Tasks : RayDies(t)
    BY <1>6
  <2>2. /\ raw' = [raw EXCEPT ![t] = "lost"] /\ phase' = [phase EXCEPT ![t] = "ended"] /\ phase[t] = "begun" /\ mix[t] = "ray"
        /\ harmed' = harmed \cup {RayId(t)} /\ UNCHANGED <<state, killed, canceled>>
    BY <2>1 DEF RayDies, engine
  <2>3. state[t] # "free"
    BY <1>0, <2>2 DEF Given
  <2>4. \A s \in Tasks : RayId(s) = RayId(t) => s = t
    BY DEF RayId
  <2> QED BY <1>0, <1>1, <2>2, <2>3, <2>4 DEF RayFine
<1>7. CASE \E t \in Tasks : StopNext(t)
  <2>1. PICK t \in Tasks : StopNext(t)
    BY <1>7
  <2>2. /\ t \in killing /\ killed' = killed \cup {t} /\ harmed' = harmed \cup {RayId(t)}
        /\ UNCHANGED <<raw, phase, state, canceled>>
    BY <2>1 DEF StopNext, Marked, engine
  <2>3. mix[t] = "ray" /\ state[t] # "free"
    BY <1>0, <2>2 DEF Given
  <2>4. \A s \in Tasks : RayId(s) = RayId(t) => s = t
    BY DEF RayId
  <2> QED BY <1>0, <1>1, <2>2, <2>3, <2>4 DEF RayFine
<1>8. CASE \E t \in Tasks : Finished(t)
  <2>1. PICK t \in Tasks : Finished(t)
    BY <1>8
  <2>2. /\ killed' = killed \ {t} /\ raw[t] # "none" /\ UNCHANGED <<raw, phase, harmed, canceled>> /\ state[t] = "given"
    BY <2>1 DEF Finished
  <2>3. state'[t] # "given" /\ state'[t] # "free" /\ \A s \in Tasks : s # t => state'[s] = state[s]
    <3>1. raw[t] \in {"value", "raised", "lost", "canceled"}
      BY <1>0, <2>2
    <3>2. PICK what \in {"DONE", "ERROR", "LOST", "CANCELED"} : Say(t, what)
      BY <2>1, <3>1 DEF Finished, Outcome
    <3> QED BY <3>2, SaysIt DEF HearsOf
  <2>4. phase[t] = "ended"
    BY <1>0, <2>2 DEF Given
  <2> QED BY <1>0, <1>1, <2>2, <2>3, <2>4 DEF RayFine
<1>9. CASE \E t \in Tasks : Cancel(t) \/ PoolEnds(t) \/ ThreadEnds(t) \/ PoolBegins(t) \/ TakesUp(t) \/ FreeCard(t)
  BY <1>0, <1>4, <1>9 DEF Cancel, PoolEnds, ThreadEnds, PoolBegins, TakesUp, FreeCard, OfPool, ofRay, engine
<1>10. CASE KillRay \/ Sent \/ PoolBreaks \/ Shutdown
  <2>1. UNCHANGED <<raw, killed, harmed>>
    BY <1>10 DEF KillRay, Sent, PoolBreaks, Shutdown, OfPool, ofRay, engine
  <2>2. UNCHANGED phase \/ phase' = [t \in Tasks |-> IF t \in LetGo THEN "ended" ELSE phase[t]]
    BY <1>10 DEF KillRay, Sent, PoolBreaks, Shutdown
  <2> QED BY <1>0, <1>4, <2>1, <2>2
<1>11. CASE Kill \/ PoolDies \/ \E h \in Hosts : HostDies(h)
  <2>1. UNCHANGED <<raw, killed, phase>>
    BY <1>11 DEF Kill, PoolDies, HostDies, OfPool, ofRay, engine
  <2>2. \A t \in Tasks : RayId(t) \in harmed' => RayId(t) \in harmed
    <3>1. \A t \in Tasks : RayId(t) # PoolId(pool.n) /\ \A h : RayId(t) # HostId(h)
      BY DEF RayId, PoolId, HostId
    <3> QED BY <1>11, <3>1 DEF Kill, PoolDies, HostDies
  <2> QED BY <1>0, <1>4, <2>1, <2>2
<1>12. CASE \E h \in Hosts : \/ Idle(h) \/ Receives(h) \/ Ends(h) \/ Over(h) \/ HostStops(h) \/ MainAnswers(h) \/ Waits(h)
                            \/ \E t \in Tasks : GivesBack(h, t)
  <2>1. UNCHANGED <<raw, killed, harmed, phase>>
    BY <1>12 DEF Idle, Receives, Ends, Over, HostStops, MainAnswers, Waits, GivesBack, OfHost, ofRay, engine
  <2> QED BY <1>0, <1>4, <2>1
<1>13. ASSUME NEW h \in Hosts, HostRuns(h) \/ HostCancels(h) \/ \E t \in Tasks : Begins(h, t) \/ Answers(h, t)
       PROVE  RayFine'
  <2>1. UNCHANGED <<raw, killed, harmed>>
    BY <1>13 DEF HostRuns, HostCancels, Begins, Answers, OfHost, ofRay, engine
  <2>2. UNCHANGED phase \/ \E t \in Tasks : mix[t] = "host" /\ \E p : phase' = [phase EXCEPT ![t] = p]
    <3>1. CASE HostRuns(h)
      <4>1. Heard(h) \in Tasks /\ mix[Heard(h)] = "host"
        BY <3>1, LetterIs DEF HostRuns
      <4> QED BY <3>1, <4>1 DEF HostRuns
    <3>2. CASE HostCancels(h)
      <4>1. Heard(h) \in Tasks /\ mix[Heard(h)] = "host"
        BY <3>2, LetterIs DEF HostCancels
      <4> QED BY <3>2, <4>1 DEF HostCancels
    <3>3. CASE \E t \in Tasks : Begins(h, t) \/ Answers(h, t)
      BY <3>3 DEF Begins, Answers, In
    <3> QED BY <1>13, <3>1, <3>2, <3>3
  <2>3. \A t \in Tasks : phase'[t] = phase[t] \/ mix[t] # "ray"
    BY <1>0, <2>2
  <2> QED BY <1>4, <2>1, <2>3
<1> QED BY <1>3, <1>5, <1>6, <1>7, <1>8, <1>9, <1>10, <1>11, <1>12, <1>13
        DEF Next, Submits, Goes, RayGoes, Reader, Main

\* The first of the cards held least is one of them.
LEMMA LeastIs ==
  ASSUME Sound, Cards > 0
  PROVE  Least \in 1 .. Cards /\ \A d \in 1 .. Cards : held[Least] <= held[d]
<1>0. held \in [1 .. Cards -> Nat] /\ Cards \in Nat
  BY Known
<1> DEFINE T == {held[c] : c \in 1 .. Cards}
<1>1. T \in SUBSET Nat /\ T # {}
  <2>1. 1 \in 1 .. Cards
    BY <1>0
  <2> QED BY <1>0, <2>1
<1> HIDE DEF T
<1>2. PICK m \in T : \A k \in T : m <= k
  BY <1>1, LeastNumber
<1> DEFINE U == {c \in 1 .. Cards : held[c] = m}
<1>3. U \in SUBSET Nat /\ U # {}
  BY <1>0, <1>2 DEF T
<1> HIDE DEF U
<1>4. PICK c \in U : \A d \in U : c <= d
  BY <1>3, LeastNumber
<1>5. c \in 1 .. Cards /\ held[c] = m
  BY <1>4 DEF U
<1>6. ASSUME NEW d \in 1 .. Cards PROVE held[c] < held[d] \/ (held[c] = held[d] /\ c <= d)
  <2>1. held[d] \in T /\ m <= held[d]
    BY <1>2 DEF T
  <2>2. held[d] = m => c <= d
    BY <1>4 DEF U
  <2>3. held[d] \in Nat /\ held[c] \in Nat
    BY <1>0, <1>5
  <2> QED BY <1>5, <2>1, <2>2, <2>3
<1>7. DOMAIN held = 1 .. Cards
  BY <1>0
<1>8. PICK e \in 1 .. Cards : e = Least /\ \A d \in 1 .. Cards : held[e] < held[d] \/ (held[e] = held[d] /\ e <= d)
  BY <1>5, <1>6, <1>7 DEF Least
<1>9. ASSUME NEW d \in 1 .. Cards PROVE held[e] <= held[d]
  <2>1. held[d] \in Nat /\ held[e] \in Nat
    BY <1>0
  <2> QED BY <1>8, <2>1
<1> QED BY <1>8, <1>9

\* The tasks on a card.
On(c) == {t \in Tasks : card[t] = c}

\* The count of a card is the number of its tasks.
LEMMA OnIs ==
  ASSUME Sound, NEW c \in 1 .. Cards
  PROVE  IsFiniteSet(On(c)) /\ Cardinality(On(c)) \in Nat /\ held[c] = Cardinality(On(c)) /\ (On(c) = {} <=> held[c] = 0)
<1>1. IsFiniteSet(Tasks) /\ On(c) \in SUBSET Tasks
  BY Known DEF On
<1>2. IsFiniteSet(On(c))
  BY <1>1, FS_Subset
<1>3. Cardinality(On(c)) \in Nat
  BY <1>2, FS_CardinalityType
<1>4. held[c] = Cardinality(On(c))
  BY Known DEF CardsFine, On
<1>5. Cardinality(On(c)) = 0 <=> On(c) = {}
  BY <1>2, FS_EmptySet
<1> QED BY <1>2, <1>3, <1>4, <1>5

\* With a card for every task that is given and no other held, the one held least is free.
LEMMA LeastIsFree ==
  ASSUME Sound, ~CardsLag, NEW t \in Tasks, mix[t] = "pool", Fits(t)
  PROVE  On(Least) = {}
<1>1. Cardinality(GivenTo("pool")) < Cards /\ \A s \in Tasks : card[s] # 0 => state[s] = "given"
  BY DEF Fits, CardsLag
<1>2. IsFiniteSet(GivenTo("pool")) /\ Cardinality(GivenTo("pool")) \in Nat
  <2>1. IsFiniteSet(Tasks) /\ GivenTo("pool") \in SUBSET Tasks
    BY Known DEF GivenTo
  <2>2. IsFiniteSet(GivenTo("pool"))
    BY <2>1, FS_Subset
  <2> QED BY <2>2, FS_CardinalityType
<1>3. Cards \in Nat /\ Cards > 0
  BY <1>1, <1>2, Known
<1>4. Least \in 1 .. Cards /\ \A d \in 1 .. Cards : held[Least] <= held[d]
  BY <1>3, LeastIs
<1>5. ASSUME \A d \in 1 .. Cards : On(d) # {} PROVE FALSE
  <2> DEFINE g == [d \in 1 .. Cards |-> CHOOSE s \in On(d) : TRUE]
  <2>1. ASSUME NEW d \in 1 .. Cards PROVE g[d] \in GivenTo("pool") /\ card[g[d]] = d
    <3>1. g[d] \in On(d)
      BY <1>5
    <3>2. g[d] \in Tasks /\ card[g[d]] = d /\ d # 0
      BY <1>3, <3>1 DEF On
    <3>3. mix[g[d]] = "pool" /\ state[g[d]] = "given"
      BY <1>1, <3>2, Known DEF Given
    <3> QED BY <3>2, <3>3 DEF GivenTo
  <2>2. g \in [1 .. Cards -> GivenTo("pool")]
    BY <2>1
  <2>3. IsFiniteSet(1 .. Cards) /\ Cardinality(1 .. Cards) = Cards
    <3>1. Cardinality(1 .. Cards) = Cards - 1 + 1
      BY <1>3, FS_Interval
    <3> QED BY <1>3, <3>1, FS_Interval
  <2> HIDE DEF g
  <2>4. \E x, y \in 1 .. Cards : x # y /\ g[x] = g[y]
    <3>1. PICK S, U : S = 1 .. Cards /\ U = GivenTo("pool")
      OBVIOUS
    <3>2. IsFiniteSet(S) /\ IsFiniteSet(U) /\ Cardinality(U) < Cardinality(S) /\ g \in [S -> U]
      BY <1>1, <1>2, <2>2, <2>3, <3>1
    <3>3. \E x, y \in S : x # y /\ g[x] = g[y]
      BY <3>2, FS_PigeonHole
    <3> QED BY <3>1, <3>3
  <2> QED BY <2>1, <2>4
<1>6. PICK d \in 1 .. Cards : On(d) = {}
  BY <1>5
<1>7. held[Least] \in Nat /\ held[Least] <= held[d] /\ held[d] = 0
  BY <1>4, <1>6, OnIs, Known
<1>8. held[Least] = 0
  BY <1>7
<1> QED BY <1>4, <1>8, OnIs

\* A step that leaves the cards alone gives none that needs one.
LEMMA CardsAlone ==
  ASSUME Sound, Next, UNCHANGED gpus
  PROVE  CardsFine'
<1>0. /\ Given /\ CardsFine /\ card \in [Tasks -> 0 .. Cards] /\ UNCHANGED <<held, card, late, mix>>
      /\ state \in [Tasks -> {"free", "given", "done", "over"}]
  BY Known, Lasting DEF gpus
<1>1. ASSUME NEW t \in Tasks, state'[t] = "given"
      PROVE  state[t] = "given" \/ (mix[t] # "pool" /\ card[t] = 0)
  <2>1. CASE state[t] # "free"
    BY <1>0, <1>1, <2>1, StateMoves
  <2>2. CASE state[t] = "free"
    <3>1. PICK s \in Tasks : Submits(s) /\ state' = [state EXCEPT ![s] = "given"]
      BY <1>0, <1>1, <2>2, StateMoves
    <3>2. s = t
      BY <1>0, <1>1, <2>2, <3>1
    <3>3. card[t] = 0
      BY <1>0, <2>2 DEF Given
    <3>4. ASSUME SubmitToPool(t) PROVE FALSE
      <4>1. Cardinality(GivenTo("pool")) < Cards /\ mix[t] = "pool"
        BY <3>4 DEF SubmitToPool, Fits
      <4>2. Cardinality(GivenTo("pool")) \in Nat
        <5>1. IsFiniteSet(Tasks) /\ GivenTo("pool") \in SUBSET Tasks
          BY Known DEF GivenTo
        <5>2. IsFiniteSet(GivenTo("pool"))
          BY <5>1, FS_Subset
        <5> QED BY <5>2, FS_CardinalityType
      <4>3. Cards \in Nat
        BY Known
      <4>4. Cards > 0
        BY <4>1, <4>2, <4>3
      <4>5. Least \in 1 .. Cards
        BY <4>4, LeastIs
      <4>6. card' = [card EXCEPT ![t] = Least]
        BY <3>4 DEF SubmitToPool
      <4>7. Least # 0
        BY <4>3, <4>5
      <4> QED BY <1>0, <3>3, <4>6, <4>7
    <3>5. mix[t] # "pool"
      BY <3>1, <3>2, <3>4 DEF Submits, SubmitToHost, SubmitToThread, SubmitToRay
    <3> QED BY <3>3, <3>5
  <2> QED BY <2>1, <2>2
<1>2. \A c \in 1 .. Cards : held'[c] = Cardinality({t \in Tasks : card'[t] = c})
  BY <1>0 DEF CardsFine
<1>3. \A t \in Tasks : mix'[t] = "pool" /\ state'[t] = "given" => card'[t] # 0
  BY <1>0, <1>1 DEF CardsFine
<1>4. \A s, t \in Tasks : s # t /\ state'[s] = "given" /\ state'[t] = "given" /\ card'[s] # 0 /\ card'[s] = card'[t] =>
                            s \in late' \/ t \in late'
  BY <1>0, <1>1 DEF CardsFine
<1> QED BY <1>2, <1>3, <1>4 DEF CardsFine

\* The counts follow what takes a card and what gives it back.
LEMMA CardsStay ==
  Sound /\ Next => CardsFine' /\ held' \in [1 .. Cards -> Nat] /\ card' \in [Tasks -> 0 .. Cards] /\ late' \subseteq Tasks
<1> SUFFICES ASSUME Sound, Next
             PROVE  CardsFine' /\ held' \in [1 .. Cards -> Nat] /\ card' \in [Tasks -> 0 .. Cards] /\ late' \subseteq Tasks
  OBVIOUS
<1>0. /\ Given /\ CardsFine /\ card \in [Tasks -> 0 .. Cards] /\ held \in [1 .. Cards -> Nat]
      /\ state \in [Tasks -> {"free", "given", "done", "over"}] /\ Cards \in Nat /\ UNCHANGED mix
      /\ phase \in [Tasks -> {"none", "sent", "queued", "begun", "ended"}] /\ late \subseteq Tasks
  BY Known, Lasting
<1>1. CASE \E t \in Tasks : SubmitToPool(t)
  <2>1. PICK t \in Tasks : SubmitToPool(t)
    BY <1>1
  <2>2. /\ mix[t] = "pool" /\ Fits(t) /\ state[t] = "free" /\ state' = [state EXCEPT ![t] = "given"]
        /\ held' = [held EXCEPT ![Least] = held[Least] + 1] /\ card' = [card EXCEPT ![t] = Least]
        /\ late' = IF CardsLag THEN late \cup {t} ELSE late
    BY <2>1 DEF SubmitToPool, Give, Fits
  <2>3. Cards > 0
    <3>1. Cardinality(GivenTo("pool")) < Cards
      BY <2>2 DEF Fits
    <3>2. IsFiniteSet(Tasks) /\ GivenTo("pool") \in SUBSET Tasks
      BY Known DEF GivenTo
    <3>3. IsFiniteSet(GivenTo("pool"))
      BY <3>2, FS_Subset
    <3>4. Cardinality(GivenTo("pool")) \in Nat
      BY <3>3, FS_CardinalityType
    <3> QED BY <1>0, <3>1, <3>4
  <2>4. PICK l \in 1 .. Cards : l = Least
    BY <2>3, LeastIs
  <2>5. card[t] = 0 /\ l # 0
    BY <1>0, <2>2 DEF Given
  <2>6. /\ held' = [held EXCEPT ![l] = held[l] + 1] /\ card' = [card EXCEPT ![t] = l]
        /\ held' \in [1 .. Cards -> Nat] /\ card' \in [Tasks -> 0 .. Cards]
    BY <1>0, <2>2, <2>4
  <2>7. ASSUME NEW c \in 1 .. Cards PROVE held'[c] = Cardinality({s \in Tasks : card'[s] = c})
    <3>1. IsFiniteSet(On(c)) /\ Cardinality(On(c)) \in Nat /\ held[c] = Cardinality(On(c)) /\ t \notin On(c)
      BY <2>5, OnIs DEF On
    <3>2. CASE c = l
      <4>1. {s \in Tasks : card'[s] = c} = On(c) \cup {t}
        BY <1>0, <2>6, <3>2 DEF On
      <4>2. Cardinality(On(c) \cup {t}) = Cardinality(On(c)) + 1
        BY <3>1, FS_AddElement
      <4> QED BY <1>0, <2>6, <3>1, <3>2, <4>1, <4>2
    <3>3. CASE c # l
      <4>1. {s \in Tasks : card'[s] = c} = On(c)
        BY <1>0, <2>5, <2>6, <3>3 DEF On
      <4> QED BY <1>0, <2>6, <3>1, <3>3, <4>1
    <3> QED BY <3>2, <3>3
  <2>8. \A s \in Tasks : mix'[s] = "pool" /\ state'[s] = "given" => card'[s] # 0
    BY <1>0, <2>2, <2>5, <2>6 DEF CardsFine
  <2>9. ASSUME NEW s \in Tasks, NEW u \in Tasks, s # u, state'[s] = "given", state'[u] = "given", card'[s] # 0, card'[s] = card'[u]
        PROVE  s \in late' \/ u \in late'
    <3>1. CASE s # t /\ u # t
      <4>1. state[s] = "given" /\ state[u] = "given" /\ card[s] # 0 /\ card[s] = card[u]
        BY <1>0, <2>2, <2>6, <2>9, <3>1
      <4>2. s \in late \/ u \in late
        BY <1>0, <2>9, <4>1 DEF CardsFine
      <4> QED BY <2>2, <4>2
    <3>2. CASE s = t \/ u = t
      <4>1. CASE CardsLag
        BY <2>2, <3>2, <4>1
      <4>2. CASE ~CardsLag
        <5>1. On(l) = {}
          BY <2>2, <2>4, <4>2, LeastIsFree
        <5>2. \A v \in Tasks : card[v] # l
          BY <5>1 DEF On
        <5> QED BY <1>0, <2>6, <2>9, <3>2, <5>2
      <4> QED BY <4>1, <4>2
    <3> QED BY <3>1, <3>2
  <2>10. late' \subseteq Tasks
    BY <1>0, <2>2
  <2> QED BY <2>6, <2>7, <2>8, <2>9, <2>10 DEF CardsFine
<1>2. CASE \E t \in Tasks : FreeCard(t)
  <2>1. PICK t \in Tasks : FreeCard(t)
    BY <1>2
  <2>2. /\ card[t] # 0 /\ phase[t] = "ended" /\ UNCHANGED <<state, late>>
        /\ held' = [held EXCEPT ![card[t]] = held[card[t]] - 1] /\ card' = [card EXCEPT ![t] = 0]
    BY <2>1 DEF FreeCard, engine
  <2>3. PICK l \in 1 .. Cards : l = card[t]
    BY <1>0, <2>2
  <2>4. state[t] # "given"
    BY <1>0, <2>2 DEF Given
  <2>5. IsFiniteSet(On(l)) /\ Cardinality(On(l)) \in Nat /\ held[l] = Cardinality(On(l)) /\ t \in On(l) /\ held[l] # 0
    BY <2>3, OnIs DEF On
  <2>6. PICK k \in Nat : k = held[l] - 1
    BY <2>5
  <2>7. /\ held' = [held EXCEPT ![l] = k] /\ held' \in [1 .. Cards -> Nat] /\ card' \in [Tasks -> 0 .. Cards]
    BY <1>0, <2>2, <2>3, <2>6
  <2>8. ASSUME NEW c \in 1 .. Cards PROVE held'[c] = Cardinality({s \in Tasks : card'[s] = c})
    <3>1. CASE c = l
      <4>1. {s \in Tasks : card'[s] = c} = On(c) \ {t}
        BY <1>0, <2>2, <3>1 DEF On
      <4>2. Cardinality(On(c) \ {t}) = Cardinality(On(c)) - 1
        BY <2>5, <3>1, FS_RemoveElement
      <4> QED BY <1>0, <2>5, <2>6, <2>7, <3>1, <4>1, <4>2
    <3>2. CASE c # l
      <4>1. {s \in Tasks : card'[s] = c} = On(c)
        BY <1>0, <2>2, <2>3, <3>2 DEF On
      <4>2. held[c] = Cardinality(On(c))
        BY OnIs
      <4> QED BY <1>0, <2>7, <3>2, <4>1, <4>2
    <3> QED BY <3>1, <3>2
  <2>9. \A s \in Tasks : mix'[s] = "pool" /\ state'[s] = "given" => card'[s] # 0
    BY <1>0, <2>2, <2>4 DEF CardsFine
  <2>10. \A s, u \in Tasks : s # u /\ state'[s] = "given" /\ state'[u] = "given" /\ card'[s] # 0 /\ card'[s] = card'[u] =>
                               s \in late' \/ u \in late'
    BY <1>0, <2>2, <2>4 DEF CardsFine
  <2> QED BY <1>0, <2>2, <2>7, <2>8, <2>9, <2>10 DEF CardsFine
<1>3. CASE UNCHANGED gpus
  BY <1>0, <1>3, CardsAlone DEF gpus
<1> QED BY <1>1, <1>2, <1>3 DEF Next, SubmitToHost, SubmitToThread, SubmitToRay, Queue, Cancel, Receives, GivesBack,
            PoolEnds, ThreadEnds, Finished, Goes, RayGoes, Reader, Kill, Shutdown, PoolDies, PoolBreaks,
            PoolBegins, TakesUp, StopNext, RayEnds, RayDies, Begins, Answers, KillRay, Sent,
            Idle, Ends, Over, Main, HostRuns, HostCancels, HostStops, MainAnswers, Waits, HostDies, OfHost, OfPool

-----------------------------------------------------------------------------
(* What the steps change in a host *)

\* Whom a step may hear of, among the tasks of a host.
LEMMA HostTasks ==
  ASSUME Sound, Next, NEW t \in Tasks, mix[t] = "host", state[t] = "given", state'[t] # "given"
  PROVE  \/ \E g \in Hosts : Receives(g) /\ Head(host[g].back)[1] = t
         \/ \E g \in Hosts : GivesBack(g, t)
<1>0. /\ mix \in [Tasks -> {"host", "pool", "thread", "ray", "none"}]
      /\ state \in [Tasks -> {"free", "given", "done", "over"}] /\ Given
  BY Known
<1>1. CASE \E s \in Tasks : Submits(s)
  <2>1. PICK s \in Tasks : Submits(s)
    BY <1>1
  <2>2. state' = [state EXCEPT ![s] = "given"]
    BY <2>1 DEF Submits, SubmitToHost, SubmitToPool, SubmitToThread, SubmitToRay, Queue, Give
  <2> QED BY <1>0, <2>2
<1>2. ASSUME NEW s \in Tasks, NEW what, Say(s, what), mix[s] # "host" PROVE FALSE
  <2>1. s # t /\ state' = [state EXCEPT ![s] = IF what = "DONE" THEN "done" ELSE "over"]
    BY <1>2 DEF Say
  <2> QED BY <1>0, <2>1
<1>3. CASE \E s \in Tasks : Cancel(s) \/ PoolEnds(s) \/ ThreadEnds(s) \/ Finished(s)
  <2>1. PICK s \in Tasks : Cancel(s) \/ PoolEnds(s) \/ ThreadEnds(s) \/ Finished(s)
    BY <1>3
  <2>2. UNCHANGED state \/ (mix[s] # "host" /\ \E what : Say(s, what))
    <3>1. CASE Finished(s)
      <4>1. mix[s] # "host"
        BY <1>0, <3>1 DEF Finished, Given
      <4> QED BY <3>1, <4>1 DEF Finished
    <3>2. CASE Cancel(s) \/ PoolEnds(s) \/ ThreadEnds(s)
      BY <3>2 DEF Cancel, PoolEnds, ThreadEnds
    <3> QED BY <2>1, <3>1, <3>2
  <2> QED BY <1>2, <2>2
<1>4. CASE Shutdown
  <2>1. state' = [s \in Tasks |-> IF s \in LetGo THEN "over" ELSE state[s]]
    BY <1>4 DEF Shutdown
  <2> QED BY <1>0, <2>1 DEF LetGo
<1>5. ASSUME NEW g \in Hosts, Receives(g), Head(host[g].back)[1] # t PROVE FALSE
  <2>1. PICK s, what : s \in Tasks /\ s = Head(host[g].back)[1] /\ Say(s, what)
    BY <1>5, FirstAnswer DEF Receives
  <2>2. s # t /\ state' = [state EXCEPT ![s] = IF what = "DONE" THEN "done" ELSE "over"]
    BY <1>5, <2>1 DEF Say
  <2> QED BY <1>0, <2>2
<1>6. ASSUME NEW g \in Hosts, NEW s \in Tasks, GivesBack(g, s), s # t PROVE FALSE
  <2>1. state' = [state EXCEPT ![s] = IF "LOST" = "DONE" THEN "done" ELSE "over"]
    BY <1>6 DEF GivesBack, Say
  <2> QED BY <1>0, <1>6, <2>1
<1>7. CASE UNCHANGED state
  BY <1>7
<1>8. CASE \/ \E s \in Tasks : FreeCard(s) \/ PoolBegins(s) \/ TakesUp(s) \/ StopNext(s) \/ RayEnds(s) \/ RayDies(s)
           \/ \E s \in Tasks : \E h \in Hosts : Begins(h, s) \/ Answers(h, s)
           \/ KillRay \/ Kill \/ Sent \/ PoolDies \/ PoolBreaks
           \/ \E h \in Hosts : Idle(h) \/ Ends(h) \/ Over(h) \/ Main(h) \/ Waits(h) \/ HostDies(h)
  BY <1>7, <1>8 DEF FreeCard, PoolBegins, TakesUp, StopNext, RayEnds, RayDies, Begins, Answers, KillRay, Kill, Sent, PoolDies,
              PoolBreaks, Idle, Ends, Over, Main, HostRuns, HostCancels, HostStops, MainAnswers, Waits, HostDies,
              engine, OfHost, OfPool
<1> QED BY <1>1, <1>3, <1>4, <1>5, <1>6, <1>8 DEF Next, Submits, Goes, RayGoes, Reader

\* How far a task of a host is: sent, then queued, begun and ended, and never back.
LEMMA PhaseMoves ==
  ASSUME Sound, Next, NEW t \in Tasks, mix[t] = "host"
  PROVE  /\ phase[t] = "ended" => phase'[t] = "ended"
         /\ phase'[t] \in {"sent", "queued", "begun"} => phase[t] \in {"sent", "queued", "begun"} \/ SubmitToHost(t)
         /\ phase[t] = "sent" => phase'[t] = "sent" \/ \E h \in Hosts : HostRuns(h) /\ Heard(h) = t
<1>0. /\ mix \in [Tasks -> {"host", "pool", "thread", "ray", "none"}]
      /\ state \in [Tasks -> {"free", "given", "done", "over"}] /\ Given
      /\ phase \in [Tasks -> {"none", "sent", "queued", "begun", "ended"}]
  BY Known
<1>1. CASE phase'[t] = phase[t]
  BY <1>1
<1>2. ASSUME NEW s \in Tasks, NEW p, phase' = [phase EXCEPT ![s] = p], s # t PROVE phase'[t] = phase[t]
  BY <1>0, <1>2
<1>3. CASE \E s \in Tasks : Submits(s)
  <2>1. PICK s \in Tasks : Submits(s)
    BY <1>3
  <2>2. state[s] = "free" /\ \E p : phase' = [phase EXCEPT ![s] = p]
    BY <2>1 DEF Submits, SubmitToHost, SubmitToPool, SubmitToThread, SubmitToRay, Queue, Fits
  <2>3. CASE s # t
    BY <1>1, <1>2, <2>2, <2>3
  <2>4. CASE s = t
    <3>1. phase[t] = "none"
      BY <1>0, <2>2, <2>4 DEF Given
    <3>2. SubmitToHost(t)
      BY <2>1, <2>4 DEF Submits, SubmitToPool, SubmitToThread, SubmitToRay
    <3> QED BY <3>1, <3>2
  <2> QED BY <2>3, <2>4
<1>4. CASE \E s \in Tasks : Cancel(s) \/ PoolEnds(s) \/ ThreadEnds(s) \/ PoolBegins(s) \/ TakesUp(s) \/ RayEnds(s) \/ RayDies(s)
  <2>1. UNCHANGED phase \/ \E s \in Tasks : mix[s] # "host" /\ \E p : phase' = [phase EXCEPT ![s] = p]
    BY <1>4 DEF Cancel, PoolEnds, ThreadEnds, PoolBegins, TakesUp, RayEnds, RayDies
  <2> QED BY <1>1, <1>2, <2>1
<1>5. CASE Shutdown
  <2>1. phase' = [s \in Tasks |-> IF s \in LetGo THEN "ended" ELSE phase[s]]
    BY <1>5 DEF Shutdown
  <2> QED BY <1>0, <1>1, <2>1 DEF LetGo
<1>6. ASSUME NEW h \in Hosts, HostRuns(h)
      PROVE  phase'[t] = phase[t] \/ (Heard(h) = t /\ phase[t] = "sent" /\ phase'[t] \in {"queued", "ended"})
  <2>1. PICK s \in Tasks : s = Heard(h) /\ phase[s] = "sent"
    BY <1>6, LetterIs DEF HostRuns
  <2>2. PICK p \in {"queued", "ended"} : phase' = [phase EXCEPT ![s] = p]
    BY <1>6, <2>1 DEF HostRuns
  <2> QED BY <1>0, <2>1, <2>2
<1>7. ASSUME NEW h \in Hosts, HostCancels(h)
      PROVE  phase'[t] = phase[t] \/ (phase[t] = "queued" /\ phase'[t] = "ended")
  <2>1. PICK s \in Tasks : s = Heard(h)
    BY <1>7, LetterIs DEF HostCancels
  <2>2. UNCHANGED phase \/ (phase[s] = "queued" /\ phase' = [phase EXCEPT ![s] = "ended"])
    BY <1>7, <2>1 DEF HostCancels
  <2> QED BY <1>0, <2>2
<1>8. ASSUME NEW h \in Hosts, NEW s \in Tasks, Begins(h, s) \/ Answers(h, s)
      PROVE  phase'[t] = phase[t] \/ (phase[t] \in {"queued", "begun"} /\ phase'[t] \in {"begun", "ended"})
  <2>1. phase[s] \in {"queued", "begun"} /\ \E p \in {"begun", "ended"} : phase' = [phase EXCEPT ![s] = p]
    BY <1>8 DEF Begins, Answers
  <2> QED BY <1>0, <2>1
<1>9. CASE \/ \E s \in Tasks : FreeCard(s) \/ StopNext(s) \/ Finished(s)
           \/ KillRay \/ Kill \/ Sent \/ PoolDies \/ PoolBreaks
           \/ \E h \in Hosts : \/ Idle(h) \/ Receives(h) \/ Ends(h) \/ Over(h) \/ HostStops(h) \/ MainAnswers(h) \/ Waits(h) \/ HostDies(h)
                               \/ \E s \in Tasks : GivesBack(h, s)
  <2>1. UNCHANGED phase
    BY <1>9 DEF FreeCard, StopNext, Finished, KillRay, Kill, Sent, PoolDies,
              PoolBreaks, Idle, Receives, Ends, Over, HostStops, MainAnswers, Waits, HostDies, GivesBack,
              engine, OfHost, OfPool
  <2> QED BY <1>1, <2>1
<1> QED BY <1>1, <1>3, <1>4, <1>5, <1>6, <1>7, <1>8, <1>9 DEF Next, Submits, Goes, RayGoes, Reader, Main

\* A letter stays right while its task is still sent, or its host has nothing to do.
LEMMA LetterStays ==
  ASSUME Sound, Next, NEW m \in Letters, Proper(m),
         m.kind = "run" => phase'[m.task] = "sent",
         m.kind = "stop" => host'[m.to].over /\ host'[m.to].pending = {} /\ host'[m.to].lost = {}
  PROVE  Proper(m)'
<1>1. UNCHANGED mix /\ canceled \subseteq canceled' /\ \A t \in Tasks : state[t] # "free" => at'[t] = at[t] /\ state'[t] # "free"
  BY Lasting
<1>2. m.to \in Nat /\ last \in Nat /\ last' \in Nat /\ last <= last'
  <2>1. m.to \in 1 .. Cardinality(Tasks) /\ last \in Nat /\ Cardinality(Tasks) \in Nat
    BY Known DEF Letters, Hosts
  <2>2. last' \in 0 .. Cardinality(Tasks) /\ last <= last'
    BY StartedStays
  <2> QED BY <2>1, <2>2
<1>3. m.to <= last'
  BY <1>2 DEF Proper
<1> QED BY <1>1, <1>3 DEF Proper

\* A letter that was heard is gone, and a task stays sent until its letter is.
LEMMA RunsTakes ==
  ASSUME Sound, NEW h \in Hosts, HostRuns(h)
  PROVE  host'[h].inbox = Tail(host[h].inbox) /\ host'[h].inbox # host[h].inbox
<1>1. host[h].inbox # <<>> /\ (\/ host' = [host EXCEPT ![h].inbox = Tail(@)]
                              \/ \E what : host' = [host EXCEPT ![h].inbox = Tail(@), ![h].says = <<Heard(h), what>>])
  BY DEF HostRuns, Hears
<1>2. host \in [Hosts -> HostType] /\ host[h] \in HostType /\ host[h].inbox \in Seq(Letters)
  BY Known DEF HostType
<1>3. host'[h].inbox = Tail(host[h].inbox)
  BY <1>1, <1>2 DEF HostType
<1>4. Len(Tail(host[h].inbox)) # Len(host[h].inbox)
  BY <1>1, <1>2
<1> QED BY <1>3, <1>4

\* A task stays sent until its host hears of it.
LEMMA SentStays ==
  ASSUME Sound, Next, NEW h \in Hosts, ~HostRuns(h), NEW m \in Letters, m.to = h, Proper(m), m.kind = "run"
  PROVE  phase'[m.task] = "sent"
<1>1. PICK t \in Tasks : t = m.task /\ mix[t] = "host" /\ at[t] = h /\ phase[t] = "sent"
  BY DEF Proper
<1>2. ASSUME NEW g \in Hosts, HostRuns(g), Heard(g) = t PROVE FALSE
  <2>1. at[t] = g
    BY <1>2, LetterIs DEF HostRuns
  <2> QED BY <1>1, <1>2, <2>1
<1> QED BY <1>1, <1>2, PhaseMoves

Whole(h) ==
  /\ Mail(h) /\ News(h) /\ Holds(h) /\ Gone(h)
  /\ Len(host[h].inbox) <= Room /\ Len(host[h].back) <= Room

\* A new host is alive.
LEMMA NewHost ==
  ASSUME Sound, Next, last' # last
  PROVE  last' = last + 1 /\ host'[last'].alive /\ \E t \in Tasks : SubmitToHost(t)
<1>1. PICK t \in Tasks : SubmitToHost(t)
  BY DEF Next, SubmitToPool, SubmitToThread, SubmitToRay, Queue, Cancel, Shutdown, Receives, GivesBack, PoolEnds, ThreadEnds,
         Finished, Goes, RayGoes, Reader,
         FreeCard, PoolBegins, TakesUp, StopNext, RayEnds, RayDies, Begins, Answers, KillRay, Kill, Sent, PoolDies,
         PoolBreaks, Idle, Ends, Over, Main, HostRuns, HostCancels, HostStops, MainAnswers, Waits, HostDies,
         OfHost, OfPool
<1>2. NeedsHost /\ last' = last + 1
  BY <1>1 DEF SubmitToHost
<1>3. last' \in Hosts
  <2>1. last' \in 0 .. Cardinality(Tasks) /\ last \in Nat /\ Cardinality(Tasks) \in Nat
    BY StartedStays, Known
  <2> QED BY <1>2, <2>1 DEF Hosts
<1>4. host' = [host EXCEPT ![last'] = [Born EXCEPT !.pending = Born.pending \cup {t}]]
  BY <1>1, <1>2 DEF SubmitToHost, Taking
<1>5. host'[last'] = [Born EXCEPT !.pending = Born.pending \cup {t}]
  BY <1>3, <1>4, Known
<1> QED BY <1>1, <1>2, <1>5 DEF Born, Unborn

\* A step that leaves a host as it was.
LEMMA Untouched ==
  ASSUME Sound, Next, NEW h \in Hosts, host'[h] = host[h]
  PROVE  Whole(h)'
<1>0. /\ mix \in [Tasks -> {"host", "pool", "thread", "ray", "none"}]
      /\ state \in [Tasks -> {"free", "given", "done", "over"}] /\ Given
      /\ phase \in [Tasks -> {"none", "sent", "queued", "begun", "ended"}] /\ host \in [Hosts -> HostType]
      /\ Mail(h) /\ News(h) /\ Holds(h) /\ Gone(h)
  BY Known DEF HostsFine
<1>1. /\ UNCHANGED mix /\ canceled \subseteq canceled' /\ harmed \subseteq harmed' /\ (shut => shut')
      /\ \A t \in Tasks : state[t] # "free" => at'[t] = at[t] /\ state'[t] # "free"
  BY Lasting
<1>2. PICK x \in HostType : x = host[h] /\ x = host'[h]
  BY <1>0
<1>3. x.inbox \in Seq(Letters) /\ x.back \in Seq(Replies) /\ x.pending \subseteq Tasks /\ x.lost \subseteq Tasks
  BY DEF HostType
<1>4. \A m \in SetOf(x.inbox) : m \in Letters
  BY <1>3 DEF SetOf
<1>5. \A y \in SetOf(x.back) : y \in Replies /\ y[1] \in Tasks
  <2>1. \A y \in SetOf(x.back) : y \in Replies
    BY <1>3 DEF SetOf
  <2> QED BY <2>1 DEF Replies
<1>6. Mail(h)'
  <2>1. ASSUME NEW m \in SetOf(x.inbox) PROVE m.to = h /\ Proper(m)'
    <3>1. m \in Letters /\ m.to = h /\ Proper(m)
      BY <1>0, <1>2, <1>4, <2>1 DEF Mail
    <3>2. m.kind = "stop" => host'[m.to].over /\ host'[m.to].pending = {} /\ host'[m.to].lost = {}
      BY <1>2, <3>1 DEF Proper
    <3>3. ASSUME HostRuns(h) PROVE FALSE
      BY <1>2, <3>3, RunsTakes
    <3>4. m.kind = "run" => phase'[m.task] = "sent"
      BY <3>1, <3>3, SentStays
    <3> QED BY <3>1, <3>2, <3>4, LetterStays
  <2>2. Distinct(x.inbox)
    BY <1>0, <1>2 DEF Mail
  <2> QED BY <1>2, <2>1, <2>2 DEF Mail
<1>7. News(h)'
  <2>1. ASSUME NEW y, y[1] \in Tasks, Owed(h, y) PROVE Owed(h, y)'
    <3>1. mix[y[1]] = "host"
      BY <1>0, <2>1 DEF Owed, Holds
    <3>2. phase'[y[1]] = "ended"
      BY <2>1, <3>1, PhaseMoves DEF Owed
    <3> QED BY <1>1, <1>2, <2>1, <3>2 DEF Owed
  <2>2. x.says # <<>> => x.says[1] \in Tasks
    <3>1. x.says = <<>> \/ x.says \in Replies
      BY DEF HostType
    <3> QED BY <3>1 DEF Replies
  <2>3. \A y \in SetOf(x.back) : Owed(h, y)'
    BY <1>0, <1>2, <1>5, <2>1 DEF News
  <2>4. x.says # <<>> => Owed(h, x.says)'
    <3>1. PICK y : y = x.says
      OBVIOUS
    <3>2. x.says # <<>> => Owed(h, y)
      BY <1>0, <1>2, <3>1 DEF News
    <3>3. x.says # <<>> => Owed(h, y)'
      BY <2>1, <2>2, <3>1, <3>2
    <3> QED BY <3>1, <3>3
  <2> QED BY <1>0, <1>2, <2>3, <2>4 DEF News
<1>8. Holds(h)'
  <2>1. ASSUME NEW t \in x.pending \cup x.lost PROVE mix'[t] = "host" /\ at'[t] = h /\ state'[t] = "given"
    <3>1. t \in Tasks /\ mix[t] = "host" /\ at[t] = h /\ state[t] = "given"
      BY <1>0, <1>2, <1>3 DEF Holds
    <3>2. at'[t] = h /\ mix'[t] = "host"
      BY <1>1, <3>1
    <3>3. ASSUME NEW g \in Hosts, Receives(g), Head(host[g].back)[1] = t PROVE FALSE
      <4>1. host[g].back # <<>>
        BY <3>3 DEF Receives
      <4>2. t \in host[g].pending
        BY <3>3, <4>1, FirstAnswer
      <4>3. g = h
        BY <3>1, <4>2, GivenOnes
      <4>4. host' = [host EXCEPT ![g].back = Tail(host[g].back), ![g].pending = Pending(host[g], t)]
        BY <3>3 DEF Receives
      <4>5. host[g] \in HostType
        BY <1>0
      <4>6. host'[g].back = Tail(host[g].back)
        BY <1>0, <4>4, <4>5 DEF HostType
      <4>7. Tail(x.back) = x.back /\ x.back # <<>>
        BY <1>2, <4>1, <4>3, <4>6
      <4>8. Len(Tail(x.back)) # Len(x.back)
        BY <1>3, <4>7
      <4> QED BY <4>7, <4>8
    <3>4. ASSUME NEW g \in Hosts, GivesBack(g, t) PROVE FALSE
      <4>1. t \in host[g].lost /\ host' = [host EXCEPT ![g].lost = host[g].lost \ {t}]
        BY <3>4 DEF GivesBack
      <4>2. g = h
        BY <3>1, <4>1, GivenOnes
      <4>3. host'[g].lost = host[g].lost \ {t}
        BY <1>0, <4>1 DEF HostType
      <4> QED BY <1>2, <4>1, <4>2, <4>3
    <3> QED BY <3>1, <3>2, <3>3, <3>4, HostTasks
  <2>2. ASSUME x.alive, NEW t \in Tasks, mix'[t] = "host", at'[t] = h, phase'[t] \in {"sent", "queued", "begun"}
        PROVE  t \in x.pending
    <3>1. mix[t] = "host"
      BY <1>1, <2>2
    <3>2. CASE phase[t] \in {"sent", "queued", "begun"}
      <4>1. state[t] # "free"
        BY <1>0, <3>2 DEF Given
      <4>2. at[t] = h
        BY <1>1, <2>2, <4>1
      <4> QED BY <1>0, <1>2, <2>2, <3>1, <3>2, <4>2 DEF Holds
    <3>3. CASE SubmitToHost(t)
      <4>1. at' = [at EXCEPT ![t] = last'] /\ at \in [Tasks -> Nat]
        BY <3>3, Known DEF SubmitToHost, Give
      <4>2. last' = h
        BY <2>2, <4>1
      <4>3. PICK b : /\ b = IF NeedsHost THEN Born ELSE host[h]
                     /\ host' = [host EXCEPT ![h] = [b EXCEPT !.pending = b.pending \cup {t}]]
        <5>1. host' = [host EXCEPT ![last'] = Taking(IF NeedsHost THEN Born ELSE host[last'], t)]
          BY <3>3 DEF SubmitToHost
        <5>2. PICK b : b = IF NeedsHost THEN Born ELSE host[h]
          OBVIOUS
        <5>3. host' = [host EXCEPT ![h] = Taking(b, t)]
          BY <4>2, <5>1, <5>2
        <5> QED BY <5>2, <5>3 DEF Taking
      <4>4. host'[h] = [b EXCEPT !.pending = b.pending \cup {t}]
        BY <1>0, <4>3
      <4>5. b = [b EXCEPT !.over = b.over] /\ "pending" \in DOMAIN b
        BY <1>0, <4>3 DEF Born, Unborn, HostType
      <4> QED BY <1>2, <4>4, <4>5
    <3> QED BY <2>2, <3>1, <3>2, <3>3, PhaseMoves
  <2> QED BY <1>2, <2>1, <2>2 DEF Holds
<1>9. Gone(h)'
  <2>1. last \in Nat /\ last' \in Nat /\ h \in Nat /\ (last' = last \/ last' = last + 1)
    <3>1. last' \in 0 .. Cardinality(Tasks) /\ Cardinality(Tasks) \in Nat /\ last \in Nat
      BY Known, StartedStays
    <3>2. last' = last \/ last' = last + 1
      BY NewHost
    <3>3. h \in Nat
      BY Known DEF Hosts
    <3> QED BY <3>1, <3>2, <3>3
  <2>2. h > last' => x = Unborn
    BY <1>0, <1>2, <2>1 DEF Gone
  <2>3. ASSUME h <= last', ~x.alive PROVE HostId(h) \in harmed' \/ shut' \/ (x.over /\ x.pending = {} /\ x.lost = {})
    <3>1. h <= last
      BY <1>2, <2>1, <2>3, NewHost
    <3> QED BY <1>0, <1>1, <1>2, <2>3, <3>1 DEF Gone
  <2>4. HostId(h)' = HostId(h)
    BY DEF HostId
  <2> QED BY <1>0, <1>2, <2>2, <2>3, <2>4 DEF Gone
<1>10. Len(host'[h].inbox) <= Room /\ Len(host'[h].back) <= Room
  <2>1. Len(host[h].inbox) <= Room /\ Len(host[h].back) <= Room
    BY Known DEF Typed, TypeOK
  <2> QED BY <1>2, <2>1
<1> QED BY <1>6, <1>7, <1>8, <1>9, <1>10 DEF Whole

\* A host whose letters are some of those it had.
LEMMA MailStays ==
  ASSUME Sound, Next, NEW h \in Hosts, NEW x \in HostType, x = host'[h],
         Distinct(x.inbox), SetOf(x.inbox) \subseteq SetOf(host[h].inbox),
         host[h].over /\ host[h].pending = {} /\ host[h].lost = {} => x.over /\ x.pending = {} /\ x.lost = {},
         \A m \in SetOf(x.inbox) : m.kind = "run" => phase'[m.task] = "sent"
  PROVE  Mail(h)'
<1>1. ASSUME NEW m \in SetOf(x.inbox) PROVE m.to = h /\ Proper(m)'
  <2>1. m \in Letters
    BY DEF HostType, SetOf
  <2>2. m.to = h /\ Proper(m)
    BY Known DEF HostsFine, Mail
  <2>3. m.kind = "stop" => host'[m.to].over /\ host'[m.to].pending = {} /\ host'[m.to].lost = {}
    BY <2>2 DEF Proper
  <2> QED BY <2>1, <2>2, <2>3, LetterStays
<1> QED BY <1>1 DEF Mail

\* What a host was owed it is still, and answers are not taken back.
LEMMA OwedStays ==
  ASSUME Sound, Next, NEW h \in Hosts, NEW y, y[1] \in Tasks, Owed(h, y), y[1] \in host'[h].pending
  PROVE  Owed(h, y)'
<1>1. mix[y[1]] = "host"
  BY Known DEF HostsFine, Owed, Holds
<1>2. phase'[y[1]] = "ended"
  BY <1>1, PhaseMoves DEF Owed
<1>3. canceled \subseteq canceled'
  BY Lasting
<1> QED BY <1>2, <1>3 DEF Owed

\* A host whose answers are some of those it had.
LEMMA NewsStays ==
  ASSUME Sound, Next, NEW h \in Hosts, NEW x \in HostType, x = host'[h],
         Distinct(x.back), SetOf(x.back) \subseteq SetOf(host[h].back),
         x.says = host[h].says \/ x.says = <<>>,
         \A y \in SetOf(x.back) : y[1] \in x.pending,
         x.says # <<>> => x.says[1] \in x.pending
  PROVE  News(h)'
<1>0. News(h) /\ host[h] \in HostType
  BY Known DEF HostsFine
<1>1. ASSUME NEW y \in SetOf(x.back) PROVE Owed(h, y)'
  <2>1. y \in Replies
    BY DEF HostType, SetOf
  <2>2. y[1] \in Tasks
    BY <2>1 DEF Replies
  <2>3. Owed(h, y)
    BY <1>0 DEF News
  <2> QED BY <2>2, <2>3, OwedStays
<1>2. x.says # <<>> => Owed(h, x.says)'
  <2>1. PICK y : y = x.says
    OBVIOUS
  <2>2. ASSUME y # <<>> PROVE Owed(h, y)'
    <3>1. y \in Replies
      BY <2>1, <2>2 DEF HostType
    <3>2. y[1] \in Tasks
      BY <3>1 DEF Replies
    <3>3. y = host[h].says
      BY <2>1, <2>2
    <3>4. Owed(h, y)
      BY <1>0, <2>2, <3>3 DEF News
    <3> QED BY <2>1, <2>2, <3>2, <3>4, OwedStays
  <2> QED BY <2>1, <2>2
<1>3. \A y, z \in SetOf(x.back) : y[1] = z[1] => y = z
  BY <1>0 DEF News
<1>4. x.says # <<>> => \A y \in SetOf(x.back) : y[1] # x.says[1]
  BY <1>0 DEF News
<1> QED BY <1>1, <1>2, <1>3, <1>4 DEF News

\* A host that gets no new task holds those it had, but for the ones the engine hears of.
LEMMA HoldsStays ==
  ASSUME Sound, Next, NEW h \in Hosts, NEW x \in HostType, x = host'[h],
         \A t \in Tasks : state'[t] = "given" => state[t] = "given",
         x.pending \cup x.lost \subseteq host[h].pending \cup host[h].lost,
         \A t \in x.pending \cup x.lost : state'[t] = "given",
         x.alive => host[h].alive /\ \A t \in host[h].pending : t \in x.pending \/ phase[t] = "ended"
  PROVE  Holds(h)'
<1>0. Holds(h) /\ Given /\ host[h] \in HostType
  BY Known DEF HostsFine
<1>1. UNCHANGED mix /\ \A t \in Tasks : state[t] # "free" => at'[t] = at[t] /\ state'[t] # "free"
  BY Lasting
<1>00. \A t \in Tasks : ~SubmitToHost(t)
  <2> SUFFICES ASSUME NEW t \in Tasks, SubmitToHost(t) PROVE FALSE
    OBVIOUS
  <2>1. state \in [Tasks -> {"free", "given", "done", "over"}]
    BY Known
  <2>2. state[t] = "free" /\ state' = [state EXCEPT ![t] = "given"]
    BY DEF SubmitToHost, Fits, Give
  <2> QED BY <2>1, <2>2
<1>2. ASSUME NEW t \in x.pending \cup x.lost PROVE mix'[t] = "host" /\ at'[t] = h /\ state'[t] = "given"
  <2>1. t \in Tasks
    BY DEF HostType
  <2>2. mix[t] = "host" /\ at[t] = h /\ state[t] = "given"
    BY <1>0 DEF Holds
  <2> QED BY <1>1, <2>1, <2>2
<1>3. ASSUME x.alive, NEW t \in Tasks, mix'[t] = "host", at'[t] = h, phase'[t] \in {"sent", "queued", "begun"}
      PROVE  t \in x.pending
  <2>1. mix[t] = "host" /\ phase[t] \in {"sent", "queued", "begun"}
    BY <1>00, <1>1, <1>3, PhaseMoves
  <2>2. state[t] # "free"
    BY <1>0, <2>1 DEF Given
  <2>3. at[t] = h
    BY <1>1, <1>3, <2>2
  <2>4. t \in host[h].pending
    BY <1>0, <1>3, <2>1, <2>3 DEF Holds
  <2> QED BY <1>3, <2>1, <2>4
<1> QED BY <1>2, <1>3 DEF Holds

\* What the invariant says of one host.
LEMMA HostIs ==
  ASSUME Sound, NEW h \in Hosts
  PROVE  /\ host \in [Hosts -> HostType] /\ host[h] \in HostType /\ host[h].inbox \in Seq(Letters) /\ host[h].back \in Seq(Replies)
         /\ host[h].pending \subseteq Tasks /\ host[h].lost \subseteq Tasks
         /\ Len(host[h].inbox) <= Room /\ Len(host[h].back) <= Room /\ Room \in Nat
         /\ Distinct(host[h].inbox) /\ Distinct(host[h].back) /\ h \in Nat /\ last \in Nat
         /\ Mail(h) /\ News(h) /\ Holds(h) /\ Gone(h)
<1>0. host \in [Hosts -> HostType] /\ Room \in Nat /\ last \in Nat /\ h \in 1 .. Cardinality(Tasks) /\ Cardinality(Tasks) \in Nat
  BY Known DEF Hosts
<1>1. host \in [Hosts -> HostType] /\ host[h] \in HostType /\ Room \in Nat /\ h \in Nat /\ last \in Nat
  BY <1>0
<1>2. Mail(h) /\ News(h) /\ Holds(h) /\ Gone(h)
  BY Known DEF HostsFine
<1>3. Len(host[h].inbox) <= Room /\ Len(host[h].back) <= Room
  BY Known DEF Typed, TypeOK
<1>4. Distinct(host[h].inbox) /\ Distinct(host[h].back)
  BY <1>2 DEF Mail, News
<1> QED BY <1>1, <1>2, <1>3, <1>4 DEF HostType

\* What a step changes in one host, which is well.
Alone(h) ==
  /\ host' \in [Hosts -> HostType]
  /\ \A g \in Hosts : g # h => host'[g] = host[g]
  /\ Whole(h)'

\* A process that is no more.
LEMMA DeadWhole ==
  ASSUME Sound, Next, NEW h \in Hosts, NEW x \in HostType, x = host'[h], h <= last,
         x.inbox = <<>>, x.says = <<>>, ~x.alive, x.back = host[h].back, x.pending = host[h].pending,
         x.lost = host[h].lost, x.reader = host[h].reader, host[h].over => x.over,
         \A t \in Tasks : state'[t] = "given" => state[t] = "given",
         \A t \in Tasks : mix[t] = "host" => state'[t] = state[t],
         HostId(h) \in harmed' \/ shut' \/ (x.over /\ x.pending = {} /\ x.lost = {})
  PROVE  Whole(h)'
<1>0. /\ host[h] \in HostType /\ host[h].inbox \in Seq(Letters) /\ host[h].back \in Seq(Replies)
      /\ Len(host[h].inbox) <= Room /\ Len(host[h].back) <= Room /\ Room \in Nat
      /\ Distinct(host[h].inbox) /\ Distinct(host[h].back) /\ h \in Nat /\ last \in Nat
      /\ Mail(h) /\ News(h) /\ Holds(h) /\ Gone(h)
      /\ host[h].pending \subseteq Tasks /\ host[h].lost \subseteq Tasks
  BY HostIs
<1>1. Mail(h)'
  <2>1. Distinct(x.inbox) /\ SetOf(x.inbox) = {}
    BY EmptySet
  <2> QED BY <2>1, MailStays
<1>2. News(h)'
  <2>1. \A y \in SetOf(x.back) : y[1] \in x.pending
    BY <1>0 DEF News, Owed
  <2> QED BY <1>0, <2>1, NewsStays
<1>3. Holds(h)'
  <2>1. \A t \in x.pending \cup x.lost : state'[t] = "given"
    BY <1>0 DEF Holds
  <2> QED BY <2>1, HoldsStays
<1>4. Gone(h)'
  <2>1. last <= last' /\ last' \in Nat
    <3>1. last' \in 0 .. Cardinality(Tasks) /\ Cardinality(Tasks) \in Nat /\ last <= last'
      BY Known, StartedStays
    <3> QED BY <3>1
  <2>2. ~(h > last')
    BY <1>0, <2>1
  <2>3. HostId(h)' = HostId(h)
    BY DEF HostId
  <2> QED BY <1>0, <2>2, <2>3 DEF Gone
<1>5. Len(x.inbox) <= Room /\ Len(x.back) <= Room
  <2>1. Len(x.inbox) = 0
    OBVIOUS
  <2> QED BY <1>0, <2>1
<1> QED BY <1>1, <1>2, <1>3, <1>4, <1>5 DEF Whole

\* A host whose process is no more is still a host.
LEMMA DeadIs ==
  ASSUME Sound, NEW h \in Hosts
  PROVE  /\ Dead(host[h]) \in HostType /\ [Dead(host[h]) EXCEPT !.over = TRUE] \in HostType
         /\ Dead(host[h]) = [host[h] EXCEPT !.alive = FALSE, !.inbox = <<>>, !.says = <<>>]
<1>1. host[h] \in HostType /\ <<>> \in Seq(Letters)
  BY HostIs
<1> QED BY <1>1 DEF Dead, HostType

\* `kill` stops one host.
LEMMA KillWhole == ASSUME Sound, Next, Kill, host' # host PROVE \E h \in Hosts : Alone(h)
<1>1. /\ last # 0 /\ host' = [host EXCEPT ![last] = [Dead(host[last]) EXCEPT !.over = TRUE]]
      /\ HostId(last) \in harmed' /\ UNCHANGED state
  BY DEF Kill, engine
<1>2. last \in Hosts /\ last \in Nat /\ last <= last
  BY <1>1, Known DEF Hosts
<1>3. PICK x \in HostType : x = [Dead(host[last]) EXCEPT !.over = TRUE]
  BY <1>2, DeadIs
<1>4. host \in [Hosts -> HostType] /\ host[last] \in HostType
  BY <1>2, HostIs
<1>5. /\ host' \in [Hosts -> HostType] /\ host'[last] = x
      /\ \A g \in Hosts : g # last => host'[g] = host[g]
  BY <1>1, <1>2, <1>3, <1>4
<1>6. PICK h \in Hosts : h = last
  BY <1>2
<1>7. /\ x.inbox = <<>> /\ x.says = <<>> /\ ~x.alive /\ x.back = host[h].back /\ x.pending = host[h].pending
      /\ x.lost = host[h].lost /\ x.reader = host[h].reader /\ x.over
  BY <1>3, <1>4, <1>6 DEF Dead, HostType
<1>8. Whole(h)'
  <2>1. h <= last /\ x = host'[h] /\ HostId(h) \in harmed'
    BY <1>1, <1>2, <1>5, <1>6
  <2> QED BY <1>1, <1>7, <2>1, DeadWhole
<1> QED BY <1>5, <1>6, <1>8 DEF Alone

\* So does `shutdown`.
LEMMA ShutdownWhole == ASSUME Sound, Next, Shutdown, host' # host PROVE \E h \in Hosts : Alone(h)
<1>1. /\ last # 0 /\ host' = [host EXCEPT ![last] = [Dead(host[last]) EXCEPT !.over = TRUE]]
      /\ shut' /\ state' = [t \in Tasks |-> IF t \in LetGo THEN "over" ELSE state[t]]
  BY DEF Shutdown
<1>2. last \in Hosts /\ last \in Nat /\ last <= last
  BY <1>1, Known DEF Hosts
<1>3. PICK x \in HostType : x = [Dead(host[last]) EXCEPT !.over = TRUE]
  BY <1>2, DeadIs
<1>4. host \in [Hosts -> HostType] /\ host[last] \in HostType
  BY <1>2, HostIs
<1>5. /\ host' \in [Hosts -> HostType] /\ host'[last] = x
      /\ \A g \in Hosts : g # last => host'[g] = host[g]
  BY <1>1, <1>2, <1>3, <1>4
<1>6. PICK h \in Hosts : h = last
  BY <1>2
<1>7. /\ x.inbox = <<>> /\ x.says = <<>> /\ ~x.alive /\ x.back = host[h].back /\ x.pending = host[h].pending
      /\ x.lost = host[h].lost /\ x.reader = host[h].reader /\ x.over
  BY <1>3, <1>4, <1>6 DEF Dead, HostType
<1>8. Whole(h)'
  <2>1. h <= last /\ x = host'[h]
    BY <1>2, <1>5, <1>6
  <2>2. \A t \in Tasks : state'[t] = "given" => state[t] = "given"
    BY <1>1
  <2>3. \A t \in Tasks : mix[t] = "host" => state'[t] = state[t]
    BY <1>1 DEF LetGo
  <2> QED BY <1>1, <1>7, <2>1, <2>2, <2>3, DeadWhole
<1> QED BY <1>5, <1>6, <1>8 DEF Alone

\* A host that dies, or stops as it was told.
LEMMA HostDiesWhole == ASSUME Sound, Next, NEW h \in Hosts, HostDies(h) \/ HostStops(h) PROVE Alone(h)
<1>1. host' = [host EXCEPT ![h] = Dead(host[h])] /\ host[h].alive /\ UNCHANGED state
  BY DEF HostDies, HostStops, Hears, engine, OfHost
<1>3. PICK x \in HostType : x = Dead(host[h])
  BY DeadIs
<1>4. /\ host \in [Hosts -> HostType] /\ host[h] \in HostType /\ Gone(h) /\ h \in Nat /\ last \in Nat
  BY HostIs
<1>5. /\ host' \in [Hosts -> HostType] /\ host'[h] = x
      /\ \A g \in Hosts : g # h => host'[g] = host[g]
  BY <1>1, <1>3, <1>4
<1>6. h <= last
  BY <1>1, <1>4 DEF Gone, Unborn
<1>7. /\ x.inbox = <<>> /\ x.says = <<>> /\ ~x.alive /\ x.back = host[h].back /\ x.pending = host[h].pending
      /\ x.lost = host[h].lost /\ x.reader = host[h].reader /\ x.over = host[h].over
  BY <1>3, <1>4 DEF Dead, HostType
<1>8. HostId(h) \in harmed' \/ shut' \/ (x.over /\ x.pending = {} /\ x.lost = {})
  <2>1. CASE HostDies(h)
    BY <2>1 DEF HostDies
  <2>2. CASE HostStops(h)
    <3>1. PICK m : m = Head(host[h].inbox) /\ m.to = h /\ m.kind = "stop" /\ Proper(m)
      BY <2>2, LetterIs DEF HostStops
    <3>2. host[h].over /\ host[h].pending = {} /\ host[h].lost = {}
      BY <3>1 DEF Proper
    <3> QED BY <1>7, <3>2
  <2> QED BY <2>1, <2>2
<1>9. Whole(h)'
  BY <1>1, <1>5, <1>6, <1>7, <1>8, DeadWhole
<1> QED BY <1>5, <1>9 DEF Alone

\* A reader that only reads, and a host told to stop.
LEMMA ReaderWhole ==
  ASSUME Sound, Next, NEW h \in Hosts, NEW x \in HostType, x = host'[h], UNCHANGED <<state, last>>,
         x.inbox = host[h].inbox, x.says = host[h].says, x.alive = host[h].alive, x.back = host[h].back,
         x.pending \cup x.lost = host[h].pending \cup host[h].lost, host[h].over => x.over,
         x.pending = host[h].pending \/ (x.pending = {} /\ ~x.alive /\ x.back = <<>>),
         x.reader \in {"end", "lost"} => ~x.alive /\ x.back = <<>>,
         x.lost # {} => x.reader = "lost",
         x.reader = "lost" => x.over /\ x.pending = {},
         h <= last
  PROVE  Whole(h)'
<1>0. /\ host[h] \in HostType /\ host[h].inbox \in Seq(Letters) /\ host[h].back \in Seq(Replies)
      /\ Len(host[h].inbox) <= Room /\ Len(host[h].back) <= Room
      /\ Distinct(host[h].inbox) /\ Distinct(host[h].back) /\ h \in Nat /\ last \in Nat
      /\ Mail(h) /\ News(h) /\ Holds(h) /\ Gone(h)
      /\ host[h].pending \subseteq Tasks /\ host[h].lost \subseteq Tasks
  BY HostIs
<1>1. Mail(h)'
  <2>0. ~HostRuns(h)
    BY RunsTakes
  <2>1. ASSUME NEW m \in SetOf(x.inbox), m.kind = "run" PROVE phase'[m.task] = "sent"
    <3>1. m \in Letters
      BY <1>0, <2>1 DEF SetOf
    <3>2. m.to = h /\ Proper(m)
      BY <1>0, <2>1 DEF Mail
    <3> QED BY <2>0, <2>1, <3>1, <3>2, SentStays
  <2> QED BY <1>0, <2>1, MailStays
<1>2. News(h)'
  <2>1. \A y \in SetOf(x.back) : y[1] \in x.pending
    <3>1. SetOf(<<>>) = {}
      BY EmptySet
    <3>2. \A y \in SetOf(host[h].back) : y[1] \in host[h].pending
      BY <1>0 DEF News, Owed
    <3> QED BY <3>1, <3>2
  <2>2. x.says # <<>> => x.says[1] \in x.pending
    <3>1. x.says # <<>> => x.says[1] \in host[h].pending /\ host[h].alive
      BY <1>0 DEF News, Owed, Gone
    <3> QED BY <3>1
  <2> QED BY <1>0, <2>1, <2>2, NewsStays
<1>3. Holds(h)'
  <2>1. \A t \in x.pending \cup x.lost : state'[t] = "given"
    BY <1>0 DEF Holds
  <2> QED BY <2>1, HoldsStays
<1>4. Gone(h)'
  <2>1. ~(h > last')
    BY <1>0
  <2>2. HostId(h)' = HostId(h) /\ harmed \subseteq harmed' /\ (shut => shut')
    BY Lasting DEF HostId
  <2> QED BY <1>0, <2>1, <2>2 DEF Gone
<1> QED BY <1>0, <1>1, <1>2, <1>3, <1>4 DEF Whole

\* The reader of a host that waits, sees the end of the pipe, or finds the host gone.
LEMMA ReadsWhole ==
  ASSUME Sound, Next, NEW h \in Hosts, Waits(h) \/ Idle(h) \/ Ends(h) \/ Over(h)
  PROVE  Alone(h)
<1>0. /\ host \in [Hosts -> HostType] /\ host[h] \in HostType /\ Gone(h) /\ h \in Nat /\ last \in Nat
  BY HostIs
<1>1. UNCHANGED <<state, last>>
  BY DEF Waits, Idle, Ends, Over, OfHost, engine
<1>2. h <= last
  BY <1>0 DEF Waits, Idle, Ends, Over, Gone, Unborn
<1>3. ASSUME NEW x \in HostType, host' = [host EXCEPT ![h] = x], Whole(h)' PROVE Alone(h)
  BY <1>0, <1>3 DEF Alone
<1>4. CASE Waits(h)
  <2>1. PICK x \in HostType : x = [host[h] EXCEPT !.reader = "idle"]
    BY <1>0 DEF HostType
  <2>2. host' = [host EXCEPT ![h] = x] /\ host[h].reader = "poll"
    BY <1>4, <2>1 DEF Waits
  <2>3. x = host'[h]
    BY <1>0, <2>2
  <2>4. /\ x.inbox = host[h].inbox /\ x.says = host[h].says /\ x.alive = host[h].alive /\ x.back = host[h].back
        /\ x.pending = host[h].pending /\ x.lost = host[h].lost /\ x.over = host[h].over /\ x.reader = "idle"
    BY <1>0, <2>1 DEF HostType
  <2>5. x.lost = {}
    BY <1>0, <2>2, <2>4 DEF Gone
  <2>6. Whole(h)'
    BY <1>1, <1>2, <2>3, <2>4, <2>5, ReaderWhole
  <2> QED BY <1>3, <2>2, <2>6
<1>5. CASE Idle(h)
  <2>0. Leaves(h) \in BOOLEAN /\ host[h].over \in BOOLEAN
    BY <1>0 DEF Leaves, HostType
  <2>1. PICK o \in BOOLEAN : o = (host[h].over \/ Leaves(h))
    BY <2>0
  <2>2. PICK x \in HostType : x = [host[h] EXCEPT !.reader = "poll", !.over = o]
    BY <1>0 DEF HostType
  <2>3. host' = [host EXCEPT ![h].reader = "poll", ![h].over = host[h].over \/ Leaves(h)] /\ host[h].reader = "idle"
    BY <1>5 DEF Idle
  <2>4. host' = [host EXCEPT ![h] = x]
    BY <1>0, <2>1, <2>2, <2>3
  <2>5. x = host'[h]
    BY <1>0, <2>4
  <2>6. /\ x.inbox = host[h].inbox /\ x.says = host[h].says /\ x.alive = host[h].alive /\ x.back = host[h].back
        /\ x.pending = host[h].pending /\ x.lost = host[h].lost /\ x.over = o /\ x.reader = "poll"
    BY <1>0, <2>2 DEF HostType
  <2>7. x.lost = {}
    BY <1>0, <2>3, <2>6 DEF Gone
  <2>8. Whole(h)'
    BY <1>1, <1>2, <2>1, <2>5, <2>6, <2>7, ReaderWhole
  <2> QED BY <1>3, <2>4, <2>8
<1>6. CASE Ends(h)
  <2>1. PICK x \in HostType : x = [host[h] EXCEPT !.reader = "end"]
    BY <1>0 DEF HostType
  <2>2. host' = [host EXCEPT ![h] = x] /\ host[h].reader = "poll" /\ ~host[h].alive /\ host[h].back = <<>>
    BY <1>6, <2>1 DEF Ends
  <2>3. x = host'[h]
    BY <1>0, <2>2
  <2>4. /\ x.inbox = host[h].inbox /\ x.says = host[h].says /\ x.alive = host[h].alive /\ x.back = host[h].back
        /\ x.pending = host[h].pending /\ x.lost = host[h].lost /\ x.over = host[h].over /\ x.reader = "end"
    BY <1>0, <2>1 DEF HostType
  <2>5. x.lost = {}
    BY <1>0, <2>2, <2>4 DEF Gone
  <2>6. Whole(h)'
    BY <1>1, <1>2, <2>2, <2>3, <2>4, <2>5, ReaderWhole
  <2> QED BY <1>3, <2>2, <2>6
<1>7. CASE Over(h)
  <2>1. PICK x \in HostType : x = [host[h] EXCEPT !.reader = "lost", !.over = TRUE, !.lost = host[h].pending, !.pending = {}]
    BY <1>0 DEF HostType
  <2>2. /\ host' = [host EXCEPT ![h].reader = "lost", ![h].over = TRUE, ![h].lost = host[h].pending, ![h].pending = {}]
        /\ host[h].reader = "end"
    BY <1>7 DEF Over, LostOf
  <2>3. host' = [host EXCEPT ![h] = x]
    BY <1>0, <2>1, <2>2
  <2>4. x = host'[h]
    BY <1>0, <2>3
  <2>5. /\ x.inbox = host[h].inbox /\ x.says = host[h].says /\ x.alive = host[h].alive /\ x.back = host[h].back
        /\ x.pending = {} /\ x.lost = host[h].pending /\ x.over /\ x.reader = "lost"
    BY <1>0, <2>1 DEF HostType
  <2>6. host[h].lost = {} /\ ~host[h].alive /\ host[h].back = <<>>
    BY <1>0, <2>2 DEF Gone
  <2>7. x.pending \cup x.lost = host[h].pending \cup host[h].lost
    BY <2>5, <2>6
  <2>8. Whole(h)'
    BY <1>1, <1>2, <2>4, <2>5, <2>6, <2>7, ReaderWhole
  <2> QED BY <1>3, <2>3, <2>8
<1> QED BY <1>4, <1>5, <1>6, <1>7

\* One more answer, said or in the pipe, about a task that none was about.
LEMMA NewsGrow ==
  ASSUME Sound, Next, NEW h \in Hosts, NEW x \in HostType, x = host'[h], x.pending = host[h].pending,
         NEW y, Owed(h, y)', Distinct(x.back), SetOf(x.back) \subseteq SetOf(host[h].back) \cup {y},
         \A z \in SetOf(host[h].back) : z[1] # y[1],
         x.says = <<>> \/ x.says = host[h].says \/ x.says = y,
         x.says # <<>> => \A z \in SetOf(x.back) : z[1] # x.says[1]
  PROVE  News(h)'
<1>0. News(h) /\ host[h] \in HostType /\ host[h].back \in Seq(Replies)
  BY HostIs
<1>1. ASSUME NEW z \in SetOf(x.back), z # y PROVE Owed(h, z)'
  <2>0. z \in SetOf(host[h].back)
    BY <1>1
  <2>1. z \in Replies
    BY <1>0, <2>0 DEF SetOf
  <2>2. z[1] \in Tasks
    BY <2>1 DEF Replies
  <2>3. Owed(h, z)
    BY <1>0, <2>0 DEF News
  <2>4. z[1] \in host'[h].pending
    BY <2>3 DEF Owed
  <2> QED BY <2>2, <2>3, <2>4, OwedStays
<1>2. \A z \in SetOf(x.back) : Owed(h, z)'
  BY <1>1
<1>3. ASSUME x.says # <<>>, x.says # y PROVE Owed(h, x.says)'
  <2>1. PICK z \in Replies : z = x.says /\ z = host[h].says
    BY <1>3 DEF HostType
  <2>2. z[1] \in Tasks
    BY DEF Replies
  <2>3. Owed(h, z)
    BY <1>0, <1>3, <2>1 DEF News
  <2>4. z[1] \in host'[h].pending
    BY <2>3 DEF Owed
  <2>5. Owed(h, z)'
    BY <2>2, <2>3, <2>4, OwedStays
  <2> QED BY <2>1, <2>5
<1>4. x.says # <<>> => Owed(h, x.says)'
  BY <1>3
<1>5. \A z, w \in SetOf(x.back) : z[1] = w[1] => z = w
  BY <1>0 DEF News
<1> QED BY <1>2, <1>4, <1>5 DEF News

\* A host that goes on.
LEMMA GoneAlive ==
  ASSUME Sound, Next, NEW h \in Hosts, NEW x \in HostType, x = host'[h], x.alive, host[h].alive,
         x.lost = host[h].lost, x.reader = host[h].reader
  PROVE  Gone(h)' /\ h <= last /\ h <= last'
<1>0. Gone(h) /\ h \in Nat /\ last \in Nat /\ Cardinality(Tasks) \in Nat
  BY HostIs, Known
<1>1. last <= last' /\ last' \in 0 .. Cardinality(Tasks)
  BY StartedStays
<1>2. h <= last
  BY <1>0 DEF Gone, Unborn
<1>3. h <= last' /\ ~(h > last')
  BY <1>0, <1>1, <1>2
<1>4. x.reader \notin {"end", "lost"} /\ x.lost = {}
  BY <1>0 DEF Gone
<1> QED BY <1>2, <1>3, <1>4 DEF Gone

\* The main thread of a host puts an answer in the pipe.
LEMMA MainAnswersWhole == ASSUME Sound, Next, NEW h \in Hosts, MainAnswers(h) PROVE Alone(h)
<1>0. /\ host \in [Hosts -> HostType] /\ host[h] \in HostType /\ host[h].inbox \in Seq(Letters) /\ host[h].back \in Seq(Replies)
      /\ Len(host[h].inbox) <= Room /\ Len(host[h].back) <= Room /\ Room \in Nat
      /\ Distinct(host[h].inbox) /\ Distinct(host[h].back)
      /\ Mail(h) /\ News(h) /\ Holds(h)
  BY HostIs
<1>1. /\ host[h].alive /\ host[h].says # <<>> /\ Len(host[h].back) < Room /\ UNCHANGED <<state, phase>>
      /\ host' = [host EXCEPT ![h].says = <<>>, ![h].back = Append(host[h].back, host[h].says)]
  BY DEF MainAnswers, OfHost, engine
<1>2. PICK y \in Replies : y = host[h].says
  BY <1>0, <1>1 DEF HostType
<1>3. PICK b \in Seq(Replies) : b = Append(host[h].back, y)
  <2>1. Append(host[h].back, y) \in Seq(Replies)
    BY <1>0, AppendSet
  <2> QED BY <2>1
<1>4. /\ Len(b) <= Room /\ SetOf(b) = SetOf(host[h].back) \cup {y} /\ Owed(h, y)
      /\ \A z \in SetOf(host[h].back) : z[1] # y[1]
  <2>1. Owed(h, y) /\ \A z \in SetOf(host[h].back) : z[1] # y[1]
    BY <1>0, <1>1, <1>2 DEF News
  <2>2. SetOf(b) = SetOf(host[h].back) \cup {y} /\ Len(b) = Len(host[h].back) + 1
    BY <1>0, <1>3, AppendSet
  <2>3. Len(host[h].back) \in Nat
    BY <1>0
  <2> QED BY <1>0, <1>1, <2>1, <2>2, <2>3
<1>5. Distinct(b)
  BY <1>0, <1>3, <1>4, AppendSet
<1>6. PICK x \in HostType : x = [host[h] EXCEPT !.says = <<>>, !.back = b]
  BY <1>0 DEF HostType
<1>7. host' = [host EXCEPT ![h] = x]
  BY <1>0, <1>1, <1>2, <1>3, <1>6
<1>8. host' \in [Hosts -> HostType] /\ x = host'[h] /\ \A g \in Hosts : g # h => host'[g] = host[g]
  BY <1>0, <1>7
<1>9. /\ x.inbox = host[h].inbox /\ x.says = <<>> /\ x.alive /\ x.back = b /\ x.pending = host[h].pending
      /\ x.lost = host[h].lost /\ x.over = host[h].over /\ x.reader = host[h].reader
  BY <1>0, <1>1, <1>6 DEF HostType
<1>10. Mail(h)'
  <2>1. \A m \in SetOf(x.inbox) : m.kind = "run" => phase'[m.task] = "sent"
    BY <1>0, <1>1, <1>9 DEF Mail, Proper
  <2> QED BY <1>0, <1>8, <1>9, <2>1, MailStays
<1>11. News(h)'
  <2>1. y[1] \in Tasks /\ y[1] \in host'[h].pending
    BY <1>4, <1>8, <1>9 DEF Owed, Replies
  <2>2. Owed(h, y)'
    BY <1>4, <2>1, OwedStays
  <2> QED BY <1>4, <1>5, <1>8, <1>9, <2>2, NewsGrow
<1>12. Holds(h)'
  <2>1. \A t \in x.pending \cup x.lost : state'[t] = "given"
    BY <1>0, <1>1, <1>9 DEF Holds
  <2> QED BY <1>1, <1>8, <1>9, <2>1, HoldsStays
<1>13. Gone(h)'
  BY <1>1, <1>8, <1>9, GoneAlive
<1> QED BY <1>0, <1>4, <1>8, <1>9, <1>10, <1>11, <1>12, <1>13 DEF Alone, Whole

\* A thread of a host does.
LEMMA AnswersWhole == ASSUME Sound, Next, NEW h \in Hosts, NEW t \in Tasks, Answers(h, t) PROVE Alone(h)
<1>0. /\ host \in [Hosts -> HostType] /\ host[h] \in HostType /\ host[h].inbox \in Seq(Letters) /\ host[h].back \in Seq(Replies)
      /\ Len(host[h].inbox) <= Room /\ Len(host[h].back) <= Room /\ Room \in Nat
      /\ Distinct(host[h].inbox) /\ Distinct(host[h].back)
      /\ Mail(h) /\ News(h) /\ Holds(h)
  BY HostIs
<1>1. /\ host[h].alive /\ Len(host[h].back) < Room /\ UNCHANGED state
      /\ mix[t] = "host" /\ at[t] = h /\ phase[t] = "begun" /\ phase' = [phase EXCEPT ![t] = "ended"]
  BY DEF Answers, In, OfHost, engine
<1>2. PICK what \in {"DONE", "ERROR"} : host' = [host EXCEPT ![h].back = Append(host[h].back, <<t, what>>)]
  BY DEF Answers
<1>3. PICK y \in Replies : y = <<t, what>> /\ y[1] = t /\ y[2] = what
  <2>1. <<t, what>> \in Replies
    BY DEF Replies
  <2> QED BY <2>1
<1>4. PICK b \in Seq(Replies) : b = Append(host[h].back, y)
  <2>1. Append(host[h].back, y) \in Seq(Replies)
    BY <1>0, AppendSet
  <2> QED BY <2>1
<1>5. phase' \in [Tasks -> {"none", "sent", "queued", "begun", "ended"}] /\ phase'[t] = "ended" /\ \A s \in Tasks : s # t => phase'[s] = phase[s]
  BY <1>1, Known
<1>6. /\ Len(b) <= Room /\ SetOf(b) = SetOf(host[h].back) \cup {y} /\ t \in host[h].pending
      /\ \A z \in SetOf(host[h].back) : z[1] # y[1]
  <2>1. t \in host[h].pending
    BY <1>0, <1>1 DEF Holds
  <2>2. SetOf(b) = SetOf(host[h].back) \cup {y} /\ Len(b) = Len(host[h].back) + 1
    BY <1>0, <1>4, AppendSet
  <2>3. Len(host[h].back) \in Nat
    BY <1>0
  <2>4. \A z \in SetOf(host[h].back) : z[1] # t
    BY <1>0, <1>1 DEF News, Owed
  <2>5. Len(b) <= Room
    BY <1>0, <1>1, <2>2, <2>3
  <2> QED BY <1>3, <2>1, <2>2, <2>4, <2>5
<1>7. Distinct(b)
  BY <1>0, <1>4, <1>6, AppendSet
<1>8. PICK x \in HostType : x = [host[h] EXCEPT !.back = b]
  BY <1>0 DEF HostType
<1>9. host' = [host EXCEPT ![h] = x]
  BY <1>0, <1>2, <1>3, <1>4, <1>8
<1>10. host' \in [Hosts -> HostType] /\ x = host'[h] /\ \A g \in Hosts : g # h => host'[g] = host[g]
  BY <1>0, <1>9
<1>11. /\ x.inbox = host[h].inbox /\ x.says = host[h].says /\ x.alive /\ x.back = b /\ x.pending = host[h].pending
       /\ x.lost = host[h].lost /\ x.over = host[h].over /\ x.reader = host[h].reader
  BY <1>0, <1>1, <1>8 DEF HostType
<1>12. Mail(h)'
  <2>0. ~HostRuns(h)
    BY <1>10, <1>11, RunsTakes
  <2>1. ASSUME NEW m \in SetOf(x.inbox), m.kind = "run" PROVE phase'[m.task] = "sent"
    <3>1. m \in Letters
      BY <1>0, <1>11, <2>1 DEF SetOf
    <3>2. m.to = h /\ Proper(m)
      BY <1>0, <1>11, <2>1 DEF Mail
    <3> QED BY <2>0, <2>1, <3>1, <3>2, SentStays
  <2> QED BY <1>0, <1>10, <1>11, <2>1, MailStays
<1>13. News(h)'
  <2>1. Owed(h, y)'
    BY <1>3, <1>5, <1>6, <1>10, <1>11 DEF Owed
  <2>2. x.says # <<>> => \A z \in SetOf(x.back) : z[1] # x.says[1]
    <3>1. x.says # <<>> => phase[x.says[1]] = "ended" /\ \A z \in SetOf(host[h].back) : z[1] # x.says[1]
      BY <1>0, <1>11 DEF News, Owed
    <3> QED BY <1>1, <1>3, <1>6, <1>11, <3>1
  <2> QED BY <1>6, <1>7, <1>10, <1>11, <2>1, <2>2, NewsGrow
<1>14. Holds(h)'
  <2>1. \A s \in x.pending \cup x.lost : state'[s] = "given"
    BY <1>0, <1>1, <1>11 DEF Holds
  <2> QED BY <1>1, <1>10, <1>11, <2>1, HoldsStays
<1>15. Gone(h)'
  BY <1>1, <1>10, <1>11, GoneAlive
<1> QED BY <1>0, <1>6, <1>10, <1>11, <1>12, <1>13, <1>14, <1>15 DEF Alone, Whole

\* What a host has left to hear once it heard its first letter.
LEMMA HearsOne ==
  ASSUME Sound, Next, NEW h \in Hosts, NEW kind \in {"run", "cancel"}, Hears(h, kind),
         host'[h] \in HostType, host'[h].inbox = Tail(host[h].inbox),
         host'[h].over = host[h].over, host'[h].pending = host[h].pending, host'[h].lost = host[h].lost,
         \A t \in Tasks : t # Heard(h) => phase'[t] = phase[t],
         kind = "cancel" /\ phase[Heard(h)] = "sent" => phase'[Heard(h)] = "sent"
  PROVE  Mail(h)' /\ Len(host'[h].inbox) <= Room
<1>0. /\ host[h].inbox \in Seq(Letters) /\ Distinct(host[h].inbox) /\ Mail(h) /\ Len(host[h].inbox) <= Room /\ Room \in Nat
  BY HostIs
<1>1. host[h].inbox # <<>>
  BY DEF Hears
<1>2. PICK x \in HostType : x = host'[h]
  OBVIOUS
<1>3. PICK m \in Letters : /\ m = Head(host[h].inbox) /\ m.to = h /\ m.kind = kind
                           /\ Heard(h) = m.task /\ Heard(h) \in Tasks /\ mix[Heard(h)] = "host" /\ at[Heard(h)] = h
  BY LetterIs DEF Heard
<1>4. /\ Distinct(x.inbox) /\ SetOf(x.inbox) \subseteq SetOf(host[h].inbox) /\ m \notin SetOf(x.inbox)
      /\ Len(x.inbox) <= Len(host[h].inbox) /\ Len(x.inbox) \in Nat /\ Len(host[h].inbox) \in Nat
  <2>1. x.inbox = Tail(host[h].inbox)
    BY <1>2
  <2>2. PICK l : l = host[h].inbox
    OBVIOUS
  <2>3. l \in Seq(Letters) /\ l # <<>> /\ Distinct(l)
    BY <1>0, <1>1, <2>2
  <2>4. /\ Distinct(Tail(l)) /\ SetOf(Tail(l)) \subseteq SetOf(l) /\ Head(l) \notin SetOf(Tail(l))
        /\ Len(Tail(l)) <= Len(l) /\ Len(Tail(l)) \in Nat /\ Len(l) \in Nat
    BY <2>3, TailSet
  <2> QED BY <1>3, <2>1, <2>2, <2>4
<1>5. ASSUME NEW l \in SetOf(x.inbox), l.kind = "run" PROVE phase'[l.task] = "sent"
  <2>1. l \in Letters /\ l.to = h /\ Proper(l)
    <3>1. l \in SetOf(host[h].inbox)
      BY <1>4
    <3> QED BY <1>0, <3>1 DEF SetOf, Mail
  <2>2. l.task \in Tasks /\ phase[l.task] = "sent"
    BY <1>5, <2>1 DEF Proper
  <2>3. CASE l.task # Heard(h)
    BY <2>2, <2>3
  <2>4. CASE l.task = Heard(h) /\ kind = "cancel"
    BY <2>2, <2>4
  <2>5. CASE l.task = Heard(h) /\ kind = "run"
    <3>1. l = m
      BY <1>3, <1>5, <2>1, <2>5 DEF Letters
    <3> QED BY <1>4, <3>1
  <2> QED BY <2>3, <2>4, <2>5
<1>6. Mail(h)'
  BY <1>2, <1>4, <1>5, MailStays
<1> QED BY <1>0, <1>2, <1>4, <1>6

\* A host takes one letter, and may have something to say of its task.
LEMMA HeardWhole ==
  ASSUME Sound, Next, NEW h \in Hosts, NEW kind \in {"run", "cancel"}, Hears(h, kind),
         UNCHANGED state, NEW p \in {"none", "sent", "queued", "begun", "ended"}, phase' = [phase EXCEPT ![Heard(h)] = p],
         kind = "cancel" /\ phase[Heard(h)] = "sent" => p = "sent",
         NEW s \in {<<>>} \cup Replies,
         host' = [host EXCEPT ![h] = [host[h] EXCEPT !.inbox = Tail(host[h].inbox), !.says = s]],
         s # <<>> => /\ s[1] = Heard(h) /\ p = "ended" /\ phase[Heard(h)] \in {"sent", "queued"}
                     /\ (s[2] = "CANCELED" => Heard(h) \in canceled)
  PROVE  Alone(h)
<1>0. /\ host \in [Hosts -> HostType] /\ host[h] \in HostType /\ host[h].inbox \in Seq(Letters) /\ host[h].back \in Seq(Replies)
      /\ Len(host[h].inbox) <= Room /\ Len(host[h].back) <= Room /\ Room \in Nat
      /\ Distinct(host[h].inbox) /\ Distinct(host[h].back)
      /\ Mail(h) /\ News(h) /\ Holds(h)
  BY HostIs
<1>1. host[h].alive /\ host[h].inbox # <<>>
  BY DEF Hears
<1>2. PICK t \in Tasks : t = Heard(h) /\ mix[t] = "host" /\ at[t] = h
  BY LetterIs
<1>3. phase'[t] = p /\ \A u \in Tasks : u # t => phase'[u] = phase[u]
  <2>1. phase \in [Tasks -> {"none", "sent", "queued", "begun", "ended"}]
    BY Known
  <2> QED BY <1>2, <2>1
<1>4. Tail(host[h].inbox) \in Seq(Letters)
  BY <1>0, <1>1, TailSet
<1>5. PICK x \in HostType : x = [host[h] EXCEPT !.inbox = Tail(host[h].inbox), !.says = s]
  BY <1>0, <1>4 DEF HostType
<1>6. host' \in [Hosts -> HostType] /\ x = host'[h] /\ \A g \in Hosts : g # h => host'[g] = host[g]
  BY <1>0, <1>5
<1>7. /\ x.inbox = Tail(host[h].inbox) /\ x.says = s /\ x.alive /\ x.back = host[h].back /\ x.pending = host[h].pending
      /\ x.lost = host[h].lost /\ x.over = host[h].over /\ x.reader = host[h].reader
  BY <1>0, <1>1, <1>5 DEF HostType
<1>8. Mail(h)' /\ Len(host'[h].inbox) <= Room
  BY <1>2, <1>3, <1>6, <1>7, HearsOne
<1>9. News(h)'
  <2>1. CASE s = <<>>
    <3>1. \A y \in SetOf(x.back) : y[1] \in x.pending
      BY <1>0, <1>7 DEF News, Owed
    <3> QED BY <1>0, <1>6, <1>7, <2>1, <3>1, NewsStays
  <2>2. CASE s # <<>>
    <3>1. t \in host[h].pending /\ \A z \in SetOf(host[h].back) : z[1] # t
      BY <1>0, <1>1, <1>2, <2>2 DEF Holds, News, Owed
    <3>2. PICK y : y = s
      OBVIOUS
    <3>3. Owed(h, y)'
      <4>1. canceled \subseteq canceled'
        BY Lasting
      <4>2. y[1] = t /\ phase'[t] = "ended" /\ (y[2] = "CANCELED" => t \in canceled')
        BY <1>2, <1>3, <2>2, <3>2, <4>1
      <4>3. t \in host'[h].pending
        BY <1>6, <1>7, <3>1
      <4>4. y[1] \in host'[h].pending /\ phase'[y[1]] = "ended" /\ (y[2] = "CANCELED" => y[1] \in canceled')
        BY <4>2, <4>3
      <4> QED BY <4>4 DEF Owed
    <3>4. x.pending = host[h].pending /\ Distinct(x.back) /\ SetOf(x.back) \subseteq SetOf(host[h].back) \cup {y}
      BY <1>0, <1>7
    <3>5. y[1] = t /\ x.says = y
      BY <1>2, <1>7, <2>2, <3>2
    <3>6. \A z \in SetOf(host[h].back) : z[1] # y[1]
      BY <3>1, <3>5
    <3>7. \A z \in SetOf(x.back) : z[1] # x.says[1]
      BY <1>7, <3>5, <3>6
    <3>8. x = host'[h]
      BY <1>6
    <3> HIDE <1>6
    <3> QED BY <3>3, <3>4, <3>5, <3>6, <3>7, <3>8, NewsGrow
  <2> QED BY <2>1, <2>2
<1>10. Holds(h)'
  <2>1. \A u \in x.pending \cup x.lost : state'[u] = "given"
    BY <1>0, <1>7 DEF Holds
  <2>2. \A u \in Tasks : state'[u] = "given" => state[u] = "given"
    OBVIOUS
  <2>3. x = host'[h]
    BY <1>6
  <2> HIDE <1>6
  <2> QED BY <1>1, <1>7, <2>1, <2>2, <2>3, HoldsStays
<1>11. Gone(h)'
  BY <1>1, <1>6, <1>7, GoneAlive
<1> QED BY <1>0, <1>6, <1>7, <1>8, <1>9, <1>10, <1>11 DEF Alone, Whole

\* A host hears of a task to run or to cancel.
LEMMA HearsWhole == ASSUME Sound, Next, NEW h \in Hosts, HostRuns(h) \/ HostCancels(h) PROVE Alone(h)
<1>0. /\ host \in [Hosts -> HostType] /\ host[h] \in HostType /\ phase \in [Tasks -> {"none", "sent", "queued", "begun", "ended"}]
  BY Known, HostIs
<1>1. UNCHANGED state
  BY DEF HostRuns, HostCancels, OfHost, engine
<1>2. host[h].says = <<>> /\ <<>> \in {<<>>} \cup Replies
  BY DEF HostRuns, HostCancels, Hears
<1>3. ASSUME host' = [host EXCEPT ![h].inbox = Tail(host[h].inbox)]
      PROVE  host' = [host EXCEPT ![h] = [host[h] EXCEPT !.inbox = Tail(host[h].inbox), !.says = <<>>]]
  <2>1. [host[h] EXCEPT !.inbox = Tail(host[h].inbox)] = [host[h] EXCEPT !.inbox = Tail(host[h].inbox), !.says = <<>>]
    BY <1>0, <1>2 DEF HostType
  <2>2. host' = [host EXCEPT ![h] = [host[h] EXCEPT !.inbox = Tail(host[h].inbox)]]
    BY <1>3
  <2> QED BY <2>1, <2>2
<1>4. ASSUME NEW what, host' = [host EXCEPT ![h].inbox = Tail(host[h].inbox), ![h].says = <<Heard(h), what>>]
      PROVE  host' = [host EXCEPT ![h] = [host[h] EXCEPT !.inbox = Tail(host[h].inbox), !.says = <<Heard(h), what>>]]
  BY <1>0, <1>4
<1>5. CASE HostRuns(h)
  <2>1. Hears(h, "run") /\ Heard(h) \in Tasks /\ phase[Heard(h)] = "sent"
    BY <1>5, LetterIs DEF HostRuns
  <2>2. CASE phase' = [phase EXCEPT ![Heard(h)] = "queued"] /\ host' = [host EXCEPT ![h].inbox = Tail(@)]
    BY <1>1, <1>2, <1>3, <2>1, <2>2, HeardWhole
  <2>3. ASSUME phase' = [phase EXCEPT ![Heard(h)] = "ended"], NEW what \in {"DONE", "ERROR"},
               host' = [host EXCEPT ![h].inbox = Tail(host[h].inbox), ![h].says = <<Heard(h), what>>]
        PROVE  Alone(h)
    <3>1. PICK s \in Replies : s = <<Heard(h), what>> /\ s[1] = Heard(h) /\ s[2] = what /\ s \in {<<>>} \cup Replies
      <4>1. <<Heard(h), what>> \in Replies
        BY <2>1 DEF Replies
      <4> QED BY <4>1
    <3>2. host' = [host EXCEPT ![h] = [host[h] EXCEPT !.inbox = Tail(host[h].inbox), !.says = s]]
      BY <1>4, <2>3, <3>1
    <3> QED BY <1>1, <2>1, <2>3, <3>1, <3>2, HeardWhole
  <2> QED BY <1>5, <2>2, <2>3 DEF HostRuns
<1>6. CASE HostCancels(h)
  <2>1. Hears(h, "cancel") /\ Heard(h) \in Tasks /\ Heard(h) \in canceled
    BY <1>6, LetterIs DEF HostCancels
  <2>2. CASE phase[Heard(h)] = "queued"
    <3>0. /\ phase' = [phase EXCEPT ![Heard(h)] = "ended"]
          /\ host' = [host EXCEPT ![h].inbox = Tail(host[h].inbox), ![h].says = <<Heard(h), "CANCELED">>]
      BY <1>6, <2>2 DEF HostCancels
    <3>1. PICK s \in Replies : s = <<Heard(h), "CANCELED">> /\ s[1] = Heard(h) /\ s \in {<<>>} \cup Replies
      <4>1. <<Heard(h), "CANCELED">> \in Replies
        BY <2>1 DEF Replies
      <4> QED BY <4>1
    <3>2. host' = [host EXCEPT ![h] = [host[h] EXCEPT !.inbox = Tail(host[h].inbox), !.says = s]]
      BY <1>4, <3>0, <3>1
    <3> QED BY <1>1, <2>1, <2>2, <3>0, <3>1, <3>2, HeardWhole
  <2>3. CASE phase[Heard(h)] # "queued"
    <3>0. /\ UNCHANGED phase /\ host' = [host EXCEPT ![h].inbox = Tail(host[h].inbox)]
      BY <1>6, <2>3 DEF HostCancels
    <3>1. PICK p \in {"none", "sent", "begun", "ended"} : p = phase[Heard(h)]
      BY <1>0, <2>1, <2>3
    <3>2. phase' = [phase EXCEPT ![Heard(h)] = p]
      BY <1>0, <3>0, <3>1
    <3> QED BY <1>1, <1>2, <1>3, <2>1, <3>0, <3>1, <3>2, HeardWhole
  <2> QED BY <2>2, <2>3
<1> QED BY <1>5, <1>6

\* A letter is put in the pipe of its host.
LEMMA SentWhole == ASSUME Sound, Next, Sent, host' # host PROVE \E h \in Hosts : Alone(h)
<1>1. PICK m \in Letters : m = hosting
  BY Known DEF Sent
<1>2. m.to \in Hosts
  BY DEF Letters
<1>3. PICK h \in Hosts : h = m.to
  BY <1>2
<1>4. /\ host \in [Hosts -> HostType] /\ host[h] \in HostType /\ host[h].inbox \in Seq(Letters)
      /\ Len(host[h].inbox) <= Room /\ Len(host[h].back) <= Room /\ Room \in Nat
      /\ Distinct(host[h].inbox) /\ Distinct(host[h].back)
      /\ Mail(h) /\ News(h) /\ Holds(h)
  BY HostIs
<1>5. /\ host[h].alive /\ Len(host[h].inbox) < Room /\ host' = [host EXCEPT ![h].inbox = Append(host[h].inbox, m)]
      /\ UNCHANGED <<state, phase>>
  BY <1>1, <1>3 DEF Sent, engine
<1>6. Proper(m) /\ m \notin SetOf(host[h].inbox)
  <2>1. Sending /\ hosting # Nothing
    BY Known DEF HostsFine, Sent
  <2>2. Proper(hosting) /\ hosting \notin SetOf(host[hosting.to].inbox)
    BY <2>1 DEF Sending
  <2> QED BY <1>1, <1>3, <2>2
<1>7. PICK b \in Seq(Letters) : b = Append(host[h].inbox, m)
  <2>1. Append(host[h].inbox, m) \in Seq(Letters)
    BY <1>4, AppendSet
  <2> QED BY <2>1
<1>8. SetOf(b) = SetOf(host[h].inbox) \cup {m} /\ Len(b) <= Room /\ Distinct(b)
  <2>1. SetOf(b) = SetOf(host[h].inbox) \cup {m} /\ Len(b) = Len(host[h].inbox) + 1 /\ Distinct(b)
    BY <1>4, <1>6, <1>7, AppendSet
  <2>2. Len(host[h].inbox) \in Nat
    BY <1>4
  <2>3. Len(b) <= Room
    BY <1>4, <1>5, <2>1, <2>2
  <2> QED BY <2>1, <2>3
<1>9. PICK x \in HostType : x = [host[h] EXCEPT !.inbox = b]
  BY <1>4 DEF HostType
<1>10. host' = [host EXCEPT ![h] = x]
  BY <1>4, <1>5, <1>7, <1>9
<1>11. host' \in [Hosts -> HostType] /\ x = host'[h] /\ \A g \in Hosts : g # h => host'[g] = host[g]
  BY <1>4, <1>10
<1>12. /\ x.inbox = b /\ x.says = host[h].says /\ x.alive /\ x.back = host[h].back /\ x.pending = host[h].pending
       /\ x.lost = host[h].lost /\ x.over = host[h].over /\ x.reader = host[h].reader
  BY <1>4, <1>5, <1>9 DEF HostType
<1>13. Mail(h)'
  <2>1. ASSUME NEW l \in SetOf(b) PROVE l.to = h /\ Proper(l)'
    <3>1. l \in Letters
      BY <2>1 DEF SetOf
    <3>2. l.to = h /\ Proper(l)
      BY <1>3, <1>4, <1>6, <1>8 DEF Mail
    <3>3. l.kind = "run" => phase'[l.task] = "sent"
      BY <1>5, <3>2 DEF Proper
    <3>4. l.kind = "stop" => host'[l.to].over /\ host'[l.to].pending = {} /\ host'[l.to].lost = {}
      BY <1>11, <1>12, <3>2 DEF Proper
    <3> QED BY <3>1, <3>2, <3>3, <3>4, LetterStays
  <2>2. host'[h].inbox = b
    BY <1>11, <1>12
  <2> QED BY <1>8, <2>1, <2>2 DEF Mail
<1>14. News(h)'
  <2>1. \A y \in SetOf(x.back) : y[1] \in x.pending
    BY <1>4, <1>12 DEF News, Owed
  <2>2. x.says # <<>> => x.says[1] \in x.pending
    BY <1>4, <1>12 DEF News, Owed
  <2> QED BY <1>4, <1>11, <1>12, <2>1, <2>2, NewsStays
<1>15. Holds(h)'
  <2>1. \A u \in x.pending \cup x.lost : state'[u] = "given"
    BY <1>4, <1>5, <1>12 DEF Holds
  <2> QED BY <1>5, <1>11, <1>12, <2>1, HoldsStays
<1>16. Gone(h)'
  BY <1>5, <1>11, <1>12, GoneAlive
<1> QED BY <1>4, <1>8, <1>11, <1>12, <1>13, <1>14, <1>15, <1>16 DEF Alone, Whole

\* The reader tells of a task that was answered.
LEMMA ReceivesWhole == ASSUME Sound, Next, NEW h \in Hosts, Receives(h) PROVE Alone(h)
<1>0. /\ host \in [Hosts -> HostType] /\ host[h] \in HostType /\ host[h].inbox \in Seq(Letters) /\ host[h].back \in Seq(Replies)
      /\ Len(host[h].inbox) <= Room /\ Len(host[h].back) <= Room /\ Room \in Nat
      /\ Distinct(host[h].inbox) /\ Distinct(host[h].back) /\ h \in Nat /\ last \in Nat
      /\ Mail(h) /\ News(h) /\ Holds(h) /\ Gone(h)
  BY HostIs
<1>1. PICK a \in Replies : a = Head(host[h].back)
  BY FirstAnswer DEF Receives
<1>2. /\ host[h].reader = "poll" /\ host[h].back # <<>> /\ Say(a[1], a[2]) /\ UNCHANGED <<phase, last>>
      /\ host' = [host EXCEPT ![h].back = Tail(host[h].back), ![h].pending = host[h].pending \ {a[1]}]
  BY <1>1 DEF Receives, Pending
<1>3. a \in SetOf(host[h].back) /\ a[1] \in host[h].pending /\ a[1] \in Tasks /\ a[2] \in {"DONE", "ERROR", "CANCELED"}
  BY <1>1, <1>2, FirstAnswer
<1>4. PICK t \in Tasks, what \in {"DONE", "ERROR", "CANCELED"} : t = a[1] /\ what = a[2]
  BY <1>3
<1>5. HearsOf(t, what)
  BY <1>2, <1>4, SaysIt
<1>6. PICK b \in Seq(Replies) : b = Tail(host[h].back)
  <2>1. Tail(host[h].back) \in Seq(Replies)
    BY <1>0, <1>2, TailSet
  <2> QED BY <2>1
<1>7. /\ SetOf(b) \subseteq SetOf(host[h].back) /\ Len(b) <= Room /\ Distinct(b) /\ a \notin SetOf(b)
  <2>1. PICK l : l = host[h].back
    OBVIOUS
  <2>2. l \in Seq(Replies) /\ l # <<>> /\ Distinct(l)
    BY <1>0, <1>2, <2>1
  <2>3. /\ Distinct(Tail(l)) /\ SetOf(Tail(l)) \subseteq SetOf(l) /\ Head(l) \notin SetOf(Tail(l))
        /\ Len(Tail(l)) <= Len(l) /\ Len(Tail(l)) \in Nat /\ Len(l) \in Nat
    BY <2>2, TailSet
  <2>4. Len(b) <= Room
    BY <1>0, <1>6, <2>1, <2>3
  <2> QED BY <1>1, <1>6, <2>1, <2>3, <2>4
<1>8. PICK x \in HostType : x = [host[h] EXCEPT !.back = b, !.pending = host[h].pending \ {t}]
  BY <1>0 DEF HostType
<1>9. host' = [host EXCEPT ![h] = x]
  BY <1>0, <1>2, <1>4, <1>6, <1>8
<1>10. host' \in [Hosts -> HostType] /\ x = host'[h] /\ \A g \in Hosts : g # h => host'[g] = host[g]
  BY <1>0, <1>9
<1>11. /\ x.inbox = host[h].inbox /\ x.says = host[h].says /\ x.alive = host[h].alive /\ x.back = b
       /\ x.pending = host[h].pending \ {t} /\ x.lost = host[h].lost /\ x.over = host[h].over /\ x.reader = "poll"
  BY <1>0, <1>2, <1>8 DEF HostType
<1>12. x.lost = {} /\ phase[t] = "ended" /\ t \in host[h].pending
  BY <1>0, <1>2, <1>3, <1>4, <1>11 DEF Gone, News, Owed
<1>13. Mail(h)'
  <2>1. \A m \in SetOf(x.inbox) : m.kind = "run" => phase'[m.task] = "sent"
    BY <1>0, <1>2, <1>11 DEF Mail, Proper
  <2>2. host[h].pending = {} => x.pending = {}
    BY <1>11
  <2> QED BY <1>0, <1>10, <1>11, <2>1, <2>2, MailStays
<1>14. News(h)'
  <2>1. ASSUME NEW y \in SetOf(x.back) PROVE y[1] \in x.pending
    <3>1. y \in SetOf(host[h].back) /\ y # a
      BY <1>7, <1>11, <2>1
    <3>2. y[1] \in host[h].pending /\ y[1] # t
      BY <1>0, <1>3, <1>4, <3>1 DEF News, Owed
    <3> QED BY <1>11, <3>2
  <2>2. x.says # <<>> => x.says[1] \in x.pending
    BY <1>0, <1>3, <1>4, <1>11 DEF News, Owed
  <2> QED BY <1>7, <1>10, <1>11, <2>1, <2>2, NewsStays
<1>15. Holds(h)'
  <2>1. \A u \in x.pending \cup x.lost : state'[u] = "given"
    <3>1. \A u \in x.pending \cup x.lost : u \in Tasks /\ u # t /\ state[u] = "given"
      BY <1>0, <1>11, <1>12 DEF Holds, HostType
    <3> QED BY <1>5, <3>1 DEF HearsOf
  <2>2. \A u \in Tasks : state'[u] = "given" => state[u] = "given"
    BY <1>5 DEF HearsOf
  <2>3. x.pending \cup x.lost \subseteq host[h].pending \cup host[h].lost
    BY <1>11
  <2>4. x.alive => host[h].alive /\ \A u \in host[h].pending : u \in x.pending \/ phase[u] = "ended"
    BY <1>11, <1>12
  <2> QED BY <1>10, <2>1, <2>2, <2>3, <2>4, HoldsStays
<1>16. Gone(h)'
  <2>1. ~(h > last') /\ h <= last'
    BY <1>0, <1>2 DEF Gone, Unborn
  <2>2. HostId(h)' = HostId(h) /\ harmed \subseteq harmed' /\ (shut => shut')
    BY Lasting DEF HostId
  <2>3. host[h].pending = {} => x.pending = {}
    BY <1>11
  <2>4. h <= last
    BY <1>2, <2>1
  <2> QED BY <1>0, <1>2, <1>10, <1>11, <1>12, <2>1, <2>2, <2>3, <2>4 DEF Gone
<1> QED BY <1>0, <1>7, <1>10, <1>11, <1>13, <1>14, <1>15, <1>16 DEF Alone, Whole

\* The reader gives back a task of a host that is gone.
LEMMA GivesBackWhole == ASSUME Sound, Next, NEW h \in Hosts, NEW t \in Tasks, GivesBack(h, t) PROVE Alone(h)
<1>0. /\ host \in [Hosts -> HostType] /\ host[h] \in HostType /\ host[h].inbox \in Seq(Letters) /\ host[h].back \in Seq(Replies)
      /\ Len(host[h].inbox) <= Room /\ Len(host[h].back) <= Room /\ Room \in Nat
      /\ Distinct(host[h].inbox) /\ Distinct(host[h].back) /\ h \in Nat /\ last \in Nat
      /\ Mail(h) /\ News(h) /\ Holds(h) /\ Gone(h)
  BY HostIs
<1>1. /\ host[h].reader = "lost" /\ t \in host[h].lost /\ Say(t, "LOST") /\ UNCHANGED <<phase, last>>
      /\ host' = [host EXCEPT ![h].lost = host[h].lost \ {t}]
  BY DEF GivesBack
<1>2. HearsOf(t, "LOST")
  BY <1>1, SaysIt
<1>3. /\ host[h].pending = {} /\ host[h].over /\ ~host[h].alive /\ host[h].back = <<>> /\ host[h].inbox = <<>> /\ host[h].says = <<>>
  BY <1>0, <1>1 DEF Gone
<1>4. PICK x \in HostType : x = [host[h] EXCEPT !.lost = host[h].lost \ {t}]
  BY <1>0 DEF HostType
<1>5. host' = [host EXCEPT ![h] = x]
  BY <1>0, <1>1, <1>4
<1>6. host' \in [Hosts -> HostType] /\ x = host'[h] /\ \A g \in Hosts : g # h => host'[g] = host[g]
  BY <1>0, <1>5
<1>7. /\ x.inbox = <<>> /\ x.says = <<>> /\ ~x.alive /\ x.back = <<>>
      /\ x.pending = {} /\ x.lost = host[h].lost \ {t} /\ x.over /\ x.reader = "lost"
  BY <1>0, <1>1, <1>3, <1>4 DEF HostType
<1>8. SetOf(<<>>) = {} /\ Distinct(<<>>)
  BY EmptySet
<1>9. Mail(h)'
  <2>1. Distinct(x.inbox) /\ SetOf(x.inbox) = {} /\ (host[h].lost = {} => x.lost = {})
    BY <1>7, <1>8
  <2> QED BY <1>6, <1>7, <2>1, MailStays
<1>10. News(h)'
  <2>1. Distinct(x.back) /\ SetOf(x.back) = {}
    BY <1>7, <1>8
  <2> QED BY <1>6, <1>7, <2>1, NewsStays
<1>11. Holds(h)'
  <2>1. \A u \in x.pending \cup x.lost : state'[u] = "given"
    <3>1. \A u \in x.pending \cup x.lost : u \in Tasks /\ u # t /\ state[u] = "given"
      BY <1>0, <1>7 DEF Holds, HostType
    <3> QED BY <1>2, <3>1 DEF HearsOf
  <2>2. \A u \in Tasks : state'[u] = "given" => state[u] = "given"
    BY <1>2 DEF HearsOf
  <2>3. x.pending \cup x.lost \subseteq host[h].pending \cup host[h].lost
    BY <1>7
  <2> QED BY <1>6, <1>7, <2>1, <2>2, <2>3, HoldsStays
<1>12. Gone(h)'
  <2>1. ~(h > last') /\ h <= last' /\ h <= last
    BY <1>0, <1>1 DEF Gone, Unborn
  <2>2. HostId(h)' = HostId(h) /\ harmed \subseteq harmed' /\ (shut => shut')
    BY Lasting DEF HostId
  <2>3. HostId(h) \in harmed \/ shut
    BY <1>0, <1>1, <1>3, <2>1 DEF Gone
  <2> QED BY <1>6, <1>7, <2>1, <2>2, <2>3 DEF Gone
<1>13. Len(x.inbox) <= Room /\ Len(x.back) <= Room
  <2>1. Len(x.inbox) = 0 /\ Len(x.back) = 0
    BY <1>7
  <2> QED BY <1>0, <2>1
<1> QED BY <1>6, <1>9, <1>10, <1>11, <1>12, <1>13 DEF Alone, Whole

\* A task is sent to the latest host, or to a new one.
LEMMA SubmitWhole == ASSUME Sound, Next, NEW t \in Tasks, SubmitToHost(t) PROVE \E h \in Hosts : h = last' /\ Alone(h)
<1>1. /\ mix[t] = "host" /\ state[t] = "free" /\ state' = [state EXCEPT ![t] = "given"] /\ at' = [at EXCEPT ![t] = last']
      /\ phase' = [phase EXCEPT ![t] = "sent"] /\ UNCHANGED <<mix, harmed, shut, canceled>>
      /\ last' = IF NeedsHost THEN last + 1 ELSE last
  BY DEF SubmitToHost, Fits, Give
<1>2. /\ mix \in [Tasks -> {"host", "pool", "thread", "ray", "none"}] /\ at \in [Tasks -> Nat]
      /\ state \in [Tasks -> {"free", "given", "done", "over"}] /\ Given /\ Started
      /\ phase \in [Tasks -> {"none", "sent", "queued", "begun", "ended"}]
      /\ last \in Nat /\ Cardinality(Tasks) \in Nat /\ last' \in 0 .. Cardinality(Tasks)
  BY Known, StartedStays
<1>3. last' \in 1 .. Cardinality(Tasks) /\ last' \in Nat
  BY <1>1, <1>2 DEF NeedsHost
<1>4. PICK h \in Hosts : h = last'
  BY <1>3 DEF Hosts
<1>5. /\ host \in [Hosts -> HostType] /\ host[h] \in HostType /\ host[h].inbox \in Seq(Letters) /\ host[h].back \in Seq(Replies)
      /\ Len(host[h].inbox) <= Room /\ Len(host[h].back) <= Room /\ Room \in Nat
      /\ Distinct(host[h].inbox) /\ Distinct(host[h].back) /\ h \in Nat
      /\ Mail(h) /\ News(h) /\ Holds(h) /\ Gone(h) /\ host[h].pending \subseteq Tasks
  BY HostIs
<1>6. PICK b : b = IF NeedsHost THEN Born ELSE host[h]
  OBVIOUS
<1>7. host' = [host EXCEPT ![h] = Taking(b, t)]
  <2>1. host' = [host EXCEPT ![last'] = Taking(IF NeedsHost THEN Born ELSE host[last'], t)]
    BY DEF SubmitToHost
  <2> QED BY <1>4, <1>6, <2>1
<1>8. Born \in HostType /\ Born.inbox = <<>> /\ Born.back = <<>> /\ Born.says = <<>> /\ Born.pending = {} /\ Born.lost = {}
      /\ Born.alive /\ ~Born.over /\ Born.reader = "poll"
  <2>1. <<>> \in Seq(Letters) /\ <<>> \in Seq(Replies)
    OBVIOUS
  <2> QED BY <2>1 DEF Born, Unborn, HostType
<1>9. b \in HostType
  BY <1>5, <1>6, <1>8
<1>10. PICK x \in HostType : x = Taking(b, t)
  BY <1>9 DEF Taking, HostType
<1>11. host' \in [Hosts -> HostType] /\ x = host'[h] /\ \A g \in Hosts : g # h => host'[g] = host[g]
  BY <1>5, <1>7, <1>10
<1>12. /\ x.inbox = b.inbox /\ x.says = b.says /\ x.alive = b.alive /\ x.back = b.back
       /\ x.pending = b.pending \cup {t} /\ x.lost = b.lost /\ x.over = b.over /\ x.reader = b.reader
  BY <1>9, <1>10 DEF Taking, HostType
<1>13. /\ state'[t] = "given" /\ at'[t] = h /\ phase'[t] = "sent" /\ phase[t] = "none"
       /\ \A u \in Tasks : u # t => state'[u] = state[u] /\ at'[u] = at[u] /\ phase'[u] = phase[u]
  BY <1>1, <1>2, <1>4 DEF Given
<1>14. CASE NeedsHost
  <2>1. b = Born /\ h > last /\ h = last'
    BY <1>1, <1>2, <1>4, <1>6, <1>14
  <2>2. SetOf(<<>>) = {} /\ Distinct(<<>>) /\ Len(<<>>) = 0
    BY EmptySet
  <2>3. Mail(h)'
    BY <1>8, <1>11, <1>12, <2>1, <2>2 DEF Mail
  <2>4. News(h)'
    BY <1>8, <1>11, <1>12, <2>1, <2>2 DEF News
  <2>5. Holds(h)'
    <3>1. x.pending \cup x.lost = {t}
      BY <1>8, <1>12, <2>1
    <3>2. ASSUME NEW u \in Tasks, mix'[u] = "host", at'[u] = h, phase'[u] \in {"sent", "queued", "begun"} PROVE u = t
      <4> SUFFICES ASSUME u # t PROVE FALSE
        OBVIOUS
      <4>1. mix[u] = "host" /\ at[u] = h /\ phase[u] # "none"
        BY <1>1, <1>13, <3>2
      <4>2. state[u] # "free"
        BY <1>2, <4>1 DEF Given
      <4>3. at[u] \in 1 .. last
        BY <1>2, <4>1, <4>2 DEF Started
      <4> QED BY <1>2, <2>1, <4>1, <4>3
    <3>3. \A u \in x.pending \cup x.lost : mix'[u] = "host" /\ at'[u] = h /\ state'[u] = "given"
      BY <1>1, <1>13, <3>1
    <3>4. \A u \in Tasks : mix'[u] = "host" /\ at'[u] = h /\ phase'[u] \in {"sent", "queued", "begun"} => u \in x.pending
      BY <3>2, <1>12
    <3>5. x = host'[h]
      BY <1>11
    <3> HIDE <1>11
    <3> QED BY <3>3, <3>4, <3>5 DEF Holds
  <2>6. Gone(h)'
    <3>1. ~(h > last') /\ x.alive /\ x.lost = {} /\ x.reader = "poll"
      BY <1>3, <1>8, <1>12, <2>1
    <3> QED BY <1>11, <3>1 DEF Gone
  <2>7. Len(x.inbox) <= Room /\ Len(x.back) <= Room
    BY <1>5, <1>8, <1>12, <2>1, <2>2
  <2> QED BY <1>4, <1>11, <2>3, <2>4, <2>5, <2>6, <2>7 DEF Alone, Whole
<1>15. CASE ~NeedsHost
  <2>1. b = host[h] /\ h = last /\ ~host[h].over
    BY <1>1, <1>4, <1>6, <1>15 DEF NeedsHost
  <2>2. Mail(h)'
    <3>1. \A m \in SetOf(x.inbox) : m.kind = "run" => phase'[m.task] = "sent"
      BY <1>5, <1>12, <1>13, <2>1 DEF Mail, Proper
    <3> QED BY <1>5, <1>11, <1>12, <2>1, <3>1, MailStays
  <2>3. News(h)'
    <3>1. \A y \in SetOf(x.back) : y[1] \in x.pending
      BY <1>5, <1>12, <2>1 DEF News, Owed
    <3>2. x.says # <<>> => x.says[1] \in x.pending
      BY <1>5, <1>12, <2>1 DEF News, Owed
    <3> QED BY <1>5, <1>11, <1>12, <2>1, <3>1, <3>2, NewsStays
  <2>4. Holds(h)'
    <3>1. ASSUME NEW u \in x.pending \cup x.lost PROVE mix'[u] = "host" /\ at'[u] = h /\ state'[u] = "given"
      <4>1. u = t \/ (u # t /\ u \in Tasks /\ mix[u] = "host" /\ at[u] = h /\ state[u] = "given")
        BY <1>5, <1>12, <2>1 DEF Holds, HostType
      <4> QED BY <1>1, <1>13, <4>1
    <3>2. ASSUME x.alive, NEW u \in Tasks, mix'[u] = "host", at'[u] = h, phase'[u] \in {"sent", "queued", "begun"}
          PROVE  u \in x.pending
      <4>1. CASE u = t
        BY <1>12, <4>1
      <4>2. CASE u # t
        <5>1. mix[u] = "host" /\ at[u] = h /\ phase[u] \in {"sent", "queued", "begun"} /\ host[h].alive
          BY <1>1, <1>12, <1>13, <2>1, <3>2, <4>2
        <5> QED BY <1>5, <1>12, <2>1, <5>1 DEF Holds
      <4> QED BY <4>1, <4>2
    <3> QED BY <1>11, <3>1, <3>2 DEF Holds
  <2>5. Gone(h)'
    <3>1. ~(h > last') /\ h <= last /\ h <= last'
      BY <1>3, <1>4, <2>1
    <3>2. HostId(h)' = HostId(h)
      BY DEF HostId
    <3>3. x.reader # "lost" /\ x.lost = {}
      BY <1>5, <1>12, <2>1 DEF Gone
    <3>4. ~x.alive => HostId(h) \in harmed \/ shut
      BY <1>5, <1>12, <2>1, <3>1 DEF Gone
    <3>5. x.reader = "end" => ~x.alive /\ x.back = <<>>
      BY <1>5, <1>12, <2>1 DEF Gone
    <3>6. ~x.alive => x.inbox = <<>> /\ x.says = <<>>
      BY <1>5, <1>12, <2>1 DEF Gone
    <3> QED BY <1>1, <1>11, <3>1, <3>2, <3>3, <3>4, <3>5, <3>6 DEF Gone
  <2> QED BY <1>4, <1>5, <1>11, <1>12, <2>1, <2>2, <2>3, <2>4, <2>5 DEF Alone, Whole
<1> QED BY <1>14, <1>15

\* Every host is well after a step, for the one that a step changes is.
LEMMA AllWhole ==
  ASSUME Sound, Next
  PROVE  host' \in [Hosts -> HostType] /\ \A h \in Hosts : Whole(h)'
<1>0. host \in [Hosts -> HostType]
  BY Known
<1>1. CASE \E g \in Hosts : Alone(g)
  <2>1. PICK g \in Hosts : Alone(g)
    BY <1>1
  <2>2. ASSUME NEW h \in Hosts PROVE Whole(h)'
    <3>1. CASE h = g
      BY <2>1, <3>1 DEF Alone
    <3>2. CASE h # g
      BY <2>1, <3>2, Untouched DEF Alone
    <3> QED BY <3>1, <3>2
  <2> QED BY <2>1, <2>2 DEF Alone
<1>2. CASE UNCHANGED host
  BY <1>0, <1>2, Untouched
<1>3. CASE Kill \/ Shutdown \/ Sent
  BY <1>1, <1>2, <1>3, KillWhole, ShutdownWhole, SentWhole
<1>4. CASE \E t \in Tasks : SubmitToHost(t)
  BY <1>1, <1>4, SubmitWhole
<1>5. CASE \E h \in Hosts : HostDies(h) \/ HostStops(h)
  BY <1>1, <1>5, HostDiesWhole
<1>6. CASE \E h \in Hosts : Waits(h) \/ Idle(h) \/ Ends(h) \/ Over(h)
  BY <1>1, <1>6, ReadsWhole
<1>7. CASE \E h \in Hosts : HostRuns(h) \/ HostCancels(h)
  BY <1>1, <1>7, HearsWhole
<1>8. CASE \E h \in Hosts : MainAnswers(h) \/ Receives(h)
  BY <1>1, <1>8, MainAnswersWhole, ReceivesWhole
<1>9. CASE \E h \in Hosts : \E t \in Tasks : Answers(h, t) \/ GivesBack(h, t)
  BY <1>1, <1>9, AnswersWhole, GivesBackWhole
<1>10. CASE \/ \E t \in Tasks : SubmitToPool(t) \/ SubmitToThread(t) \/ SubmitToRay(t) \/ Cancel(t) \/ Finished(t)
            \/ \E t \in Tasks : FreeCard(t) \/ PoolBegins(t) \/ PoolEnds(t) \/ TakesUp(t) \/ ThreadEnds(t) \/ StopNext(t)
            \/ \E t \in Tasks : RayEnds(t) \/ RayDies(t) \/ \E h \in Hosts : Begins(h, t)
            \/ KillRay \/ PoolDies \/ PoolBreaks
  BY <1>2, <1>10 DEF SubmitToPool, SubmitToThread, SubmitToRay, Queue, Cancel, Finished, FreeCard, PoolBegins, PoolEnds, TakesUp,
                     ThreadEnds, StopNext, RayEnds, RayDies, Begins, KillRay, PoolDies, PoolBreaks, OfPool
<1> QED BY <1>3, <1>4, <1>5, <1>6, <1>7, <1>8, <1>9, <1>10 DEF Next, Goes, RayGoes, Reader, Main

HostMoves(h) ==
  /\ host[h].over /\ host[h].pending = {} /\ host[h].lost = {} =>
       host'[h].over /\ host'[h].pending = {} /\ host'[h].lost = {}
  /\ Sent \/ SetOf(host'[h].inbox) \subseteq SetOf(host[h].inbox)

\* A host that has nothing to do gets nothing, and only what is sent gets in a pipe.
LEMMA HostsMove == ASSUME Sound, Next, NEW h \in Hosts PROVE HostMoves(h)
<1>0. host \in [Hosts -> HostType] /\ host[h] \in HostType /\ host[h].inbox \in Seq(Letters) /\ h \in Nat /\ last \in Nat /\ Gone(h)
  BY HostIs
<1>1. CASE host'[h] = host[h]
  BY <1>1 DEF HostMoves
<1>2. ASSUME NEW g \in Hosts, NEW x, host' = [host EXCEPT ![g] = x],
             host[g].over /\ host[g].pending = {} /\ host[g].lost = {} => x.over /\ x.pending = {} /\ x.lost = {},
             x.inbox = host[g].inbox \/ x.inbox = <<>> \/ (host[g].inbox # <<>> /\ x.inbox = Tail(host[g].inbox)) \/ Sent
      PROVE  HostMoves(h)
  <2>1. CASE h # g
    BY <1>0, <1>1, <1>2, <2>1
  <2>2. CASE h = g
    <3>1. host'[h] = x
      BY <1>0, <1>2, <2>2
    <3>2. host[h].inbox # <<>> => SetOf(Tail(host[h].inbox)) \subseteq SetOf(host[h].inbox)
      BY <1>0, TailSet
    <3>3. SetOf(<<>>) = {}
      BY EmptySet
    <3>4. Sent \/ SetOf(x.inbox) \subseteq SetOf(host[h].inbox)
      BY <1>2, <2>2, <3>2, <3>3
    <3> QED BY <1>2, <2>2, <3>1, <3>4 DEF HostMoves
  <2> QED BY <2>1, <2>2
<1>3. CASE \E t \in Tasks : SubmitToHost(t)
  <2>1. PICK t \in Tasks : SubmitToHost(t)
    BY <1>3
  <2>2. PICK g \in Hosts : g = last'
    BY <2>1, SubmitWhole
  <2>3. PICK b : b = IF NeedsHost THEN Born ELSE host[g]
    OBVIOUS
  <2>4. host' = [host EXCEPT ![g] = Taking(b, t)]
    <3>1. host' = [host EXCEPT ![last'] = Taking(IF NeedsHost THEN Born ELSE host[last'], t)]
      BY <2>1 DEF SubmitToHost
    <3> QED BY <2>2, <2>3, <3>1
  <2>5. ~host[g].over
    <3>1. last' = IF NeedsHost THEN last + 1 ELSE last
      BY <2>1 DEF SubmitToHost
    <3>2. CASE NeedsHost
      <4>1. g > last /\ Gone(g)
        BY <1>0, <2>2, <3>1, <3>2, HostIs
      <4> QED BY <4>1 DEF Gone, Unborn
    <3> QED BY <2>2, <3>1, <3>2 DEF NeedsHost
  <2>6. Taking(b, t).inbox = host[g].inbox \/ Taking(b, t).inbox = <<>>
    <3>1. host[g] \in HostType
      BY <1>0
    <3> QED BY <2>3, <3>1 DEF Taking, Born, Unborn, HostType
  <2> QED BY <1>2, <2>4, <2>5, <2>6
<1>4. CASE Kill \/ Shutdown \/ \E g \in Hosts : HostDies(g) \/ HostStops(g)
  <2>1. host' = host \/ \E g \in Hosts : host' = [host EXCEPT ![g] = [Dead(host[g]) EXCEPT !.over = TRUE]] \/ host' = [host EXCEPT ![g] = Dead(host[g])]
    <3>1. last # 0 => last \in Hosts
      BY Known DEF Hosts
    <3>2. CASE Kill \/ Shutdown
      <4>1. host' = host \/ (last # 0 /\ host' = [host EXCEPT ![last] = [Dead(host[last]) EXCEPT !.over = TRUE]])
        BY <3>2 DEF Kill, Shutdown
      <4> QED BY <3>1, <4>1
    <3>3. CASE \E g \in Hosts : HostDies(g) \/ HostStops(g)
      BY <3>3 DEF HostDies, HostStops
    <3> QED BY <1>4, <3>2, <3>3
  <2>2. CASE host' = host
    BY <1>1, <2>2
  <2>3. ASSUME NEW g \in Hosts, NEW x, host' = [host EXCEPT ![g] = x], x = [Dead(host[g]) EXCEPT !.over = TRUE] \/ x = Dead(host[g])
        PROVE  HostMoves(h)
    <3>1. host[g] \in HostType
      BY <1>0
    <3>2. x.inbox = <<>> /\ (host[g].over => x.over) /\ x.pending = host[g].pending /\ x.lost = host[g].lost
      BY <2>3, <3>1 DEF Dead, HostType
    <3> QED BY <1>2, <2>3, <3>2
  <2> QED BY <2>1, <2>2, <2>3
<1>5. CASE Sent
  <2>1. CASE host' = host
    BY <1>1, <2>1
  <2>2. CASE host' # host
    <3>1. PICK m \in Letters : m = hosting
      BY <1>5, Known DEF Sent
    <3>2. PICK g \in Hosts : g = m.to
      BY DEF Letters
    <3>3. host' = [host EXCEPT ![g] = [host[g] EXCEPT !.inbox = Append(host[g].inbox, m)]] /\ host[g] \in HostType
      BY <1>0, <1>5, <2>2, <3>1, <3>2 DEF Sent
    <3> QED BY <1>2, <1>5, <3>3 DEF HostType
  <2> QED BY <2>1, <2>2
<1>6. ASSUME NEW g \in Hosts, HostRuns(g) \/ HostCancels(g) PROVE HostMoves(h)
  <2>1. host[g] \in HostType /\ host[g].inbox # <<>>
    BY <1>0, <1>6 DEF HostRuns, HostCancels, Hears
  <2>2. PICK x : /\ host' = [host EXCEPT ![g] = x]
                 /\ \/ x = [host[g] EXCEPT !.inbox = Tail(host[g].inbox)]
                    \/ \E what : x = [host[g] EXCEPT !.inbox = Tail(host[g].inbox), !.says = <<Heard(g), what>>]
    <3>1. \/ host' = [host EXCEPT ![g].inbox = Tail(host[g].inbox)]
          \/ \E what : host' = [host EXCEPT ![g].inbox = Tail(host[g].inbox), ![g].says = <<Heard(g), what>>]
      BY <1>6 DEF HostRuns, HostCancels
    <3> QED BY <1>0, <3>1
  <2>3. x.inbox = Tail(host[g].inbox) /\ x.over = host[g].over /\ x.pending = host[g].pending /\ x.lost = host[g].lost
    BY <2>1, <2>2 DEF HostType
  <2> QED BY <1>2, <2>1, <2>2, <2>3
<1>7. ASSUME NEW g \in Hosts, MainAnswers(g) \/ Waits(g) \/ Ends(g) \/ Receives(g) \/ \E t \in Tasks : Answers(g, t) \/ GivesBack(g, t)
      PROVE  HostMoves(h)
  <2>1. host[g] \in HostType
    BY <1>0
  <2>2. PICK x : /\ host' = [host EXCEPT ![g] = x]
                 /\ \/ \E b : x = [host[g] EXCEPT !.says = <<>>, !.back = b]
                    \/ \E b : x = [host[g] EXCEPT !.back = b]
                    \/ \E r : x = [host[g] EXCEPT !.reader = r]
                    \/ \E b, u : x = [host[g] EXCEPT !.back = b, !.pending = host[g].pending \ {u}]
                    \/ \E u : x = [host[g] EXCEPT !.lost = host[g].lost \ {u}]
    <3>1. CASE MainAnswers(g)
      <4>1. host' = [host EXCEPT ![g].says = <<>>, ![g].back = Append(host[g].back, host[g].says)]
        BY <3>1 DEF MainAnswers
      <4>2. host' = [host EXCEPT ![g] = [host[g] EXCEPT !.says = <<>>, !.back = Append(host[g].back, host[g].says)]]
        BY <1>0, <4>1
      <4> QED BY <4>2
    <3>2. CASE Waits(g) \/ Ends(g) \/ \E t \in Tasks : Answers(g, t) \/ GivesBack(g, t)
      BY <3>2 DEF Waits, Ends, Answers, GivesBack
    <3>3. CASE Receives(g)
      <4>1. PICK u : host' = [host EXCEPT ![g].back = Tail(host[g].back), ![g].pending = host[g].pending \ {u}]
        BY <3>3 DEF Receives, Pending
      <4>2. PICK b : b = Tail(host[g].back)
        OBVIOUS
      <4>3. PICK x : x = [host[g] EXCEPT !.back = b, !.pending = host[g].pending \ {u}]
        OBVIOUS
      <4>4. host' = [host EXCEPT ![g] = x]
        BY <1>0, <4>1, <4>2, <4>3
      <4>5. \E c, v : x = [host[g] EXCEPT !.back = c, !.pending = host[g].pending \ {v}]
        <5> WITNESS b, u
        <5> QED BY <4>3
      <4> WITNESS x
      <4> QED BY <4>4, <4>5
    <3> QED BY <1>7, <3>1, <3>2, <3>3
  <2>3. /\ x.inbox = host[g].inbox /\ x.over = host[g].over
        /\ x.pending \subseteq host[g].pending /\ x.lost \subseteq host[g].lost
    <3>1. CASE \E b : x = [host[g] EXCEPT !.says = <<>>, !.back = b]
      BY <2>1, <3>1 DEF HostType
    <3>2. CASE \E b : x = [host[g] EXCEPT !.back = b]
      BY <2>1, <3>2 DEF HostType
    <3>3. CASE \E r : x = [host[g] EXCEPT !.reader = r]
      BY <2>1, <3>3 DEF HostType
    <3>4. CASE \E b, u : x = [host[g] EXCEPT !.back = b, !.pending = host[g].pending \ {u}]
      BY <2>1, <3>4 DEF HostType
    <3>5. CASE \E u : x = [host[g] EXCEPT !.lost = host[g].lost \ {u}]
      BY <2>1, <3>5 DEF HostType
    <3> QED BY <2>2, <3>1, <3>2, <3>3, <3>4, <3>5
  <2> QED BY <1>2, <2>2, <2>3
<1>8. ASSUME NEW g \in Hosts, Idle(g) \/ Over(g) PROVE HostMoves(h)
  <2>1. host[g] \in HostType
    BY <1>0
  <2>2. PICK x : /\ host' = [host EXCEPT ![g] = x]
                 /\ \/ x = [host[g] EXCEPT !.reader = "poll", !.over = host[g].over \/ Leaves(g)]
                    \/ x = [host[g] EXCEPT !.reader = "lost", !.over = TRUE, !.lost = host[g].pending, !.pending = {}]
    <3>1. \/ host' = [host EXCEPT ![g].reader = "poll", ![g].over = host[g].over \/ Leaves(g)]
          \/ host' = [host EXCEPT ![g].reader = "lost", ![g].over = TRUE, ![g].lost = host[g].pending, ![g].pending = {}]
      BY <1>8 DEF Idle, Over, LostOf
    <3> QED BY <1>0, <3>1
  <2>3. x.inbox = host[g].inbox /\ (host[g].over => x.over)
    BY <2>1, <2>2 DEF HostType
  <2>4. host[g].pending = {} /\ host[g].lost = {} => x.pending = {} /\ x.lost = {}
    BY <2>1, <2>2 DEF HostType
  <2> QED BY <1>2, <2>2, <2>3, <2>4
<1>9. CASE UNCHANGED host
  BY <1>1, <1>9
<1>10. CASE \/ \E t \in Tasks : SubmitToPool(t) \/ SubmitToThread(t) \/ SubmitToRay(t) \/ Cancel(t) \/ Finished(t)
            \/ \E t \in Tasks : FreeCard(t) \/ PoolBegins(t) \/ PoolEnds(t) \/ TakesUp(t) \/ ThreadEnds(t) \/ StopNext(t)
            \/ \E t \in Tasks : RayEnds(t) \/ RayDies(t) \/ \E g \in Hosts : Begins(g, t)
            \/ KillRay \/ PoolDies \/ PoolBreaks
  BY <1>9, <1>10 DEF SubmitToPool, SubmitToThread, SubmitToRay, Queue, Cancel, Finished, FreeCard, PoolBegins, PoolEnds, TakesUp,
                     ThreadEnds, StopNext, RayEnds, RayDies, Begins, KillRay, PoolDies, PoolBreaks, OfPool
<1> QED BY <1>3, <1>4, <1>5, <1>6, <1>7, <1>8, <1>10 DEF Next, Goes, RayGoes, Reader, Main

\* What is being sent is right, and is in no pipe yet.
LEMMA SendingStays ==
  ASSUME Sound, Next
  PROVE  Sending' /\ (hosting' = Nothing \/ hosting' \in Letters)
<1>0. /\ hosting = Nothing \/ hosting \in Letters
      /\ Sending /\ Given /\ Started /\ host \in [Hosts -> HostType] /\ last \in Nat
      /\ mix \in [Tasks -> {"host", "pool", "thread", "ray", "none"}]
      /\ state \in [Tasks -> {"free", "given", "done", "over"}]
      /\ phase \in [Tasks -> {"none", "sent", "queued", "begun", "ended"}]
      /\ at \in [Tasks -> Nat] /\ Hosts = 1 .. Cardinality(Tasks) /\ Cardinality(Tasks) \in Nat
      /\ canceled \subseteq Tasks
  BY Known DEF HostsFine
<1>1. host' \in [Hosts -> HostType] /\ last' \in 0 .. Cardinality(Tasks) /\ last <= last'
  BY AllWhole, StartedStays
<1>2. CASE hosting' = Nothing
  BY <1>2 DEF Sending
\* A new letter.
<1>3. ASSUME NEW m \in Letters, hosting' = m, Proper(m)', m \notin SetOf(host'[m.to].inbox)
      PROVE  Sending' /\ (hosting' = Nothing \/ hosting' \in Letters)
  BY <1>3 DEF Sending, Proper
<1>4. ASSUME NEW t \in Tasks, SubmitToHost(t) PROVE Sending' /\ (hosting' = Nothing \/ hosting' \in Letters)
  <2>1. PICK h \in Hosts : h = last' /\ Alone(h)
    BY <1>4, SubmitWhole
  <2>2. PICK m : m = Message(h, "run", t)
    OBVIOUS
  <2>3. m \in Letters /\ m.to = h /\ m.kind = "run" /\ m.task = t
    BY <2>2 DEF Message, Letters
  <2>4. /\ mix[t] = "host" /\ state[t] = "free" /\ UNCHANGED mix
        /\ state'[t] = "given" /\ at'[t] = h /\ phase'[t] = "sent" /\ hosting' = m
    BY <1>0, <1>4, <2>1, <2>2 DEF SubmitToHost, Fits, Give
  <2>5. h <= last'
    BY <1>0, <1>1, <2>1
  <2>6. Proper(m)'
    BY <2>3, <2>4, <2>5 DEF Proper
  <2>7. m \notin SetOf(host'[h].inbox)
    <3> SUFFICES ASSUME m \in SetOf(host'[h].inbox) PROVE FALSE
      OBVIOUS
    <3>1. Mail(h)
      BY HostIs
    <3>2. \/ host'[h].inbox = host[h].inbox
          \/ host'[h].inbox = <<>>
      <4>1. PICK b : b = IF NeedsHost THEN Born ELSE host[h]
        OBVIOUS
      <4>2. host' = [host EXCEPT ![h] = Taking(b, t)]
        <5>1. host' = [host EXCEPT ![last'] = Taking(IF NeedsHost THEN Born ELSE host[last'], t)]
          BY <1>4 DEF SubmitToHost
        <5> QED BY <2>1, <4>1, <5>1
      <4>3. host'[h] = Taking(b, t)
        BY <1>0, <4>2
      <4>4. host'[h].inbox = b.inbox
        BY <1>0, <4>1, <4>3 DEF Taking, Born, Unborn, HostType
      <4> QED BY <4>1, <4>4 DEF Born, Unborn
    <3>3. m \in SetOf(host[h].inbox)
      BY <3>2, EmptySet
    <3>4. Proper(m)
      BY <3>1, <3>3 DEF Mail
    <3> QED BY <2>3, <2>4, <3>4 DEF Proper
  <2> QED BY <1>3, <2>3, <2>4, <2>6, <2>7
<1>5. ASSUME NEW t \in Tasks, Cancel(t), hosting' # hosting PROVE Sending' /\ (hosting' = Nothing \/ hosting' \in Letters)
  <2>1. /\ mix[t] = "host" /\ state[t] # "free" /\ t \notin canceled /\ canceled' = canceled \cup {t}
        /\ hosting' = Nothing \/ hosting' = Message(at[t], "cancel", t)
        /\ UNCHANGED <<mix, state, at, host, last>>
    BY <1>5 DEF Cancel
  <2>2. CASE hosting' = Message(at[t], "cancel", t)
    <3>1. PICK h \in Hosts : h = at[t] /\ h <= last
      <4>1. at[t] \in 1 .. last
        BY <1>0, <2>1 DEF Started
      <4>2. at[t] \in 1 .. Cardinality(Tasks) /\ at[t] <= last
        <5>1. last <= Cardinality(Tasks)
          BY Known
        <5> QED BY <1>0, <4>1, <5>1
      <4> QED BY <1>0, <4>2
    <3>2. PICK m : m = Message(h, "cancel", t)
      OBVIOUS
    <3>3. m \in Letters /\ m.to = h /\ m.kind = "cancel" /\ m.task = t
      BY <3>2 DEF Message, Letters
    <3>4. Proper(m)'
      BY <2>1, <3>1, <3>3 DEF Proper
    <3>5. m \notin SetOf(host'[h].inbox)
      <4>1. Mail(h)
        BY HostIs
      <4>2. \A l \in SetOf(host[h].inbox) : l.kind = "cancel" => l.task \in canceled
        BY <4>1 DEF Mail, Proper
      <4> QED BY <2>1, <3>3, <4>2
    <3> QED BY <1>3, <2>2, <3>1, <3>2, <3>3, <3>4, <3>5
  <2> QED BY <1>2, <2>1, <2>2
<1>6. ASSUME NEW h \in Hosts, Idle(h), hosting' # Nothing PROVE Sending' /\ (hosting' = Nothing \/ hosting' \in Letters)
  <2>1. /\ Leaves(h) /\ hosting' = Message(h, "stop", 0) /\ host[h].reader = "idle" /\ UNCHANGED last
        /\ host' = [host EXCEPT ![h].reader = "poll", ![h].over = host[h].over \/ Leaves(h)]
    BY <1>6 DEF Idle
  <2>2. host[h].pending = {} /\ ~host[h].over /\ host[h].lost = {} /\ h <= last
    <3>1. Gone(h) /\ h \in Nat
      BY HostIs
    <3> QED BY <1>0, <2>1, <3>1 DEF Leaves, Gone, Unborn
  <2>3. PICK x : x = host'[h] /\ x.over /\ x.pending = {} /\ x.lost = {} /\ x.inbox = host[h].inbox
    <3>1. host' = [host EXCEPT ![h] = [host[h] EXCEPT !.reader = "poll", !.over = host[h].over \/ Leaves(h)]]
      BY <1>0, <2>1
    <3>2. host'[h] = [host[h] EXCEPT !.reader = "poll", !.over = host[h].over \/ Leaves(h)]
      BY <1>0, <3>1
    <3>3. host'[h].over = (host[h].over \/ Leaves(h))
      BY <1>0, <3>2 DEF HostType
    <3> QED BY <1>0, <2>1, <2>2, <3>2, <3>3 DEF HostType
  <2>4. PICK m : m = Message(h, "stop", 0)
    OBVIOUS
  <2>5. m \in Letters /\ m.to = h /\ m.kind = "stop"
    BY <2>4 DEF Message, Letters
  <2>6. Proper(m)'
    BY <2>1, <2>2, <2>3, <2>5 DEF Proper
  <2>7. m \notin SetOf(host'[h].inbox)
    <3>1. Mail(h)
      BY HostIs
    <3>2. \A l \in SetOf(host[h].inbox) : l.to = h /\ (l.kind = "stop" => host[h].over)
      BY <3>1 DEF Mail, Proper
    <3> QED BY <2>2, <2>3, <2>5, <3>2
  <2> QED BY <1>3, <2>1, <2>4, <2>5, <2>6, <2>7
\* The letter that waits for room.
<1>7. ASSUME hosting' = hosting, hosting # Nothing PROVE Sending' /\ (hosting' = Nothing \/ hosting' \in Letters)
  <2>1. PICK m \in Letters : m = hosting
    BY <1>0, <1>7
  <2>2. PICK h \in Hosts : h = m.to
    BY <2>1 DEF Letters
  <2>3. Proper(m) /\ m \notin SetOf(host[h].inbox)
    BY <1>0, <1>7, <2>1, <2>2 DEF Sending
  <2>4. ASSUME HostRuns(h), m.kind = "run" PROVE Heard(h) # m.task
    <3>1. PICK l \in Letters : /\ l = Head(host[h].inbox) /\ l.to = h /\ l.kind = "run" /\ Heard(h) = l.task
                               /\ l \in SetOf(host[h].inbox)
      BY <2>4, LetterIs DEF HostRuns, Heard
    <3>2. l.task = m.task => l = m
      BY <2>2, <2>4, <3>1 DEF Letters
    <3> QED BY <2>3, <3>1, <3>2
  <2>5. m.kind = "run" => phase'[m.task] = "sent"
    <3> SUFFICES ASSUME m.kind = "run" PROVE phase'[m.task] = "sent"
      OBVIOUS
    <3>1. PICK t \in Tasks : t = m.task /\ mix[t] = "host" /\ at[t] = h /\ phase[t] = "sent"
      BY <2>2, <2>3 DEF Proper
    <3>2. ASSUME NEW g \in Hosts, HostRuns(g), Heard(g) = t PROVE FALSE
      <4>1. at[t] = g
        BY <3>2, LetterIs DEF HostRuns
      <4> QED BY <2>4, <3>1, <3>2, <4>1
    <3> QED BY <3>1, <3>2, PhaseMoves
  <2>6. HostMoves(h)
    BY HostsMove
  <2>7. m.kind = "stop" => host'[h].over /\ host'[h].pending = {} /\ host'[h].lost = {}
    BY <2>2, <2>3, <2>6 DEF Proper, HostMoves
  <2>8. Proper(m)'
    BY <2>2, <2>3, <2>5, <2>7, LetterStays
  <2>9. m \notin SetOf(host'[h].inbox)
    BY <1>7, <2>3, <2>6 DEF HostMoves, Sent
  <2> QED BY <1>3, <1>7, <2>1, <2>2, <2>8, <2>9
<1>8. CASE hosting' = hosting
  BY <1>2, <1>7, <1>8
<1>9. CASE Sent
  BY <1>2, <1>9 DEF Sent
<1>10. CASE \E h \in Hosts : Idle(h)
  BY <1>2, <1>6, <1>10
<1>11. CASE \E t \in Tasks : SubmitToHost(t) \/ Cancel(t)
  BY <1>4, <1>5, <1>8, <1>11
<1> QED BY <1>8, <1>9, <1>10, <1>11 DEF Next, SubmitToPool, SubmitToThread, SubmitToRay, Queue, Shutdown, Receives, GivesBack,
            PoolEnds, ThreadEnds, Finished, Goes, RayGoes, Reader, Kill, PoolDies, PoolBreaks, FreeCard,
            PoolBegins, TakesUp, StopNext, RayEnds, RayDies, Begins, Answers, KillRay,
            Ends, Over, Main, HostRuns, HostCancels, HostStops, MainAnswers, Waits, HostDies, OfHost, OfPool

-----------------------------------------------------------------------------
(* The invariant *)

\* Every host stays well, and what is being sent stays right.
LEMMA HostsStay ==
  Sound /\ Next => HostsFine' /\ host' \in [Hosts -> HostType] /\ (hosting' = Nothing \/ hosting' \in Letters)
<1> SUFFICES ASSUME Sound, Next PROVE HostsFine' /\ host' \in [Hosts -> HostType] /\ (hosting' = Nothing \/ hosting' \in Letters)
  OBVIOUS
<1>1. \A h \in Hosts : Mail(h)' /\ News(h)' /\ Holds(h)' /\ Gone(h)'
  BY AllWhole DEF Whole
<1> QED BY <1>1, AllWhole, SendingStays DEF HostsFine, Hosts

\* The types are kept.
LEMMA TypedStays == Sound /\ Next => Typed'
<1> SUFFICES ASSUME Sound, Next PROVE Typed'
  OBVIOUS
<1>0. /\ TypeOK /\ mix \in [Tasks -> {"host", "pool", "thread", "ray", "none"}]
      /\ state \in [Tasks -> {"free", "given", "done", "over"}]
      /\ how \in [Tasks -> {"none", "DONE", "ERROR", "LOST", "CANCELED"}]
      /\ at \in [Tasks -> Nat] /\ phase \in [Tasks -> {"none", "sent", "queued", "begun", "ended"}]
      /\ slot \in [Tasks -> 0 .. Slots] /\ Slots \in Nat
      /\ raw \in [Tasks -> {"none", "value", "raised", "lost", "canceled"}]
      /\ killed \subseteq Tasks /\ killing \subseteq Tasks /\ pool \in [n : Nat, is : {"up", "dying", "broken"}]
  BY Known DEF Typed
<1>1. mix' \in Mixes /\ canceled' \subseteq Tasks /\ shut' \in BOOLEAN
  BY <1>0, Lasting DEF TypeOK
<1>2. /\ last' \in 0 .. Cardinality(Tasks) /\ pool'.is \in {"up", "dying", "broken"} /\ pool' \in [n : Nat, is : {"up", "dying", "broken"}]
      /\ held' \in [1 .. Cards -> Nat] /\ card' \in [Tasks -> 0 .. Cards]
      /\ host' \in [Hosts -> HostType] /\ (hosting' = Nothing \/ hosting' \in Letters)
  <2>1. pool' \in [n : Nat, is : {"up", "dying", "broken"}]
    BY PoolsStay
  <2> QED BY <2>1, StartedStays, CardsStay, HostsStay
<1>3. ASSUME NEW h \in Hosts
      PROVE  /\ host'[h].pending \cup host'[h].lost \subseteq Tasks
             /\ host'[h].reader \in {"poll", "idle", "end", "lost", "gone"}
             /\ Len(host'[h].inbox) <= Room /\ Len(host'[h].back) <= Room
  <2>1. host'[h] \in HostType
    BY <1>2
  <2>2. Whole(h)'
    BY AllWhole
  <2> QED BY <2>1, <2>2 DEF Whole, HostType
<1> DEFINE States == state' \in [Tasks -> {"free", "given", "done", "over"}] /\ how' \in [Tasks -> {"none", "DONE", "ERROR", "LOST", "CANCELED"}]
           Slot == slot' \in [Tasks -> 0 .. Slots]
           Phases == phase' \in [Tasks -> {"none", "sent", "queued", "begun", "ended"}]
           Ats == at' \in [Tasks -> Nat]
           Rays == raw' \in [Tasks -> {"none", "value", "raised", "lost", "canceled"}] /\ killed' \subseteq Tasks /\ killing' \subseteq Tasks
<1>4. ASSUME NEW t \in Tasks, NEW what \in {"DONE", "ERROR", "LOST", "CANCELED"}, Say(t, what) PROVE States /\ Slot
  BY <1>4, SaysIt DEF HearsOf
<1>5. ASSUME UNCHANGED <<state, how, slot>> PROVE States /\ Slot
  BY <1>0, <1>5
<1>6. ASSUME UNCHANGED <<at, raw, killed, killing>> PROVE Ats /\ Rays
  BY <1>0, <1>6
<1>7. ASSUME NEW t, NEW p \in {"none", "sent", "queued", "begun", "ended"}, phase' = [phase EXCEPT ![t] = p] PROVE Phases
  BY <1>0, <1>7
<1>8. ASSUME UNCHANGED phase PROVE Phases
  BY <1>0, <1>8
<1> HIDE DEF States, Slot, Phases, Ats, Rays
<1>21. States /\ Slot /\ Phases /\ Ats /\ Rays
  <2>9. CASE \E t \in Tasks : Submits(t)
    <3>1. PICK t \in Tasks : Submits(t)
      BY <2>9
    <3>2. /\ state' = [state EXCEPT ![t] = "given"] /\ UNCHANGED <<how, raw, killed, killing>>
          /\ \/ phase' = [phase EXCEPT ![t] = "sent"]
             \/ phase' = [phase EXCEPT ![t] = "queued"]
          /\ UNCHANGED slot \/ TakeSlot(t)
      BY <3>1 DEF Submits, SubmitToHost, SubmitToPool, SubmitToThread, SubmitToRay, Queue, Give, ofRay
    <3>3. States
      BY <1>0, <3>2 DEF States
    <3>4. Phases
      BY <1>7, <3>2
    <3>5. Rays
      BY <1>0, <3>2 DEF Rays
    <3>6. Ats
      <4>1. PICK n : n \in Nat /\ at' = [at EXCEPT ![t] = n]
        <5>1. last' \in Nat /\ pool'.n \in Nat
          <6>1. Cardinality(Tasks) \in Nat
            BY Known
          <6> QED BY <1>2, <6>1
        <5> QED BY <3>1, <5>1 DEF Submits, SubmitToHost, SubmitToPool, SubmitToThread, SubmitToRay, Queue, Give
      <4> QED BY <1>0, <4>1 DEF Ats
    <3>7. Slot
      <4>1. CASE UNCHANGED slot
        BY <1>0, <4>1 DEF Slot
      <4>2. CASE TakeSlot(t)
        <5>1. PICK n : n \in 0 .. Slots /\ slot' = [slot EXCEPT ![t] = n]
          <6>1. CASE FreeSlots = {}
            <7>1. 0 \in 0 .. Slots
              BY <1>0
            <7> QED BY <4>2, <6>1, <7>1 DEF TakeSlot
          <6>2. CASE FreeSlots # {}
            <7>1. FreeSlots \in SUBSET Nat
              BY <1>0 DEF FreeSlots
            <7>2. PICK n \in FreeSlots : \A m \in FreeSlots : n <= m
              BY <6>2, <7>1, LeastNumber
            <7>3. Min(FreeSlots) \in FreeSlots
              BY <7>2 DEF Min
            <7>4. Min(FreeSlots) \in 0 .. Slots
              BY <1>0, <7>3 DEF FreeSlots
            <7> QED BY <4>2, <6>2, <7>4 DEF TakeSlot
          <6> QED BY <6>1, <6>2
        <5> QED BY <1>0, <5>1 DEF Slot
      <4> QED BY <3>2, <4>1, <4>2
    <3> QED BY <3>3, <3>4, <3>5, <3>6, <3>7
  <2>10. CASE \E t \in Tasks : Cancel(t)
    BY <1>4, <1>5, <1>6, <1>7, <1>8, <2>10 DEF Cancel, ofRay
  <2>11. CASE Shutdown
    <3>1. /\ state' = [t \in Tasks |-> IF t \in LetGo THEN "over" ELSE state[t]]
          /\ how' = [t \in Tasks |-> IF t \in LetGo THEN "CANCELED" ELSE how[t]]
          /\ phase' = [t \in Tasks |-> IF t \in LetGo THEN "ended" ELSE phase[t]]
          /\ UNCHANGED <<at, slot, raw, killed, killing>>
      BY <2>11 DEF Shutdown, Outcome, ofRay
    <3> QED BY <1>0, <1>6, <3>1 DEF States, Slot, Phases
  <2>12. CASE \E h \in Hosts : Receives(h)
    <3>1. PICK h \in Hosts : Receives(h)
      BY <2>12
    <3>2. host[h].back # <<>> /\ Say(Head(host[h].back)[1], Head(host[h].back)[2]) /\ UNCHANGED <<at, phase, raw, killed, killing>>
      BY <3>1 DEF Receives, ofRay
    <3>3. PICK t \in Tasks, what \in {"DONE", "ERROR", "CANCELED"} : t = Head(host[h].back)[1] /\ what = Head(host[h].back)[2]
      BY <3>2, FirstAnswer
    <3> QED BY <1>4, <1>6, <1>8, <3>2, <3>3
  <2>13. CASE \E h \in Hosts : \E t \in Tasks : GivesBack(h, t)
    BY <1>4, <1>6, <1>8, <2>13 DEF GivesBack, ofRay
  <2>14. CASE \E t \in Tasks : PoolEnds(t) \/ ThreadEnds(t)
    <3>1. PICK t \in Tasks : PoolEnds(t) \/ ThreadEnds(t)
      BY <2>14
    <3>2. PICK what \in {"DONE", "ERROR", "LOST", "CANCELED"} : Say(t, what)
      BY <3>1 DEF PoolEnds, ThreadEnds, Outcome
    <3>3. phase' = [phase EXCEPT ![t] = "ended"] /\ UNCHANGED <<at, raw, killed, killing>>
      BY <3>1 DEF PoolEnds, ThreadEnds, OfPool, ofRay
    <3> QED BY <1>4, <1>6, <1>7, <3>2, <3>3
  <2>15. CASE \E t \in Tasks : Finished(t)
    <3>1. PICK t \in Tasks : Finished(t)
      BY <2>15
    <3>2. raw[t] \in {"value", "raised", "lost", "canceled"}
      BY <1>0, <3>1 DEF Finished
    <3>3. PICK what \in {"DONE", "ERROR", "LOST", "CANCELED"} : Say(t, what)
      BY <3>1, <3>2 DEF Finished, Outcome
    <3>4. UNCHANGED <<phase, at, raw, killing>> /\ killed' = killed \ {t}
      BY <3>1 DEF Finished
    <3>5. Ats /\ Rays
      BY <1>0, <3>4 DEF Ats, Rays
    <3> QED BY <1>4, <1>8, <3>3, <3>4, <3>5
  <2>16. CASE \E t \in Tasks : PoolBegins(t) \/ TakesUp(t) \/ \E h \in Hosts : Begins(h, t) \/ Answers(h, t)
    BY <1>5, <1>6, <1>7, <2>16 DEF PoolBegins, TakesUp, Begins, Answers, OfPool, OfHost, engine, ofRay
  <2>17. CASE \E t \in Tasks : RayEnds(t) \/ RayDies(t)
    <3>1. PICK t \in Tasks : RayEnds(t) \/ RayDies(t)
      BY <2>17
    <3>2. /\ phase' = [phase EXCEPT ![t] = "ended"] /\ UNCHANGED <<state, how, slot, at, killed, killing>>
          /\ \E is \in {"value", "raised", "lost", "canceled"} : raw' = [raw EXCEPT ![t] = is]
      BY <3>1 DEF RayEnds, RayDies, engine
    <3>3. Rays /\ Ats
      BY <1>0, <3>2 DEF Rays, Ats
    <3> QED BY <1>5, <1>7, <3>2, <3>3
  <2>18. CASE KillRay \/ \E t \in Tasks : StopNext(t)
    <3>1. /\ UNCHANGED <<state, how, slot, at, phase, raw>>
          /\ killed' \subseteq Tasks /\ killing' \subseteq Tasks
      BY <1>0, <2>18 DEF KillRay, StopNext, Marked, GivenTo, engine
    <3>2. Rays /\ Ats
      BY <1>0, <3>1 DEF Rays, Ats
    <3> QED BY <1>5, <1>8, <3>1, <3>2
  <2>19. CASE \E h \in Hosts : HostRuns(h) \/ HostCancels(h)
    <3>1. PICK h \in Hosts : HostRuns(h) \/ HostCancels(h)
      BY <2>19
    <3>2. UNCHANGED <<state, how, slot, at, raw, killed, killing>>
      BY <3>1 DEF HostRuns, HostCancels, OfHost, engine, ofRay
    <3>3. Phases
      BY <1>7, <1>8, <3>1 DEF HostRuns, HostCancels
    <3> QED BY <1>5, <1>6, <3>2, <3>3
  <2>20. CASE \/ \E t \in Tasks : FreeCard(t)
              \/ Kill \/ Sent \/ PoolDies \/ PoolBreaks
              \/ \E h \in Hosts : Idle(h) \/ Ends(h) \/ Over(h) \/ HostStops(h) \/ MainAnswers(h) \/ Waits(h) \/ HostDies(h)
    <3>1. UNCHANGED <<state, how, slot, at, phase, raw, killed, killing>>
      BY <2>20 DEF FreeCard, Kill, Sent, PoolDies, PoolBreaks, Idle, Ends, Over, HostStops, MainAnswers, Waits, HostDies,
                   engine, ofRay, OfHost, OfPool
    <3> QED BY <1>5, <1>6, <1>8, <3>1
  <2> QED
    BY <2>9, <2>10, <2>11, <2>12, <2>13, <2>14, <2>15, <2>16, <2>17, <2>18, <2>19, <2>20
       DEF Next, Submits, Goes, RayGoes, Reader, Main
<1>22. raw' \in [Tasks -> {"none"} \cup DOMAIN Outcome] /\ late' \cup killed' \cup killing' \subseteq Tasks
  <2>1. {"none"} \cup DOMAIN Outcome = {"none", "value", "raised", "lost", "canceled"}
    BY DEF Outcome
  <2> QED BY <1>21, <2>1, CardsStay DEF Rays
<1>23. TypeOK'
  <2>1. Hosts' = Hosts
    BY DEF Hosts
  <2> QED BY <1>1, <1>2, <1>3, <1>21, <1>22 DEF TypeOK, States, Slot, Phases, Ats
<1> QED BY <1>2, <1>23 DEF Typed

\* At the start nothing is given, and no host has been started.
LEMMA SoundInit == Init => Sound
<1> SUFFICES ASSUME Init PROVE Sound
  OBVIOUS
<1>1. /\ IsFiniteSet(Tasks) /\ Cardinality(Tasks) \in Nat /\ Cards \in Nat /\ Room \in Nat /\ Slots \in Nat
      /\ Mixes \subseteq [Tasks -> {"host", "pool", "thread", "ray", "none"}]
  BY ProcessesAssumption, FS_CardinalityType DEF ProcessesAssumption
<1>2. /\ mix \in Mixes /\ state = [t \in Tasks |-> "free"] /\ how = [t \in Tasks |-> "none"]
      /\ at = [t \in Tasks |-> 0] /\ phase = [t \in Tasks |-> "none"]
      /\ canceled = {} /\ harmed = {} /\ shut = FALSE
      /\ host = [h \in Hosts |-> Unborn] /\ last = 0 /\ hosting = Nothing /\ pool = [n |-> 1, is |-> "up"]
      /\ held = [c \in 1 .. Cards |-> 0] /\ card = [t \in Tasks |-> 0]
      /\ slot = [t \in Tasks |-> 0] /\ raw = [t \in Tasks |-> "none"] /\ killed = {} /\ killing = {}
  BY DEF Init, RayStarts
<1>3. Unborn \in HostType /\ Unborn.inbox = <<>> /\ Unborn.back = <<>>
  BY DEF Unborn, HostType
<1>4. Len(<<>>) = 0 /\ SetOf(<<>>) = {} /\ Distinct(<<>>)
  BY EmptySet
<1>5. Typed
  <2>1. /\ last \in 0 .. Cardinality(Tasks) /\ held \in [1 .. Cards -> Nat] /\ card \in [Tasks -> 0 .. Cards]
        /\ slot \in [Tasks -> 0 .. Slots] /\ at \in [Tasks -> Nat]
    BY <1>1, <1>2
  <2>2. /\ host \in [Hosts -> HostType] /\ pool \in [n : Nat, is : {"up", "dying", "broken"}]
    BY <1>2, <1>3
  <2>3. \A h \in Hosts : /\ host[h].pending \cup host[h].lost \subseteq Tasks
                         /\ host[h].reader \in {"poll", "idle", "end", "lost", "gone"}
                         /\ Len(host[h].inbox) <= Room /\ Len(host[h].back) <= Room
    BY <1>1, <1>2, <1>3, <1>4 DEF Unborn
  <2>4. raw \in [Tasks -> {"none"} \cup DOMAIN Outcome] /\ late \cup killed \cup killing \subseteq Tasks
    <3>1. late = {}
      BY DEF Init
    <3> QED BY <1>2, <3>1
  <2> QED BY <1>2, <2>1, <2>2, <2>3, <2>4 DEF Typed, TypeOK
<1>6. Given
  BY <1>2 DEF Given
<1>7. Started
  <2>1. {t \in Tasks : state[t] # "free"} = {}
    BY <1>2
  <2>2. Cardinality({t \in Tasks : state[t] # "free"}) = 0
    BY <2>1, FS_EmptySet
  <2> QED BY <1>2, <2>2 DEF Started
<1>8. HostsFine
  <2>1. ASSUME NEW h \in Hosts PROVE Mail(h) /\ News(h) /\ Holds(h) /\ Gone(h)
    <3>1. host[h] = Unborn
      BY <1>2
    <3>2. Mail(h) /\ News(h)
      BY <1>3, <1>4, <3>1 DEF Mail, News, Unborn
    <3>3. Holds(h)
      BY <1>2, <3>1 DEF Holds, Unborn
    <3>4. h > last
      BY <1>1, <1>2 DEF Hosts
    <3>5. ~(h <= last)
      BY <1>1, <1>2 DEF Hosts
    <3> QED BY <3>1, <3>2, <3>3, <3>4, <3>5 DEF Gone, Unborn
  <2> QED BY <1>2, <2>1 DEF HostsFine, Sending
<1>9. PoolsFine
  BY <1>2 DEF PoolsFine
<1>10. RayFine
  BY <1>2 DEF RayFine
<1>11. CardsFine
  <2>1. ASSUME NEW c \in 1 .. Cards PROVE held[c] = Cardinality({t \in Tasks : card[t] = c})
    <3>1. {t \in Tasks : card[t] = c} = {}
      BY <1>1, <1>2
    <3>2. Cardinality({t \in Tasks : card[t] = c}) = 0
      BY <3>1, FS_EmptySet
    <3> QED BY <1>2, <3>2
  <2> QED BY <1>2, <2>1 DEF CardsFine
<1>12. SlotsFine /\ Why
  BY <1>2 DEF SlotsFine, Why
<1> QED BY <1>5, <1>6, <1>7, <1>8, <1>9, <1>10, <1>11, <1>12 DEF Sound

\* Every step keeps the invariant.
LEMMA SoundStep == Sound /\ [Next]_vars => Sound'
<1> SUFFICES ASSUME Sound, [Next]_vars PROVE Sound'
  OBVIOUS
<1>1. CASE Next
  BY <1>1, TypedStays, GivenStays, StartedStays, HostsStay, PoolsStay, RayStays, CardsStay, SlotsStay, WhyStays DEF Sound
<1>2. CASE UNCHANGED vars
  <2>0. UNCHANGED <<mix, state, how, at, canceled, slot, phase, host, last, hosting, pool, held, card, late, raw, killed, killing, harmed, shut>>
    BY <1>2 DEF vars, engine, gpus, ofRay
  <2>1. Typed' /\ Given' /\ Started'
    BY <2>0 DEF Sound, Typed, TypeOK, Given, Started
  <2>2. PoolsFine' /\ RayFine' /\ CardsFine' /\ SlotsFine' /\ Why'
    BY <2>0 DEF Sound, PoolsFine, RayFine, CardsFine, SlotsFine, Why, HomeOf
  <2>3. HostsFine'
    BY <2>0 DEF Sound, HostsFine, Sending, Mail, News, Holds, Gone, Owed, Proper
  <2> QED BY <2>1, <2>2, <2>3 DEF Sound
<1> QED BY <1>1, <1>2

-----------------------------------------------------------------------------
(* What the executors promise *)

\* A task comes back lost only where its process, its pool or its worker came to harm, and
\* canceled only where that was asked for: `_Host._read` and `_killed`.
THEOREM LostByHarmHolds == Spec => []LostByHarm
<1>1. Sound => LostByHarm
  BY DEF Sound, Typed, Why, LostByHarm
<1> QED BY <1>1, SoundInit, SoundStep, PTL DEF Spec

\* Of two tasks on one card, one was submitted between the two callbacks of a third; and no two tell
\* how far they are in one slot: `_take_cards` and `_Slots`.
THEOREM HeldByOneHolds == Spec => []HeldByOne
<1>1. Sound => HeldByOne
  <2> SUFFICES ASSUME Sound, NEW s \in Tasks, NEW t \in Tasks, s # t, state[s] = "given", state[t] = "given"
               PROVE  /\ {mix[s], mix[t]} = {"pool"} /\ card[s] = card[t] => s \in late \/ t \in late
                      /\ slot[s] # 0 => slot[s] # slot[t]
    BY DEF HeldByOne
  <2>1. ASSUME {mix[s], mix[t]} = {"pool"}, card[s] = card[t] PROVE s \in late \/ t \in late
    <3>1. mix[s] = "pool"
      BY <2>1
    <3> QED BY <2>1, <3>1 DEF Sound, CardsFine
  <2> QED BY <2>1 DEF Sound, SlotsFine
<1> QED BY <1>1, SoundInit, SoundStep, PTL DEF Spec

\* They are an executor as the engine asks for one: each task is told over once.
THEOREM ContractKept == Spec => KeepsContract
<1>1. Init => Promised!Init
  BY DEF Init, Promised!Init
<1>2. Sound /\ [Next]_vars => [Promised!Next]_Promised!vars
  <2> SUFFICES ASSUME Sound, [Next]_vars PROVE [Promised!Next]_Promised!vars
    OBVIOUS
  <2> DEFINE Has == [t \in Tasks |-> IF state[t] = "free" THEN {} ELSE {t}]
             Told == [t \in Tasks |-> IF state[t] = "done" THEN {t} ELSE {}]
  <2>1. CASE state' = state
    BY <2>1 DEF Promised!vars
  <2>2. ASSUME NEW t \in Tasks, state[t] = "free", state' = [state EXCEPT ![t] = "given"] PROVE Promised!Give(t)
    <3>0. state \in [Tasks -> {"free", "given", "done", "over"}]
      BY Known
    <3>1. Has' = [Has EXCEPT ![t] = {t}]
      BY <2>2, <3>0
    <3>2. Told' = Told
      BY <2>2, <3>0
    <3>3. \E S \in SUBSET Tasks : S # {} /\ Has' = [Has EXCEPT ![t] = S]
      <4> WITNESS {t} \in SUBSET Tasks
      <4> QED BY <3>1
    <3> QED BY <2>2, <3>2, <3>3 DEF Promised!Give
  <2>3. ASSUME state' \in [Tasks -> {"free", "given", "done", "over"}],
               \A t \in Tasks : state'[t] = state[t] \/ (state[t] = "given" /\ state'[t] \in {"done", "over"})
        PROVE  Promised!Tell
    <3>1. Has' = Has
      BY <2>3
    <3>2. Told' \in [Tasks -> SUBSET Tasks]
      OBVIOUS
    <3>3. ASSUME NEW t \in Tasks, state'[t] # state[t] PROVE Promised!News(t, state'[t], Told'[t])
      BY <2>3, <3>3 DEF Promised!News
    <3>4. ASSUME NEW t \in Tasks, state'[t] = state[t] PROVE Told'[t] = Told[t]
      BY <3>4
    <3> QED BY <2>3, <3>1, <3>2, <3>3, <3>4 DEF Promised!Tell
  <2>4. CASE Next
    <3>1. CASE UNCHANGED <<state, how>>
      BY <2>1, <3>1
    <3>2. CASE \E t \in Tasks : Submits(t) /\ state[t] = "free" /\ state' = [state EXCEPT ![t] = "given"] /\ how' = how
      BY <2>2, <3>2 DEF Promised!Next
    <3>3. CASE /\ state' \in [Tasks -> {"free", "given", "done", "over"}]
               /\ \A t \in Tasks : state'[t] = state[t] \/ (state[t] = "given" /\ state'[t] \in {"done", "over"})
      BY <2>3, <3>3 DEF Promised!Next
    <3> QED BY <2>4, <3>1, <3>2, <3>3, StateMoves
  <2>5. CASE UNCHANGED vars
    BY <2>1, <2>5 DEF vars, engine
  <2> QED BY <2>4, <2>5
<1> QED BY <1>1, <1>2, SoundInit, SoundStep, PTL DEF Spec, KeepsContract, Promised!Spec
=============================================================================
