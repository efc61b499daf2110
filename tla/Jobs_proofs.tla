---------------------------- MODULE Jobs_proofs -----------------------------
(***************************************************************************)
(* Proofs about the jobs of an engine: a job starts only behind the ones   *)
(* it comes after, its end is announced once and it can be asked for until *)
(* then, and nothing of a detached journal goes on.                        *)
(***************************************************************************)
EXTENDS Jobs, FiniteSetTheorems, TLAPS

-----------------------------------------------------------------------------
(* The inductive invariant *)

\* Waits the event that brings the job to the loop?
Arrives(k, j) == k \in DOMAIN events /\ events[k].op = "submit" /\ events[k].job = j

\* Is the call at this depth one about the job?
LooksAt(k, j) == k \in DOMAIN calls /\ calls[k].op = "look" /\ calls[k].job = j
RestOf(k, j)  == k \in DOMAIN calls /\ calls[k].op = "rest" /\ calls[k].job = j
StopOf(k, j)  == k \in DOMAIN calls /\ calls[k].op = "stop" /\ calls[k].job = j

\* What waits at this place for the delivery thread.
FinishOf(k, j)   == k \in DOMAIN deliveries /\ deliveries[k].op = "finish" /\ deliveries[k].job = j
AnnounceOf(k, j) == k \in DOMAIN deliveries /\ deliveries[k].op = "announce" /\ deliveries[k].job = j

\* Waits the delivery thread for the loop to note what it knows of the job?
Notes(j) == at.op = "noting" /\ at.job = j

\* What is about a job names one, and an end it is to come to is one.
ItemsNameJobs ==
  /\ \A k \in DOMAIN events :
       /\ events[k].op \in {"submit", "stop", "finished"} => events[k].job \in Jobs
       /\ events[k].op = "stop" => events[k].s \in Badly
       /\ events[k].op = "finished" => events[k].s \in {"ok", "raised"}
  /\ \A k \in DOMAIN calls :
       /\ calls[k].op # "tell" => calls[k].job \in Jobs
       /\ calls[k].op = "stop" => calls[k].s \in Badly
  /\ \A k \in DOMAIN deliveries :
       deliveries[k].op \in {"finish", "announce"} => deliveries[k].job \in Jobs
  /\ at.op \in {"noting", "letting"} => at.job \in Jobs

\* What the status of a job says of where it is.
Places ==
  /\ IsFiniteSet(waiting) /\ IsFiniteSet(active)
  /\ \A j \in waiting : (status[j] = "waiting" \/ (j \in early /\ status[j] \in Badly)) /\ j \notin started
  /\ \A j \in active : status[j] = "running"
  /\ \A j \in started : status[j] \notin {"new", "waiting"} /\ (status[j] = "running" => j \in active)
  /\ \A j \in Jobs : status[j] = "completed" => j \in started
  /\ \A j \in jobs : status[j] # "new"
  /\ finishing \subseteq started
  /\ \A j \in early : status[j] \notin {"new", "waiting", "completed"} /\ j \notin finishing

\* What a job is when it is registered.
AsRegistered(j) == IF after[j] = {} THEN "running" ELSE "waiting"

\* A job the loop has yet to hear of is as it was registered, or ended early.
Fresh ==
  \A j \in Jobs : Unheard(j) /\ status[j] # "new" =>
    /\ status[j] = AsRegistered(j) \/ (j \in early /\ status[j] \in Badly)
    /\ j \notin started /\ j \notin waiting

\* The loop is told of the jobs one by one, in the order of their ids, ...
Line ==
  /\ \A j \in queued : status[j] # "new"
  /\ \A j \in Jobs : status[j] # "new" /\ j \notin submitting => j \in queued
  /\ \A i, j \in Jobs : i < j /\ (status[j] # "new" \/ j \in submitting) => i \in queued

\* ... and hears of them so.
Arrivals ==
  /\ Fresh /\ Line
  /\ \A j \in Jobs, k \in Nat : Arrives(k, j) => j \in queued
  /\ \A j \in Jobs, k, m \in Nat : Arrives(k, j) /\ Arrives(m, j) => k = m
  /\ \A i, j \in Jobs, k, m \in Nat : Arrives(k, i) /\ Arrives(m, j) /\ i < j => k < m
  /\ \A k \in DOMAIN events : events[k].op = "stop" => status[events[k].job] # "new"
  /\ \A i, j \in Jobs : i < j /\ Unheard(i) => Unheard(j)

\* Did one of the jobs before it end badly, and not to come back?
GoneBadly(j) == \E d \in after[j] : status[d] \in Badly /\ d \notin waiting /\ ~Unheard(d)

\* The calls the loop has left to do: the job one of them looks at waits, unless one before
\* it ended badly, also when two of them look at the same job; and none of them is left to do
\* when a list of jobs to stop is gone through.
Frames ==
  /\ \A k \in DOMAIN calls : calls[k].op # "tell" => status[calls[k].job] # "new"
  /\ \A j \in Jobs, k \in Nat : LooksAt(k, j) => ~Unheard(j) /\ (j \in waiting \/ GoneBadly(j))
  /\ \A j \in Jobs, k, m \in Nat : LooksAt(k, j) /\ LooksAt(m, j) /\ k # m => GoneBadly(j)
  /\ \A k, m \in DOMAIN calls : k < m /\ calls[k].op \in {"stop", "tell"} => calls[m].op # "look"

\* Whatever started did so behind the jobs it comes after.
Behind == \A j \in started : AllEndedWell(j)

\* An `on_finish` runs once, and a job that has one completes only when it did not raise.
Callbacks ==
  /\ \A j \in Jobs, k \in Nat : FinishOf(k, j) => j \in finishing /\ ran[j] = "no"
  /\ \A j \in Jobs, k, m \in Nat : FinishOf(k, j) /\ FinishOf(m, j) => k = m
  /\ \A k \in DOMAIN events : events[k].op = "finished" =>
       events[k].job \in finishing /\ ran[events[k].job] = events[k].s
  /\ \A j \in Jobs : j \notin finishing => ran[j] = "no"
  /\ \A j \in HasFinish : status[j] = "completed" => ran[j] = "ok"

\* What the flow noted of the tables, and what it made of that.
TablesNoted ==
  /\ \A j \in Jobs : status[j] # "new" \/ j \in submitting =>
       \A i \in Jobs : i < j /\ Writes[i] \cap asked[j].reads # {} => i \in after[j] \/ announced[i] > 0
  /\ \A i \in Jobs : status[i] # "new" /\ i \notin submitting => i \in writing \/ announced[i] > 0
  /\ \A i, j \in submitting : i = j
  /\ \A j \in Jobs : status[j] = "new" /\ j \notin submitting => after[j] = {}
  /\ \A i \in writing : status[i] # "new"
  /\ \A j \in Jobs : \A d \in after[j] : d < j

\* What has to hold for a job to start only behind the ones it comes after.
Order ==
  /\ TypeOK /\ ItemsNameJobs /\ Places /\ Arrivals /\ Frames /\ Behind /\ Callbacks /\ TablesNoted

\* The end of a job is on its way from the moment it has one, and it is known until then.
Ends ==
  /\ \A j \in Jobs \ early, k \in Nat : RestOf(k, j) \/ AnnounceOf(k, j) => status[j] \in Ended
  /\ at.op = "noting" /\ at.job \notin early => status[at.job] \in Ended
  /\ at.op = "letting" => announced[at.job] > 0
  /\ \A j \in Jobs : announced[j] > 0 =>
       /\ j \in early \/ status[j] \in Ended
       /\ status[j] # "new" /\ (j \in ToSet(ended) \/ Len(ended) = Remembered)
  /\ \A j \in Jobs : status[j] # "new" => j \in jobs \/ announced[j] > 0

\* Of two looks the loop has left to do, the one to come first is at a job that comes after one
\* the other job comes after as well.
Nested ==
  \A i, j \in Jobs, k, m \in Nat :
    LooksAt(k, i) /\ LooksAt(m, j) /\ k < m => \E d \in after[j] : d \in Before(i)

\* Where the end of a plain job is, it is once.
Once ==
  \A j \in Jobs \ early : Plain(j) =>
    /\ \A k \in Nat : LooksAt(k, j) => j \in waiting
    /\ \A k, m \in Nat : LooksAt(k, j) /\ LooksAt(m, j) => k = m
    /\ \A k, m \in Nat : RestOf(k, j) /\ RestOf(m, j) => k = m
    /\ \A k, m \in Nat : AnnounceOf(k, j) /\ AnnounceOf(m, j) => k = m
    /\ \A k, m \in Nat : ~(RestOf(k, j) /\ AnnounceOf(m, j))
    /\ Notes(j) => \A k \in Nat : ~RestOf(k, j) /\ ~AnnounceOf(k, j)
    /\ announced[j] > 0 => ~Notes(j) /\ \A k \in Nat : ~RestOf(k, j) /\ ~AnnounceOf(k, j)
    /\ announced[j] <= 1

\* Nothing of the journal is left that runs or waits, but for what ended early, or whose end is
\* not known.
Quiet ==
  /\ Journaled \cap (active \cup waiting) \subseteq early
  /\ Journaled \cap (started \cup waiting) \subseteq finished

\* The delivery thread is at the job, or will be before it comes to this place of its queue.
OnItsWay(j, k) ==
  \/ at.op \in {"noting", "letting"} /\ at.job = j
  \/ \E m \in Nat : m < k /\ AnnounceOf(m, j)

\* What started runs, or its end is on its way, or known; so is the end of what ended early.
Followed ==
  \A j \in started \cup early :
    j \in (active \ early) \cup finished \/ OnItsWay(j, Len(deliveries) + 1) \/ \E k \in Nat : RestOf(k, j)

Heeded == \A k \in DOMAIN events : events[k].op # "detach"
Untold == ~told /\ \A k \in DOMAIN deliveries : deliveries[k].op # "told"

\* `detach` is heard once, and `told` only behind it.
DetachHeardOnce ==
  /\ \A k, m \in DOMAIN events : events[k].op = "detach" /\ events[m].op = "detach" => k = m
  /\ \A k \in DOMAIN events : events[k].op = "told" => ~attached /\ owner \notin {"idle", "detaching"}

Untelling == \A k \in DOMAIN calls : calls[k].op # "tell"

\* How far `detach` is: the loop has yet to stop the jobs, ...
Asked ==
  /\ owner = "idle" => attached
  /\ attached => Heeded /\ Untold /\ Untelling
  /\ ~Heeded => owner = "detaching" /\ Untold /\ Untelling

\* ... or goes through them, ...
Stopping ==
  /\ ~attached /\ Heeded =>
       \A j \in Journaled \cap (active \cup waiting) : j \in early \/ \E k \in Nat : StopOf(k, j)
  /\ \A k \in DOMAIN calls : calls[k].op = "tell" => k = Len(calls) /\ owner = "detaching" /\ Untold

\* ... or the delivery thread has yet to pass their callbacks, ...
Telling ==
  /\ \A k \in DOMAIN deliveries : deliveries[k].op = "told" =>
       /\ owner = "detaching" /\ ~told
       /\ Journaled \cap (active \cup waiting) \subseteq early
       /\ \A j \in Journaled \cap (started \cup waiting) : j \in finished \/ OnItsWay(j, k)
  /\ \A k, m \in DOMAIN deliveries : deliveries[k].op = "told" /\ deliveries[m].op = "told" => k = m

\* ... or it did.
Detached ==
  /\ owner = "detaching" /\ told => Quiet
  /\ owner \notin {"idle", "detaching"} /\ ~attached => Quiet

Detach == DetachHeardOnce /\ Asked /\ Stopping /\ Telling /\ Detached


-----------------------------------------------------------------------------
(* Queues and stacks *)

\* What is behind the first of a queue moves up by one.
LEMMA TailIs ==
  ASSUME NEW S, NEW s \in Seq(S), s # <<>>
  PROVE  /\ Tail(s) \in Seq(S) /\ Head(s) = s[1] /\ 1 \in DOMAIN s
         /\ Len(Tail(s)) = Len(s) - 1 /\ Len(s) \in Nat /\ Len(s) > 0
         /\ DOMAIN s = 1 .. Len(s) /\ DOMAIN Tail(s) = 1 .. Len(s) - 1
         /\ \A k \in DOMAIN Tail(s) : k + 1 \in DOMAIN s /\ Tail(s)[k] = s[k + 1]
OBVIOUS

\* What is put into a queue is behind all that was in it.
LEMMA AppendIs ==
  ASSUME NEW S, NEW s \in Seq(S), NEW e \in S
  PROVE  /\ Append(s, e) \in Seq(S)
         /\ Len(Append(s, e)) = Len(s) + 1 /\ Len(s) \in Nat
         /\ DOMAIN s = 1 .. Len(s) /\ DOMAIN Append(s, e) = 1 .. Len(s) + 1
         /\ Append(s, e)[Len(s) + 1] = e
         /\ \A k \in DOMAIN Append(s, e) : k # Len(s) + 1 => k \in DOMAIN s /\ Append(s, e)[k] = s[k]
OBVIOUS

\* A list of a finite set has each of its members once.
LEMMA LinesList ==
  ASSUME NEW S, IsFiniteSet(S), NEW line \in SetToSeqs(S)
  PROVE  /\ line \in Seq(S)
         /\ \A a, b \in DOMAIN line : line[a] = line[b] => a = b
         /\ \A x \in S : \E a \in DOMAIN line : line[a] = x
<1> DEFINE D == 1 .. Cardinality(S)
<1>1. Cardinality(S) \in Nat
  BY FS_CardinalityType
<1>2. line \in [D -> S] /\ \A a, b \in D : a # b => line[a] # line[b]
  BY DEF SetToSeqs
<1>3. line \in Seq(S)
  BY <1>1, <1>2
<1>4. IsFiniteSet(D) /\ Cardinality(D) = Cardinality(S)
  BY <1>1, FS_Interval
<1>5. line \in Injection(D, S)
  BY <1>2 DEF Injection, IsInjective
<1>6. line \in Surjection(D, S)
  BY <1>4, <1>5, FS_Injection
<1> QED BY <1>2, <1>3, <1>6 DEF Surjection

\* One sequence behind another one.
LEMMA ConcatIs ==
  ASSUME NEW T, NEW s \in Seq(T), NEW t \in Seq(T)
  PROVE  /\ s \o t \in Seq(T) /\ Len(s) \in Nat /\ Len(t) \in Nat /\ Len(s \o t) = Len(s) + Len(t)
         /\ DOMAIN s = 1 .. Len(s) /\ DOMAIN t = 1 .. Len(t) /\ DOMAIN (s \o t) = 1 .. Len(s) + Len(t)
         /\ \A k \in DOMAIN s : k \in DOMAIN (s \o t) /\ (s \o t)[k] = s[k]
         /\ \A k \in DOMAIN t : k + Len(s) \in DOMAIN (s \o t) /\ (s \o t)[k + Len(s)] = t[k]
         /\ \A k \in DOMAIN (s \o t) :
              \/ k \in DOMAIN s /\ k <= Len(s) /\ (s \o t)[k] = s[k]
              \/ k > Len(s) /\ k - Len(s) \in DOMAIN t /\ (s \o t)[k] = t[k - Len(s)]
OBVIOUS

\* What an item is made of, ...
LEMMA ItemIs ==
  ASSUME NEW op, NEW j, NEW s
  PROVE  Item(op, j, s).op = op /\ Item(op, j, s).job = j /\ Item(op, j, s).s = s
BY DEF Item

\* What an item of a job is.
LEMMA OfJobIs ==
  ASSUME NEW op, NEW j
  PROVE  OfJob(op, j).op = op /\ OfJob(op, j).job = j /\ OfJob(op, j).s = "none"
BY DEF Item, OfJob

\* What an item without a job is.
LEMMA BareIs ==
  ASSUME NEW op
  PROVE  Bare(op).op = op /\ Bare(op).job = NoJob /\ Bare(op).s = "none"
BY DEF Item, Bare

\* ... and where it belongs.
CallItems     == Items({"look", "rest", "stop", "tell"})
EventItems    == Items({"submit", "stop", "finished", "noted", "detach", "told", "close", "end"})
DeliveryItems == Items({"finish", "announce", "told", "end"})
AtItems       == Items({"nothing", "noting", "letting", "gone"})

\* The calls, the events and the deliveries the engine makes are ones.
LEMMA CallsIn ==
  ASSUME NEW j \in Jobs
  PROVE  /\ OfJob("look", j) \in CallItems /\ OfJob("rest", j) \in CallItems
         /\ \A how \in Ended : Item("stop", j, how) \in CallItems
         /\ Item("stop", j, "interrupted") \in CallItems
BY DEF CallItems, Items, OfJob, Item, Ended

\* So are the events about a job, ...
LEMMA EventsIn ==
  ASSUME NEW j \in Jobs
  PROVE  /\ OfJob("submit", j) \in EventItems
         /\ Item("stop", j, "canceled") \in EventItems
         /\ \A how \in {"ok", "raised"} : Item("finished", j, how) \in EventItems
BY DEF EventItems, Items, OfJob, Item, Ended

\* ... the deliveries, ...
LEMMA DeliveriesIn ==
  ASSUME NEW j \in Jobs
  PROVE  /\ OfJob("finish", j) \in DeliveryItems /\ OfJob("announce", j) \in DeliveryItems
         /\ OfJob("noting", j) \in AtItems /\ OfJob("letting", j) \in AtItems
BY DEF DeliveryItems, AtItems, Items, OfJob, Item

\* ... and what is about none.
LEMMA BareIn ==
  /\ Bare("tell") \in CallItems
  /\ \A op \in {"noted", "detach", "told", "close", "end"} : Bare(op) \in EventItems
  /\ Bare("told") \in DeliveryItems /\ Bare("end") \in DeliveryItems
  /\ Nothing \in AtItems /\ Bare("gone") \in AtItems
BY DEF CallItems, EventItems, DeliveryItems, AtItems, Items, Nothing, Bare, Item

\* The queues hold such items.
LEMMA QueuesHold ==
  TypeOK <=> /\ TypeOK
             /\ calls \in Seq(CallItems) /\ events \in Seq(EventItems)
             /\ deliveries \in Seq(DeliveryItems) /\ at \in AtItems
BY DEF TypeOK, CallItems, EventItems, DeliveryItems, AtItems

\* The calls that the end of a job leads to.
LEMMA LooksAndRestIs ==
  ASSUME NEW line \in Seq(Jobs), NEW j \in Jobs
  PROVE  LET n == Len(line) + 1
             c == LooksAndRest(line, j)
         IN  /\ c \in Seq(CallItems) /\ Len(c) = n
             /\ n \in Nat /\ n > 0 /\ DOMAIN line = 1 .. n - 1 /\ DOMAIN c = 1 .. n
             /\ \A k \in DOMAIN line : k \in DOMAIN c /\ c[k] = OfJob("look", line[k])
             /\ c[n] = OfJob("rest", j)
<1> DEFINE n == Len(line) + 1
           looks == LookEach(line)
<1>1. n \in Nat /\ n > 0 /\ DOMAIN line = 1 .. n - 1
  OBVIOUS
<1>2. looks \in Seq(CallItems) /\ Len(looks) = n - 1 /\ \A k \in 1 .. n - 1 : looks[k] = OfJob("look", line[k])
  <2>1. \A k \in 1 .. n - 1 : OfJob("look", line[k]) \in CallItems
    BY <1>1, CallsIn
  <2>2. looks \in [1 .. n - 1 -> CallItems]
    BY <1>1, <2>1 DEF LookEach
  <2> QED BY <1>1, <2>2 DEF LookEach
<1>3. LooksAndRest(line, j) = looks \o <<OfJob("rest", j)>>
  BY DEF LooksAndRest
<1> HIDE DEF looks, n
<1>4. /\ LooksAndRest(line, j) \in Seq(CallItems) /\ Len(LooksAndRest(line, j)) = n
      /\ LooksAndRest(line, j)[n] = OfJob("rest", j)
      /\ \A k \in 1 .. n - 1 : LooksAndRest(line, j)[k] = OfJob("look", line[k])
  BY <1>1, <1>2, <1>3, CallsIn
<1> QED BY <1>1, <1>4 DEF n

-----------------------------------------------------------------------------
(* What the calls of the loop do *)

\* A job that ends is out of the way, and the calls that look at those that come after it, each
\* once, come before the rest of its own end.
LEMMA FinishesDoes ==
  ASSUME TypeOK, Places, NEW j \in Jobs, NEW how \in Ended, NEW later \in Seq(CallItems),
         Finishes(j, how, later)
  PROVE  /\ status' = [status EXCEPT ![j] = how]
         /\ active' = active \ {j} /\ waiting' = waiting \ {j}
         /\ UNCHANGED <<started, finishing>>
         /\ calls' \in Seq(CallItems)
         /\ \E n \in DOMAIN calls' :
              /\ Len(calls') = n + Len(later)
              /\ \A k \in DOMAIN calls' :
                   \/ /\ k < n /\ calls'[k].op = "look"
                      /\ calls'[k].job \in waiting' /\ j \in after[calls'[k].job]
                   \/ k = n /\ calls'[k] = OfJob("rest", j)
                   \/ k > n /\ k - n \in DOMAIN later /\ calls'[k] = later[k - n]
              /\ \A k, m \in DOMAIN calls' : k < n /\ m < n /\ calls'[k].job = calls'[m].job => k = m
<1> DEFINE theirs == DependentsOf(j, waiting')
<1>1. /\ status' = [status EXCEPT ![j] = how]
      /\ active' = active \ {j} /\ waiting' = waiting \ {j}
      /\ UNCHANGED <<started, finishing>>
  BY DEF Finishes
<1>2. theirs \subseteq waiting' /\ theirs \subseteq Jobs /\ \A o \in theirs : j \in after[o]
  BY <1>1 DEF DependentsOf, TypeOK
<1>3. IsFiniteSet(theirs)
  BY <1>1, <1>2, FS_Subset DEF Places
<1>4. PICK line \in InOrder(theirs) : calls' = LooksAndRest(line, j) \o later
  BY DEF Finishes
<1> HIDE DEF theirs
<1>5. line \in SetToSeqs(theirs)
  BY <1>4 DEF InOrder
<1>6. line \in Seq(theirs) /\ \A a, b \in DOMAIN line : line[a] = line[b] => a = b
  BY <1>3, <1>5, LinesList
<1>7. line \in Seq(Jobs)
  BY <1>2, <1>6
<1> DEFINE n == Len(line) + 1
<1>8. /\ calls' \in Seq(CallItems) /\ Len(calls') = n + Len(later)
      /\ n \in Nat /\ n > 0 /\ DOMAIN line = 1 .. n - 1 /\ Len(later) \in Nat
      /\ \A k \in DOMAIN line : k \in DOMAIN calls' /\ calls'[k] = OfJob("look", line[k])
      /\ n \in DOMAIN calls' /\ calls'[n] = OfJob("rest", j)
      /\ \A k \in DOMAIN calls' : k > n => k - n \in DOMAIN later /\ calls'[k] = later[k - n]
  <2> DEFINE both == LooksAndRest(line, j)
             c == both \o later
  <2>1. /\ both \in Seq(CallItems) /\ Len(both) = n
        /\ n \in Nat /\ n > 0 /\ DOMAIN line = 1 .. n - 1 /\ DOMAIN both = 1 .. n
        /\ \A k \in DOMAIN line : k \in DOMAIN both /\ both[k] = OfJob("look", line[k])
        /\ both[n] = OfJob("rest", j)
    BY <1>7, LooksAndRestIs
  <2>2. calls' = c
    BY <1>4
  <2> HIDE DEF both, n
  <2>3. /\ c \in Seq(CallItems) /\ Len(later) \in Nat /\ Len(c) = Len(both) + Len(later)
        /\ \A k \in DOMAIN both : k \in DOMAIN c /\ c[k] = both[k]
        /\ \A k \in DOMAIN c :
             \/ k \in DOMAIN both /\ k <= Len(both) /\ c[k] = both[k]
             \/ k > Len(both) /\ k - Len(both) \in DOMAIN later /\ c[k] = later[k - Len(both)]
    <3>1. both \in Seq(CallItems)
      BY <2>1
    <3> QED BY <3>1, ConcatIs
  <2> HIDE DEF c
  <2>4. n \in DOMAIN both /\ \A k \in DOMAIN both : ~(k > n)
    BY <2>1
  <2> QED BY <2>1, <2>2, <2>3, <2>4
<1> HIDE DEF n
<1>9. \A k \in DOMAIN line : line[k] \in theirs /\ calls'[k].op = "look" /\ calls'[k].job = line[k]
  BY <1>6, <1>8, OfJobIs
<1>10. \A k \in DOMAIN calls' : k \in Nat /\ k > 0 /\ (k < n => k \in DOMAIN line)
  BY <1>8
<1>11. \A k \in DOMAIN calls' :
         \/ /\ k < n /\ calls'[k].op = "look"
            /\ calls'[k].job \in waiting' /\ j \in after[calls'[k].job]
         \/ k = n /\ calls'[k] = OfJob("rest", j)
         \/ k > n /\ k - n \in DOMAIN later /\ calls'[k] = later[k - n]
  BY <1>2, <1>8, <1>9, <1>10
<1>12. \A k, m \in DOMAIN calls' : k < n /\ m < n /\ calls'[k].job = calls'[m].job => k = m
  BY <1>6, <1>9, <1>10
<1> QED BY <1>1, <1>8, <1>11, <1>12

\* The jobs to stop are each to be stopped, before what comes after that.
LEMMA StopAllDoes ==
  ASSUME TypeOK, Places, NEW which \in SUBSET Jobs, NEW last \in Seq(CallItems), StopAll(which, last)
  PROVE  /\ calls' \in Seq(CallItems)
         /\ \E n \in Nat :
              /\ Len(calls') = n + Len(last)
              /\ \A k \in DOMAIN calls' :
                   \/ /\ k <= n /\ calls'[k].op = "stop" /\ calls'[k].s = "interrupted"
                      /\ calls'[k].job \in which \cap (active \cup waiting)
                   \/ k > n /\ k - n \in DOMAIN last /\ calls'[k] = last[k - n]
              /\ \A j \in which \cap (active \cup waiting) :
                   \E k \in DOMAIN calls' : calls'[k].op = "stop" /\ calls'[k].job = j
<1> DEFINE W == waiting \cap which
           A == active \cap which
<1>1. IsFiniteSet(W) /\ IsFiniteSet(A) /\ W \subseteq Jobs /\ A \subseteq Jobs
  BY FS_Subset DEF Places, TypeOK
<1>2. PICK first \in InOrder(W), then \in SetToSeqs(A) : calls' = StopEach(first \o then) \o last
  BY DEF StopAll
<1>3. first \in SetToSeqs(W)
  BY <1>2 DEF InOrder
<1> HIDE DEF W, A
<1>4. /\ first \in Seq(W) /\ \A x \in W : \E a \in DOMAIN first : first[a] = x
      /\ then \in Seq(A) /\ \A x \in A : \E a \in DOMAIN then : then[a] = x
  BY <1>1, <1>2, <1>3, LinesList
<1>5. first \in Seq(Jobs) /\ then \in Seq(Jobs)
  BY <1>1, <1>4
<1> DEFINE line == first \o then
           stops == StopEach(line)
<1>6. /\ line \in Seq(Jobs) /\ Len(line) \in Nat /\ DOMAIN line = 1 .. Len(line)
      /\ \A k \in DOMAIN line : line[k] \in W \cup A
      /\ \A x \in W \cup A : \E k \in DOMAIN line : line[k] = x
  <2>1. /\ line \in Seq(Jobs) /\ Len(line) \in Nat /\ DOMAIN line = 1 .. Len(line)
        /\ \A k \in DOMAIN first : k \in DOMAIN line /\ line[k] = first[k]
        /\ \A k \in DOMAIN then : k + Len(first) \in DOMAIN line /\ line[k + Len(first)] = then[k]
        /\ \A k \in DOMAIN line :
             \/ k \in DOMAIN first /\ line[k] = first[k]
             \/ k - Len(first) \in DOMAIN then /\ line[k] = then[k - Len(first)]
    BY <1>5, ConcatIs
  <2>2. \A k \in DOMAIN first : first[k] \in W
    BY <1>4
  <2>3. \A k \in DOMAIN then : then[k] \in A
    BY <1>4
  <2>4. \A x \in W \cup A : (\E k \in DOMAIN first : first[k] = x) \/ (\E k \in DOMAIN then : then[k] = x)
    BY ONLY <1>4
  <2> HIDE DEF line, stops
  <2>5. \A k \in DOMAIN line : line[k] \in W \cup A
    BY ONLY <2>1, <2>2, <2>3
  <2>6. \A x \in W \cup A : \E k \in DOMAIN line : line[k] = x
    BY ONLY <2>1, <2>4
  <2> QED BY ONLY <2>1, <2>5, <2>6
<1>7. calls' = stops \o last
  BY <1>2
<1> HIDE DEF line
<1>8. /\ stops \in Seq(CallItems) /\ Len(stops) = Len(line)
      /\ \A k \in DOMAIN line :
           k \in DOMAIN stops /\ stops[k].op = "stop" /\ stops[k].s = "interrupted" /\ stops[k].job = line[k]
  <2>1. \A k \in DOMAIN line : Item("stop", line[k], "interrupted") \in CallItems
    BY <1>6, CallsIn
  <2>2. stops = [k \in 1 .. Len(line) |-> Item("stop", line[k], "interrupted")]
    BY <1>6 DEF StopEach
  <2>3. stops \in [1 .. Len(line) -> CallItems]
    BY <1>6, <2>1, <2>2
  <2>4. stops \in Seq(CallItems) /\ Len(stops) = Len(line)
    BY <1>6, <2>3
  <2> QED BY <1>6, <2>2, <2>4, ItemIs
<1> HIDE DEF stops
<1> DEFINE c == stops \o last
<1>9. /\ calls' \in Seq(CallItems) /\ Len(calls') = Len(line) + Len(last)
      /\ \A k \in DOMAIN stops : k \in DOMAIN calls' /\ calls'[k] = stops[k]
      /\ \A k \in DOMAIN calls' :
           \/ k \in DOMAIN line /\ k <= Len(line) /\ calls'[k] = stops[k]
           \/ k > Len(line) /\ k - Len(line) \in DOMAIN last /\ calls'[k] = last[k - Len(line)]
  <2>1. /\ c \in Seq(CallItems) /\ Len(c) = Len(stops) + Len(last) /\ DOMAIN stops = 1 .. Len(stops)
        /\ \A k \in DOMAIN stops : k \in DOMAIN c /\ c[k] = stops[k]
        /\ \A k \in DOMAIN c :
             \/ k \in DOMAIN stops /\ k <= Len(stops) /\ c[k] = stops[k]
             \/ k > Len(stops) /\ k - Len(stops) \in DOMAIN last /\ c[k] = last[k - Len(stops)]
    <3>1. stops \in Seq(CallItems)
      BY <1>8
    <3> QED BY <3>1, ConcatIs
  <2>2. calls' = c
    BY <1>7
  <2> HIDE DEF c
  <2> QED BY <1>6, <1>8, <2>1, <2>2
<1>10. \A k \in DOMAIN calls' :
         \/ /\ k <= Len(line) /\ calls'[k].op = "stop" /\ calls'[k].s = "interrupted"
            /\ calls'[k].job \in which \cap (active \cup waiting)
         \/ k > Len(line) /\ k - Len(line) \in DOMAIN last /\ calls'[k] = last[k - Len(line)]
  BY <1>6, <1>8, <1>9 DEF W, A
<1>11. ASSUME NEW j \in which \cap (active \cup waiting)
       PROVE  \E k \in DOMAIN calls' : calls'[k].op = "stop" /\ calls'[k].job = j
  <2>1. j \in W \cup A
    BY DEF W, A
  <2>2. PICK k \in DOMAIN line : line[k] = j
    BY <1>6, <2>1
  <2>3. k \in DOMAIN calls' /\ calls'[k] = stops[k]
    BY <1>8, <1>9
  <2> QED BY <1>8, <2>2, <2>3
<1> QED BY <1>6, <1>9, <1>10, <1>11

-----------------------------------------------------------------------------
(* The steps of the loop, by what they do to a job *)

\* What no step of the loop that starts or ends a job touches, but for what it ends early.
beside == <<callers, owning, registry, ran, deliveries, at, looping, noted, told>>

\* Nothing is put into the events.
Drains == UNCHANGED events \/ (events # <<>> /\ events' = Tail(events) /\ Head(events).op # "detach")

\* A job ends: it lived, or comes after one that ended badly, or ended early; and `later` is what
\* was left to do.
EndsBy(j, how, later) ==
  /\ Finishes(j, how, later)
  /\ status[j] # "new"
  /\ status[j] \in Alive \/ (OneEndedBadly(j) /\ how = "failed") \/ (j \in early /\ how = "failed")
  /\ how = "completed" => j \in active /\ j \notin early /\ calls = <<>> /\ (j \in HasFinish => ran[j] = "ok")
  /\ \/ /\ calls = <<>> /\ later = <<>> /\ Drains /\ (status[j] \in Alive \/ j \in early)
        /\ ~Unheard(j)' /\ UNCHANGED early
     \/ /\ calls # <<>> /\ later = Tail(calls) /\ UNCHANGED events
        /\ Head(calls).job = j
        /\ \/ Head(calls).op = "look" /\ OneEndedBadly(j) /\ ~Unheard(j)' /\ UNCHANGED early
           \/ /\ Head(calls).op = "stop" /\ status[j] \in Alive
              /\ early' = IF Unheard(j) THEN early \cup {j} ELSE early
  /\ UNCHANGED beside

\* A job starts: the ones it comes after ended well, and it waited, or has just arrived.
StartsBy(j) ==
  /\ Starts(j) /\ AllEndedWell(j)
  /\ j \notin started /\ (status[j] \in Alive \/ (j \in early /\ status[j] \in Badly))
  /\ ~Unheard(j)'
  /\ \/ /\ calls # <<>> /\ calls' = Tail(calls) /\ UNCHANGED events
        /\ Head(calls).op = "look" /\ Head(calls).job = j /\ j \in waiting
     \/ /\ calls = <<>> /\ UNCHANGED calls /\ events # <<>> /\ events' = Tail(events)
        /\ Head(events).op # "detach" /\ ~DetachedBefore(j) /\ Unheard(j)
  /\ UNCHANGED <<beside, early>>

\* A job that has just arrived waits.
WaitsBy(j) ==
  /\ waiting' = waiting \cup {j} /\ calls = <<>> /\ calls' = <<OfJob("look", j)>>
  /\ events # <<>> /\ events' = Tail(events) /\ Head(events).op # "detach" /\ ~DetachedBefore(j)
  /\ j \notin started /\ j \notin active /\ (status[j] = "waiting" \/ (j \in early /\ status[j] \in Badly))
  /\ Unheard(j) /\ ~Unheard(j)'
  /\ UNCHANGED <<status, active, started, finishing, beside, early>>

\* A call that does nothing.
SkipsCall ==
  /\ calls # <<>> /\ calls' = Tail(calls)
  /\ Head(calls).op = "look" \/ (Head(calls).op = "stop" /\ status[Head(calls).job] \notin Alive)
  /\ UNCHANGED <<status, loopState, events, beside, early>>

\* Who the loop has yet to hear of.
LEMMA UnheardIs ==
  ASSUME events \in Seq(EventItems), NEW j
  PROVE  Unheard(j) <=> j \notin queued \/ \E k \in Nat : Arrives(k, j)
BY DEF Unheard, Arrives

\* So after a step.
LEMMA UnheardIsThen ==
  ASSUME events' \in Seq(EventItems), NEW j
  PROVE  Unheard(j)' <=> j \notin queued' \/ \E k \in Nat : Arrives(k, j)'
BY DEF Unheard, Arrives

\* Nothing new is heard while nothing arrives.
LEMMA UnheardStays ==
  ASSUME UNCHANGED <<events, queued>>, NEW j
  PROVE  Unheard(j)' <=> Unheard(j)
BY DEF Unheard

\* The first call left to do, if there is one, is as the invariant has it.
LEMMA FirstCall ==
  ASSUME Order, calls # <<>>
  PROVE  /\ calls \in Seq(CallItems) /\ Tail(calls) \in Seq(CallItems)
         /\ 1 \in DOMAIN calls /\ Head(calls) = calls[1]
         /\ Head(calls).op # "tell" =>
              /\ Head(calls).job \in Jobs
              /\ status[Head(calls).job] # "new"
         /\ Head(calls).op = "look" =>
              /\ ~Unheard(Head(calls).job)
              /\ Head(calls).job \in waiting \/ OneEndedBadly(Head(calls).job)
         /\ Head(calls).op = "stop" => Head(calls).s \in Badly
<1>1. calls \in Seq(CallItems)
  BY QueuesHold DEF Order
<1>2. Tail(calls) \in Seq(CallItems) /\ 1 \in DOMAIN calls /\ Head(calls) = calls[1]
  BY <1>1, TailIs
<1>3. /\ calls[1].op # "tell" => calls[1].job \in Jobs
      /\ calls[1].op = "stop" => calls[1].s \in Badly
  BY <1>2 DEF Order, ItemsNameJobs
<1>4. calls[1].op # "tell" => status[calls[1].job] # "new"
  BY <1>2 DEF Order, Frames
<1>5. calls[1].op = "look" => ~Unheard(calls[1].job) /\ (calls[1].job \in waiting \/ OneEndedBadly(calls[1].job))
  BY <1>2, <1>3 DEF Order, Frames, LooksAt, GoneBadly, OneEndedBadly
<1> QED BY <1>1, <1>2, <1>3, <1>4, <1>5

\* So is the first event.
LEMMA FirstEvent ==
  ASSUME Order, events # <<>>, events' = Tail(events), NEW j, j = Head(events).job
  PROVE  /\ events \in Seq(EventItems) /\ 1 \in DOMAIN events /\ Head(events) = events[1]
         /\ events' \in Seq(EventItems)
         /\ \A k \in DOMAIN events' : k \in Nat /\ k + 1 \in DOMAIN events /\ events'[k] = events[k + 1]
         /\ Head(events).op = "submit" =>
              /\ j \in Jobs
              /\ status[j] = AsRegistered(j) \/ (j \in early /\ status[j] \in Badly)
              /\ j \notin started /\ j \notin waiting
              /\ Unheard(j) /\ j \in queued /\ (UNCHANGED queued => ~Unheard(j)')
         /\ Head(events).op = "finished" =>
              /\ j \in Jobs /\ Head(events).s \in {"ok", "raised"}
              /\ j \in finishing /\ ran[j] = Head(events).s
         /\ Head(events).op = "stop" =>
              /\ j \in Jobs /\ Head(events).s \in Badly
              /\ status[j] # "new"
<1>1. events \in Seq(EventItems)
  BY QueuesHold DEF Order
<1>2. /\ 1 \in DOMAIN events /\ Head(events) = events[1] /\ events' \in Seq(EventItems)
      /\ DOMAIN events' = 1 .. Len(events) - 1 /\ Len(events) \in Nat
      /\ \A k \in DOMAIN events' : k + 1 \in DOMAIN events /\ events'[k] = events[k + 1]
  BY <1>1, TailIs
<1>3. \A k \in DOMAIN events' : k \in Nat /\ k + 1 # 1 /\ ~(k + 1 < 1)
  BY <1>2
<1>4. CASE Head(events).op = "submit"
  <2>1. j \in Jobs /\ Arrives(1, j)
    BY <1>2, <1>4 DEF Order, ItemsNameJobs, Arrives
  <2>2. Unheard(j) /\ j \in queued /\ status[j] # "new"
    BY <1>1, <2>1, UnheardIs DEF Order, Arrivals, Line
  <2>3. /\ status[j] = AsRegistered(j) \/ (j \in early /\ status[j] \in Badly)
        /\ j \notin started /\ j \notin waiting
    BY <2>1, <2>2 DEF Order, Arrivals, Fresh
  <2>4. ASSUME NEW k \in Nat, Arrives(k, j)' PROVE FALSE
    <3>1. k \in DOMAIN events' /\ Arrives(k + 1, j)
      BY <1>2, <2>4 DEF Arrives
    <3>2. k + 1 = 1
      BY <2>1, <3>1 DEF Order, Arrivals
    <3> QED BY <1>3, <3>1, <3>2
  <2>5. UNCHANGED queued => ~Unheard(j)'
    BY <1>2, <2>2, <2>4, UnheardIsThen
  <2> QED BY <1>1, <1>2, <1>3, <1>4, <2>1, <2>2, <2>3, <2>5
<1>5. CASE Head(events).op = "finished"
  BY <1>1, <1>2, <1>3, <1>5 DEF Order, ItemsNameJobs, Callbacks
<1>6. CASE Head(events).op = "stop"
  <2>1. j \in Jobs /\ events[1].s \in Badly /\ status[j] # "new"
    BY <1>2, <1>6 DEF Order, ItemsNameJobs, Arrivals
  <2> QED BY <1>1, <1>2, <1>3, <1>6, <2>1
<1> QED BY <1>1, <1>2, <1>3, <1>4, <1>5, <1>6

\* `_on_dependency_end`.
LEMMA LookDoes ==
  ASSUME Order, Look
  PROVE  \/ \E j \in Jobs, how \in Ended, later \in Seq(CallItems) : EndsBy(j, how, later)
         \/ \E j \in Jobs : StartsBy(j)
         \/ SkipsCall
<1>1. calls # <<>> /\ Head(calls).op = "look" /\ UNCHANGED <<events, beside, early, queued>>
  BY DEF Look, notLoop, beside, callers, owning, registry
<1>2. PICK j \in Jobs : j = Head(calls).job
  BY <1>1, FirstCall
<1>3. /\ status[j] # "new" /\ (j \in waiting \/ OneEndedBadly(j)) /\ Tail(calls) \in Seq(CallItems)
      /\ ~Unheard(j)
  BY <1>1, <1>2, FirstCall
<1>4. ~Unheard(j)'
  BY <1>1, <1>3, UnheardStays
<1>5. CASE OneEndedBadly(j) /\ Finishes(j, "failed", Tail(calls))
  <2>1. EndsBy(j, "failed", Tail(calls))
    BY <1>1, <1>2, <1>3, <1>4, <1>5 DEF EndsBy
  <2>2. "failed" \in Ended
    BY DEF Ended
  <2> QED BY <1>3, <2>1, <2>2
<1>6. CASE AllEndedWell(j) /\ Starts(j) /\ calls' = Tail(calls)
  <2>1. ~OneEndedBadly(j)
    BY <1>6 DEF AllEndedWell, OneEndedBadly, Badly, Ended
  <2>2. j \in waiting /\ (status[j] = "waiting" \/ (j \in early /\ status[j] \in Badly)) /\ j \notin started
    BY <1>3, <2>1 DEF Order, Places
  <2>3. StartsBy(j)
    BY <1>1, <1>2, <1>4, <1>6, <2>2 DEF StartsBy, Alive
  <2> QED BY <2>3
<1>7. CASE calls' = Tail(calls) /\ UNCHANGED <<status, loopState>>
  BY <1>1, <1>7 DEF SkipsCall
<1> QED BY <1>2, <1>5, <1>6, <1>7 DEF Look

\* `_on_stop_job`.
LEMMA StopJobDoes ==
  ASSUME Order, StopJob
  PROVE  \/ \E j \in Jobs, how \in Ended, later \in Seq(CallItems) : EndsBy(j, how, later)
         \/ SkipsCall
<1>1. calls # <<>> /\ Head(calls).op = "stop" /\ UNCHANGED <<events, beside>>
  BY DEF StopJob, notLoop, beside, callers, owning, registry
<1>2. PICK j \in Jobs : j = Head(calls).job
  BY <1>1, FirstCall
<1>3. PICK how \in Badly : how = Head(calls).s
  BY <1>1, FirstCall
<1>4. status[j] # "new" /\ Tail(calls) \in Seq(CallItems)
  BY <1>1, <1>2, FirstCall
<1>6. CASE /\ status[j] \in Alive /\ Finishes(j, how, Tail(calls))
           /\ early' = IF Unheard(j) THEN early \cup {j} ELSE early
  <2>1. how # "completed" /\ how \in Ended
    BY DEF Badly
  <2>2. EndsBy(j, how, Tail(calls))
    BY <1>1, <1>2, <1>4, <1>6, <2>1 DEF EndsBy
  <2> QED BY <1>4, <2>1, <2>2
<1>7. CASE status[j] \notin Alive /\ calls' = Tail(calls) /\ UNCHANGED <<status, loopState, early>>
  BY <1>1, <1>2, <1>7 DEF SkipsCall
<1> QED BY <1>2, <1>3, <1>6, <1>7 DEF StopJob, Stops

\* `_on_submit`.
LEMMA OnSubmitDoes ==
  ASSUME Order, OnSubmit
  PROVE  \/ \E j \in Jobs, how \in Ended, later \in Seq(CallItems) : 
              EndsBy(j, how, later) /\ later = <<>>
         \/ \E j \in Jobs : ~DetachedBefore(j) /\ (StartsBy(j) \/ WaitsBy(j))
<1>1. /\ calls = <<>> /\ events # <<>> /\ events' = Tail(events) /\ Head(events).op = "submit" 
      /\ UNCHANGED <<beside, early, queued>>
  BY DEF OnSubmit, Hears, LoopFree, notLoop, beside, callers, owning, registry
<1>2. PICK j \in Jobs : j = Head(events).job
  BY <1>1, FirstEvent
<1>3. /\ status[j] = AsRegistered(j) \/ (j \in early /\ status[j] \in Badly)
      /\ j \notin started /\ j \notin waiting
      /\ Unheard(j) /\ ~Unheard(j)'
  BY <1>1, <1>2, FirstEvent
<1>4. status[j] \in Alive \/ (j \in early /\ status[j] \in Badly)
  BY <1>3 DEF AsRegistered, Alive
<1>8. status[j] # "new" /\ j \notin active
  BY <1>3, <1>4 DEF Alive, Badly, Ended, Order, TypeOK
<1>5. CASE Finishes(j, "failed", <<>>)
  <2>1. EndsBy(j, "failed", <<>>)
    BY <1>1, <1>3, <1>4, <1>5, <1>8 DEF EndsBy, Drains
  <2>2. "failed" \in Ended /\ <<>> \in Seq(CallItems)
    BY DEF Ended
  <2> QED BY <2>1, <2>2
<1>6. CASE /\ ~DetachedBefore(j) /\ after[j] # {}
           /\ waiting' = waiting \cup {j}
           /\ calls' = <<OfJob("look", j)>>
           /\ UNCHANGED <<status, active, started, finishing>>
  <2>1. status[j] = "waiting" \/ (j \in early /\ status[j] \in Badly)
    BY <1>3, <1>6 DEF AsRegistered
  <2>2. WaitsBy(j)
    BY <1>1, <1>3, <1>6, <1>8, <2>1 DEF WaitsBy
  <2> QED BY <1>6, <2>2
<1>7. CASE ~DetachedBefore(j) /\ after[j] = {} /\ Starts(j) /\ UNCHANGED calls
  <2>1. AllEndedWell(j)
    BY <1>7 DEF AllEndedWell
  <2>2. StartsBy(j)
    BY <1>1, <1>3, <1>4, <1>7, <2>1 DEF StartsBy
  <2> QED BY <1>7, <2>2
<1> QED BY <1>2, <1>5, <1>6, <1>7 DEF OnSubmit

\* `_on_finished`.
LEMMA OnFinishedDoes ==
  ASSUME Order, OnFinished
  PROVE  \/ \E j \in Jobs, how \in Ended, later \in Seq(CallItems) :
              EndsBy(j, how, later) /\ later = <<>>
         \/ /\ calls = <<>> /\ events # <<>> /\ events' = Tail(events) /\ Head(events).op = "finished"
            /\ UNCHANGED <<status, loopState, calls, beside, early>>
<1>1. /\ calls = <<>> /\ events # <<>> /\ events' = Tail(events) /\ Head(events).op = "finished"
      /\ UNCHANGED <<beside, early, queued>>
  BY DEF OnFinished, Hears, LoopFree, notLoop, beside, callers, owning, registry
<1>2. PICK j \in Jobs : j = Head(events).job
  BY <1>1, FirstEvent
<1>3. j \in finishing /\ ran[j] = Head(events).s
  BY <1>1, <1>2, FirstEvent
<1>4. CASE /\ status[j] = "running"
           /\ Finishes(j, IF Head(events).s = "ok" THEN "completed" ELSE "failed", <<>>)
  <2> DEFINE how == IF ran[j] = "ok" THEN "completed" ELSE "failed"
  <2>1. j \in started /\ j \in active /\ j \notin early
    BY <1>3, <1>4 DEF Order, Places
  <2>2. ~Unheard(j)'
    <3>1. /\ ~Unheard(j) /\ events \in Seq(EventItems) /\ events' \in Seq(EventItems)
          /\ \A k \in DOMAIN events' : k \in Nat /\ k + 1 \in DOMAIN events /\ events'[k] = events[k + 1]
      BY <1>1, <1>2, <1>4, <2>1, FirstEvent DEF Order, Arrivals, Fresh
    <3>2. \A k \in Nat : Arrives(k, j)' => Arrives(k + 1, j) /\ k + 1 \in Nat
      BY <3>1 DEF Arrives
    <3> QED BY <1>1, <3>1, <3>2, UnheardIs, UnheardIsThen
  <2>3. Finishes(j, how, <<>>) /\ how \in Ended /\ <<>> \in Seq(CallItems)
    BY <1>3, <1>4 DEF Ended
  <2>4. status[j] # "new" /\ status[j] \in Alive
    BY <1>4 DEF Alive
  <2>5. how = "completed" => (j \in HasFinish => ran[j] = "ok")
    OBVIOUS
  <2> HIDE DEF how
  <2>6. EndsBy(j, how, <<>>)
    BY <1>1, <2>1, <2>2, <2>3, <2>4, <2>5 DEF EndsBy, Drains
  <2> QED BY <2>3, <2>6
<1>5. CASE UNCHANGED <<calls, status, loopState>>
  BY <1>1, <1>5
<1> QED BY <1>2, <1>4, <1>5 DEF OnFinished

\* `_finish_if_over`.
LEMMA JobOverDoes ==
  ASSUME Order, NEW j \in Jobs, JobOver(j)
  PROVE  \/ \E how \in Ended, later \in Seq(CallItems) : EndsBy(j, how, later) /\ later = <<>>
         \/ /\ calls = <<>> /\ j \in HasFinish /\ j \in active \ finishing
            /\ finishing' = finishing \cup {j}
            /\ deliveries' = Append(deliveries, OfJob("finish", j))
            /\ UNCHANGED <<status, waiting, active, started, early, events, calls, callers, owning, registry, ran,
                           at, looping, noted, told>>
            /\ j \notin early
<1>1. /\ calls = <<>> /\ j \in active /\ j \notin finishing
      /\ UNCHANGED <<callers, owning, registry, early, ran, at, events, looping, noted, told, queued>>
  BY DEF JobOver, LoopFree, notLoop, callers
<1>2. status[j] = "running" /\ j \in started
  BY <1>1 DEF Order, TypeOK, Places
<1>3. ~Unheard(j)'
  BY <1>1, <1>2, UnheardStays DEF Order, Arrivals, Fresh
<1>4. ASSUME NEW how \in {"failed", "completed"}, Finishes(j, how, <<>>), UNCHANGED deliveries,
             how = "completed" => j \notin HasFinish /\ j \notin early
      PROVE  \E h \in Ended, later \in Seq(CallItems) : EndsBy(j, h, later) /\ later = <<>>
  <2>1. EndsBy(j, how, <<>>)
    BY <1>1, <1>2, <1>3, <1>4 DEF EndsBy, Drains, Alive, beside, callers, owning, registry
  <2>2. how \in Ended /\ <<>> \in Seq(CallItems)
    BY DEF Ended
  <2> QED BY <2>1, <2>2
<1>5. CASE Finishes(j, "failed", <<>>) /\ UNCHANGED deliveries
  BY <1>4, <1>5
<1>6. CASE j \notin HasFinish \cup early /\ Finishes(j, "completed", <<>>) /\ UNCHANGED deliveries
  BY <1>4, <1>6
<1>7. CASE /\ j \in HasFinish \ early
           /\ finishing' = finishing \cup {j}
           /\ Deliver(OfJob("finish", j))
           /\ UNCHANGED <<calls, status, waiting, active, started>>
  BY <1>1, <1>7 DEF Deliver
<1> QED BY <1>5, <1>6, <1>7 DEF JobOver

-----------------------------------------------------------------------------
(* The other steps, by what they do *)

\* A job got ready: what it has `on_finish` for is on its way.
CallsBack(j) ==
  /\ calls = <<>> /\ j \in HasFinish /\ j \in active \ finishing /\ j \notin early
  /\ finishing' = finishing \cup {j}
  /\ deliveries' = Append(deliveries, OfJob("finish", j))
  /\ UNCHANGED <<status, waiting, active, started, early, events, calls, callers, owning, registry, ran,
                 at, looping, noted, told>>

\* An event that changes nothing but a flag.
Takes ==
  /\ calls = <<>> /\ events # <<>> /\ events' = Tail(events)
  /\ Head(events).op # "detach"
  /\ looping' \in BOOLEAN /\ noted' \in BOOLEAN
  /\ UNCHANGED told \/ (Head(events).op = "told" /\ told' = TRUE)
  /\ UNCHANGED <<status, loopState, early, calls, callers, owning, registry, ran, at, deliveries>>

\* A step of the thread that owns the engine.
Owns ==
  /\ calls = <<>> /\ Owner /\ attached' \in BOOLEAN /\ closed' \in BOOLEAN /\ told' \in BOOLEAN
  /\ owner' \in {"idle", "detaching", "settling", "detached", "closing", "joining", "draining", "closed"}
  /\ \/ UNCHANGED events
     \/ \E op \in {"detach", "told", "close", "end"} :
          events' = Append(events, Bare(op)) /\ (op = "detach" => DetachBegins) /\ (op = "told" => DetachSettles)
  /\ UNCHANGED deliveries \/ deliveries' = Append(deliveries, Bare("end"))
  /\ UNCHANGED ofOthers

\* What a step may be.
Kinds ==
  \/ \E j \in Jobs : calls = <<>> /\ (SubmitBegins(j) \/ Registers(j) \/ Submits(j) \/ Records(j) \/ Cancel(j) \/ CallsBack(j))
  \/ Owns
  \/ \E j \in Jobs, how \in Ended, later \in Seq(CallItems) : EndsBy(j, how, later)
  \/ \E j \in Jobs : StartsBy(j) \/ WaitsBy(j)
  \/ SkipsCall \/ Rest \/ TellDetached
  \/ Takes \/ OnStop \/ OnDetach \/ OnClose
  \/ calls = <<>> /\ Delivery

\* Every step is of one of these kinds.
LEMMA StepIsOfKind ==
  ASSUME Order, Next
  PROVE  Kinds
<1>1. CASE Call
  BY <1>1, LookDoes, StopJobDoes DEF Call, Kinds
<1>2. ASSUME calls = <<>>, NEW j \in Jobs,
             SubmitBegins(j) \/ Registers(j) \/ Submits(j) \/ Records(j) \/ Cancel(j) \/ JobOver(j)
      PROVE  Kinds
  <2>1. CASE JobOver(j)
    <3>1. \/ \E how \in Ended, later \in Seq(CallItems) : EndsBy(j, how, later)
          \/ CallsBack(j)
      BY <2>1, JobOverDoes DEF CallsBack
    <3> QED BY <1>2, <3>1 DEF Kinds
  <2> QED BY <1>2, <2>1 DEF Kinds
<1>3. CASE calls = <<>> /\ Owner
  <2>1. TypeOK
    BY DEF Order
  <2>2. CASE DetachBegins
    BY <1>3, <2>1, <2>2 DEF DetachBegins, Kinds, Owns, Owner, Tell, TypeOK, ofOthers
  <2>3. CASE DetachSettles
    BY <1>3, <2>1, <2>3 DEF DetachSettles, Kinds, Owns, Owner, Tell, TypeOK, ofOthers
  <2>4. CASE DetachEnds
    BY <1>3, <2>1, <2>4 DEF DetachEnds, Kinds, Owns, Owner, TypeOK, ofOthers
  <2>5. CASE CloseBegins
    BY <1>3, <2>1, <2>5 DEF CloseBegins, Kinds, Owns, Owner, Tell, TypeOK, ofOthers
  <2>6. CASE CloseEndsLoop
    BY <1>3, <2>1, <2>6 DEF CloseEndsLoop, Kinds, Owns, Owner, Tell, TypeOK, ofOthers
  <2>7. CASE CloseEndsDelivery
    BY <1>3, <2>1, <2>7 DEF CloseEndsDelivery, Kinds, Owns, Owner, Deliver, TypeOK, ofOthers
  <2>8. CASE CloseEnds
    BY <1>3, <2>1, <2>8 DEF CloseEnds, Kinds, Owns, Owner, TypeOK, ofOthers
  <2> QED BY <1>3, <2>2, <2>3, <2>4, <2>5, <2>6, <2>7, <2>8 DEF Owner
<1>4. CASE calls = <<>> /\ Event
  <2>1. noted \in BOOLEAN /\ told \in BOOLEAN /\ looping \in BOOLEAN
    BY DEF Order, TypeOK
  <2>2. CASE OnSubmit
    BY <2>2, OnSubmitDoes DEF Kinds
  <2>3. CASE OnFinished
    <3>1. \/ \E j \in Jobs, how \in Ended, later \in Seq(CallItems) : EndsBy(j, how, later)
          \/ Takes
      BY <2>1, <2>3, OnFinishedDoes DEF Takes, beside
    <3> QED BY <3>1 DEF Kinds
  <2>4. CASE OnNoted \/ OnTold \/ OnEnd
    <3>1. Takes
      BY <1>4, <2>1, <2>4 DEF OnNoted, OnTold, OnEnd, Hears, LoopFree, notLoop, Takes
    <3> QED BY <3>1 DEF Kinds
  <2> QED BY <1>4, <2>2, <2>3, <2>4 DEF Event, Kinds
<1>5. CASE calls = <<>> /\ Delivery
  BY <1>5 DEF Kinds
<1> QED BY <1>1, <1>2, <1>3, <1>4, <1>5 DEF Next

-----------------------------------------------------------------------------
(* Type correctness *)

\* The last snapshot of the job is kept, and no more than as many as are remembered; whoever is
\* not among them any more was forgotten for that.
LEMMA RememberDoes ==
  ASSUME TypeOK, NEW j \in Jobs, Remember(j)
  PROVE  /\ ended' \in Seq(Jobs) /\ IsInjective(ended') /\ Len(ended') <= Remembered
         /\ \A i \in Jobs : i \in ToSet(ended) \/ i = j \/ Len(ended) = Remembered =>
              i \in ToSet(ended') \/ Len(ended') = Remembered
<1>1. /\ ended \in Seq(Jobs) /\ Len(ended) \in Nat /\ Len(ended) <= Remembered /\ Remembered \in Nat
      /\ \A a, b \in DOMAIN ended : ended[a] = ended[b] => a = b
      /\ DOMAIN ended = 1 .. Len(ended)
  BY JobsAssumption DEF TypeOK, IsInjective
<1>2. CASE j \in ToSet(ended)
  <2>1. ~(Len(ended) > Remembered)
    BY <1>1
  <2>2. ended' = ended
    BY <1>2, <2>1 DEF Remember
  <2> QED BY <1>1, <1>2, <2>2 DEF TypeOK
<1>3. CASE j \notin ToSet(ended)
  <2> DEFINE all == Append(ended, j)
  <2>1. /\ all \in Seq(Jobs) /\ Len(all) = Len(ended) + 1 /\ DOMAIN all = 1 .. Len(ended) + 1
        /\ all[Len(ended) + 1] = j
        /\ \A a \in DOMAIN all : a # Len(ended) + 1 => a \in DOMAIN ended /\ all[a] = ended[a]
    BY <1>1, AppendIs
  <2>2. \A a \in DOMAIN ended : a \in DOMAIN all /\ all[a] = ended[a] /\ ended[a] # j /\ a # Len(ended) + 1
    BY <1>1, <1>3, <2>1 DEF ToSet
  <2>3. \A a, b \in DOMAIN all : all[a] = all[b] => a = b
    BY <1>1, <2>1, <2>2
  <2>4. \A i : i \in ToSet(ended) \/ i = j => i \in ToSet(all)
    BY <1>1, <2>1, <2>2 DEF ToSet
  <2>5. ended' = IF Len(all) > Remembered THEN Tail(all) ELSE all
    BY <1>3 DEF Remember
  <2> HIDE DEF all
  <2>6. CASE Len(all) > Remembered
    <3>1. ended' = Tail(all) /\ all # <<>>
      BY <1>1, <2>1, <2>5, <2>6
    <3>2. /\ ended' \in Seq(Jobs) /\ Len(ended') = Len(all) - 1 /\ DOMAIN ended' = 1 .. Len(all) - 1
          /\ \A a \in DOMAIN ended' : a + 1 \in DOMAIN all /\ ended'[a] = all[a + 1]
      BY <2>1, <3>1, TailIs
    <3>3. \A a, b \in DOMAIN ended' : ended'[a] = ended'[b] => a = b
      BY <1>1, <2>1, <2>3, <3>2
    <3>4. Len(ended') = Remembered
      <4>1. Len(ended') = Len(ended) + 1 - 1 /\ Len(ended) + 1 > Remembered
        BY <2>1, <2>6, <3>2
      <4>2. Len(ended) \in Nat /\ Remembered \in Nat /\ Len(ended) <= Remembered
        BY <1>1
      <4> QED BY <4>1, <4>2
    <3>5. Len(ended') <= Remembered
      BY <1>1, <3>4
    <3> QED BY <3>2, <3>3, <3>4, <3>5 DEF IsInjective
  <2>7. CASE ~(Len(all) > Remembered)
    <3>1. ended' = all /\ Len(all) <= Remembered /\ Len(ended) # Remembered
      <4>1. Len(ended) \in Nat /\ Remembered \in Nat /\ Len(all) = Len(ended) + 1
        BY <1>1, <2>1
      <4> QED BY <2>5, <2>7, <4>1
    <3> QED BY <2>1, <2>3, <2>4, <3>1 DEF IsInjective
  <2> QED BY <2>6, <2>7
<1> QED BY <1>2, <1>3

\* Where the next thing for the delivery thread goes.
LEMMA FirstDelivery ==
  ASSUME Order, NEW op, Gets(op)
  PROVE  /\ deliveries \in Seq(DeliveryItems) /\ deliveries # <<>> /\ 1 \in DOMAIN deliveries
         /\ Head(deliveries) = deliveries[1] /\ deliveries[1].op = op
         /\ deliveries' \in Seq(DeliveryItems) /\ deliveries' = Tail(deliveries)
         /\ \A k \in DOMAIN deliveries' :
              k \in Nat /\ k + 1 \in DOMAIN deliveries /\ deliveries'[k] = deliveries[k + 1]
         /\ DOMAIN deliveries' = 1 .. Len(deliveries) - 1 /\ DOMAIN deliveries = 1 .. Len(deliveries)
         /\ op \in {"finish", "announce"} => Head(deliveries).job \in Jobs
         /\ at = Nothing
<1>1. deliveries \in Seq(DeliveryItems) /\ deliveries # <<>> /\ deliveries' = Tail(deliveries) /\ at = Nothing
      /\ Head(deliveries).op = op
  BY QueuesHold DEF Order, Gets
<1>2. /\ Head(deliveries) = deliveries[1] /\ 1 \in DOMAIN deliveries
      /\ Tail(deliveries) \in Seq(DeliveryItems)
      /\ DOMAIN Tail(deliveries) = 1 .. Len(deliveries) - 1 /\ DOMAIN deliveries = 1 .. Len(deliveries)
      /\ Len(deliveries) \in Nat
      /\ \A k \in DOMAIN Tail(deliveries) : k + 1 \in DOMAIN deliveries /\ Tail(deliveries)[k] = deliveries[k + 1]
  BY <1>1, TailIs
<1>3. op \in {"finish", "announce"} => Head(deliveries).job \in Jobs
  BY <1>1, <1>2 DEF Order, ItemsNameJobs
<1>4. \A k \in DOMAIN Tail(deliveries) : k \in Nat
  BY <1>2
<1> QED BY <1>1, <1>2, <1>3, <1>4

\* A step leaves everything of its type.
LEMMA TypeStep ==
  ASSUME Order, Next
  PROVE  TypeOK'
<1>0. TypeOK /\ JobsAssumption
  BY JobsAssumption DEF Order
<1> DEFINE Rests == /\ calls' \in Seq(CallItems) /\ events' \in Seq(EventItems)
                    /\ deliveries' \in Seq(DeliveryItems) /\ at' \in AtItems
<1>1. /\ calls \in Seq(CallItems) /\ events \in Seq(EventItems)
      /\ deliveries \in Seq(DeliveryItems) /\ at \in AtItems
  BY <1>0, QueuesHold
<1>2. \A op \in {"noted", "detach", "told", "close", "end"} : Append(events, Bare(op)) \in Seq(EventItems)
  BY <1>1, BareIn, AppendIs
<1>3. Append(deliveries, Bare("end")) \in Seq(DeliveryItems)
  BY <1>1, BareIn, AppendIs
<1>4. ASSUME NEW j \in Jobs, SubmitBegins(j) PROVE TypeOK'
  <2>1. asked[j].after \subseteq Jobs
    BY <1>0 DEF TypeOK, JobsAssumption
  <2>2. WritersFor(j) \subseteq Jobs
    BY <1>0 DEF TypeOK, WritersFor
  <2>3. after' \in [Jobs -> SUBSET Jobs] /\ submitting' \subseteq Jobs
    BY <1>0, <1>4, <2>1, <2>2 DEF SubmitBegins, TypeOK
  <2> QED BY <1>0, <1>4, <2>3 DEF SubmitBegins, TypeOK, owning, registry, loopState
<1>26. ASSUME NEW j \in Jobs, Registers(j) PROVE TypeOK'
  BY <1>0, <1>26 DEF Registers, TypeOK, callers, owning, loopState, Alive
<1>5. ASSUME NEW j \in Jobs, Submits(j) PROVE TypeOK'
  <2>1. events' \in Seq(EventItems)
    BY <1>1, <1>5, EventsIn, AppendIs DEF Submits, Tell
  <2> QED BY <1>0, <1>5, <2>1 DEF Submits, TypeOK, owning, registry, loopState, EventItems
<1>6. ASSUME NEW j \in Jobs, Records(j) PROVE TypeOK'
  BY <1>0, <1>6 DEF Records, TypeOK, owning, loopState
<1>7. ASSUME NEW j \in Jobs, Cancel(j) PROVE TypeOK'
  <2>1. events' \in Seq(EventItems)
    BY <1>1, <1>7, EventsIn, AppendIs DEF Cancel, Tell
  <2> QED BY <1>0, <1>7, <2>1 DEF Cancel, TypeOK, owning, registry, loopState, EventItems
<1>8. ASSUME NEW j \in Jobs, CallsBack(j) PROVE TypeOK'
  <2>1. deliveries' \in Seq(DeliveryItems)
    BY <1>1, <1>8, DeliveriesIn, AppendIs DEF CallsBack
  <2> QED BY <1>0, <1>8, <2>1 DEF CallsBack, TypeOK, owning, registry, callers, DeliveryItems
<1>9. CASE Owns
  <2>1. events' \in Seq(EventItems) /\ deliveries' \in Seq(DeliveryItems)
    BY <1>1, <1>2, <1>3, <1>9 DEF Owns
  <2> QED BY <1>0, <1>9, <2>1 DEF Owns, ofOthers, TypeOK, registry, callers, loopState, DeliveryItems, EventItems
<1>10. ASSUME NEW j \in Jobs, NEW how \in Ended, NEW later \in Seq(CallItems), EndsBy(j, how, later)
       PROVE  TypeOK'
  <2>1. /\ status' = [status EXCEPT ![j] = how]
        /\ active' = active \ {j} /\ waiting' = waiting \ {j}
        /\ UNCHANGED <<started, finishing>>
        /\ calls' \in Seq(CallItems)
    BY <1>0, <1>10, FinishesDoes DEF EndsBy, Order
  <2>2. events' \in Seq(EventItems)
    BY <1>1, <1>10, TailIs DEF EndsBy, Drains
  <2>3. UNCHANGED beside /\ early' \subseteq Jobs
    BY <1>0, <1>10 DEF EndsBy, TypeOK
  <2> QED BY <1>0, <2>1, <2>2, <2>3 DEF TypeOK, beside, callers, registry, owning, EventItems, CallItems
<1>11. ASSUME NEW j \in Jobs, StartsBy(j) PROVE TypeOK'
  <2>1. calls' \in Seq(CallItems) /\ events' \in Seq(EventItems)
    BY <1>1, <1>11, TailIs DEF StartsBy
  <2>2. Starts(j) /\ UNCHANGED <<beside, early>>
    BY <1>11 DEF StartsBy
  <2> QED BY <1>0, <2>1, <2>2 DEF Starts, TypeOK, beside, callers, registry, owning, EventItems, CallItems, Alive
<1>12. ASSUME NEW j \in Jobs, WaitsBy(j) PROVE TypeOK'
  <2>1. calls' \in Seq(CallItems) /\ events' \in Seq(EventItems)
    BY <1>1, <1>12, TailIs, CallsIn DEF WaitsBy
  <2>2. waiting' = waiting \cup {j} /\ j \notin active /\ UNCHANGED <<status, active, started, finishing, beside, early>>
    BY <1>12 DEF WaitsBy
  <2> QED BY <1>0, <2>1, <2>2 DEF TypeOK, beside, callers, registry, owning, EventItems, CallItems
<1>13. CASE SkipsCall
  <2>1. calls' \in Seq(CallItems)
    BY <1>1, <1>13, TailIs DEF SkipsCall
  <2> QED BY <1>0, <1>13, <2>1 DEF SkipsCall, loopState, TypeOK, beside, callers, registry, owning, CallItems
<1>14. CASE Rest
  <2>1. calls' \in Seq(CallItems)
    BY <1>1, <1>14, TailIs DEF Rest
  <2>2. Head(calls).job \in Jobs
    BY <1>14, FirstCall DEF Rest
  <2>3. deliveries' \in Seq(DeliveryItems)
    BY <1>1, <1>14, <2>2, DeliveriesIn, AppendIs DEF Rest, Deliver
  <2> QED BY <1>0, <1>14, <2>1, <2>3
          DEF Rest, notLoop, loopState, TypeOK, callers, registry, owning, CallItems, DeliveryItems
<1>15. CASE TellDetached
  <2>1. calls' \in Seq(CallItems)
    BY <1>1, <1>15, TailIs DEF TellDetached
  <2>2. deliveries' \in Seq(DeliveryItems)
    BY <1>1, <1>15, BareIn, AppendIs DEF TellDetached, Deliver
  <2> QED BY <1>0, <1>15, <2>1, <2>2
          DEF TellDetached, notLoop, loopState, TypeOK, callers, registry, owning, CallItems, DeliveryItems
<1>16. CASE Takes
  <2>1. events' \in Seq(EventItems)
    BY <1>1, <1>16, TailIs DEF Takes
  <2> QED BY <1>0, <1>16, <2>1 DEF Takes, loopState, TypeOK, callers, registry, owning, EventItems
<1>17. CASE OnStop
  <2>1. /\ events # <<>> /\ events' = Tail(events) /\ Head(events).op = "stop"
        /\ calls' = <<[Head(events) EXCEPT !.op = "stop"]>>
    BY <1>17 DEF OnStop, Hears
  <2>2. Head(events) \in EventItems /\ events' \in Seq(EventItems)
    BY <1>1, <2>1, TailIs
  <2>3. [Head(events) EXCEPT !.op = "stop"] \in CallItems
    BY <2>2 DEF EventItems, CallItems, Items
  <2>4. calls' \in Seq(CallItems)
    BY <2>1, <2>3
  <2> QED BY <1>0, <1>17, <2>2, <2>4
          DEF OnStop, notLoop, loopState, TypeOK, callers, registry, owning, CallItems, EventItems
<1>18. CASE OnDetach \/ OnClose
  <2>1. /\ events # <<>> /\ events' = Tail(events)
        /\ \E which \in SUBSET Jobs, last \in Seq(CallItems) : StopAll(which, last)
    <3>1. <<>> \in Seq(CallItems) /\ <<Bare("tell")>> \in Seq(CallItems) /\ Journaled \in SUBSET Jobs
      BY <1>0, BareIn DEF JobsAssumption
    <3> QED BY <1>18, <3>1 DEF OnDetach, OnClose, Hears
  <2>2. calls' \in Seq(CallItems)
    BY <1>0, <2>1, StopAllDoes DEF Order
  <2>3. events' \in Seq(EventItems)
    BY <1>1, <2>1, TailIs
  <2> QED BY <1>0, <1>18, <2>2, <2>3
          DEF OnDetach, OnClose, notLoop, loopState, TypeOK, callers, registry, owning, CallItems, EventItems
<1>19. CASE Told
  <2>1. deliveries' \in Seq(DeliveryItems)
    BY <1>19, FirstDelivery DEF Told
  <2> QED BY <1>0, <1>19, <2>1
          DEF Told, notDelivery, loopState, TypeOK, callers, registry, owning, DeliveryItems
<1>20. CASE Leaves
  <2>1. deliveries' \in Seq(DeliveryItems) /\ at' \in AtItems
    BY <1>20, FirstDelivery, BareIn DEF Leaves
  <2> QED BY <1>0, <1>20, <2>1
          DEF Leaves, notDelivery, loopState, TypeOK, callers, registry, owning, DeliveryItems, AtItems
<1>21. CASE RunFinish
  <2>1. PICK how \in {"ok", "raised"} :
          /\ ran' = [ran EXCEPT ![Head(deliveries).job] = how]
          /\ events' = Append(events, Item("finished", Head(deliveries).job, how))
    BY <1>21 DEF RunFinish, Tell
  <2>2. deliveries' \in Seq(DeliveryItems) /\ Head(deliveries).job \in Jobs
    BY <1>21, FirstDelivery DEF RunFinish
  <2>3. events' \in Seq(EventItems)
    BY <1>1, <2>1, <2>2, EventsIn, AppendIs
  <2>4. ran' \in [Jobs -> {"no", "ok", "raised"}]
    BY <1>0, <2>1, <2>2 DEF TypeOK
  <2> QED BY <1>0, <1>21, <2>2, <2>3, <2>4
          DEF RunFinish, notDelivery, loopState, TypeOK, callers, registry, owning, DeliveryItems, EventItems
<1>22. ASSUME NEW j \in Jobs, Announces(j)
       PROVE  /\ writing' \subseteq Jobs /\ announced' \in [Jobs -> Nat] /\ at' \in AtItems
              /\ ended' \in Seq(Jobs) /\ IsInjective(ended') /\ Len(ended') <= Remembered
              /\ UNCHANGED <<jobs, finished>>
  <2>1. ended' \in Seq(Jobs) /\ IsInjective(ended') /\ Len(ended') <= Remembered
    BY <1>0, <1>22, RememberDoes DEF Announces
  <2>2. at' \in AtItems
    BY <1>22, DeliveriesIn DEF Announces, Terminal
  <2> QED BY <1>0, <1>22, <2>1, <2>2 DEF Announces, Terminal, TypeOK
<1>23. CASE Announce
  <2>1. deliveries' \in Seq(DeliveryItems) /\ Head(deliveries).job \in Jobs
    BY <1>23, FirstDelivery DEF Announce
  <2>2. CASE Announces(Head(deliveries).job) /\ UNCHANGED <<events, noted>>
    BY <1>0, <1>22, <1>23, <2>1, <2>2
       DEF Announce, notDelivery, loopState, TypeOK, callers, owning, DeliveryItems, AtItems
  <2>3. CASE /\ at' = OfJob("noting", Head(deliveries).job)
             /\ noted' = FALSE
             /\ Tell(Bare("noted"))
             /\ UNCHANGED registry
    <3>1. at' \in AtItems /\ events' \in Seq(EventItems) /\ noted' = FALSE /\ UNCHANGED registry
      BY <1>2, <2>1, <2>3, DeliveriesIn DEF Tell
    <3> QED BY <1>0, <1>23, <2>1, <3>1
            DEF Announce, notDelivery, loopState, TypeOK, callers, owning, registry, DeliveryItems, AtItems, EventItems
  <2> QED BY <1>23, <2>2, <2>3 DEF Announce
<1>24. CASE Noted
  <2>1. at.job \in Jobs
    BY <1>24 DEF Order, ItemsNameJobs, Noted
  <2> QED BY <1>0, <1>22, <1>24, <2>1 DEF Noted, notDelivery, loopState, TypeOK, callers, owning, AtItems
<1>25. CASE LetsGo
  <2>1. at.job \in Jobs /\ at' \in AtItems
    BY <1>25, BareIn DEF Order, ItemsNameJobs, LetsGo
  <2> QED BY <1>0, <1>25, <2>1 DEF LetsGo, notDelivery, loopState, TypeOK, callers, owning, AtItems
<1> QED BY StepIsOfKind, <1>4, <1>5, <1>6, <1>7, <1>8, <1>9, <1>10, <1>11, <1>12, <1>13, <1>14, <1>15, <1>16,
           <1>17, <1>18, <1>19, <1>20, <1>21, <1>23, <1>24, <1>25, <1>26 DEF Kinds, Delivery

\* What is about a job still names one.
LEMMA NamesStep ==
  ASSUME Order, Next
  PROVE  ItemsNameJobs'
<1> DEFINE E == \A k \in DOMAIN events :
                  /\ events[k].op \in {"submit", "stop", "finished"} => events[k].job \in Jobs
                  /\ events[k].op = "stop" => events[k].s \in Badly
                  /\ events[k].op = "finished" => events[k].s \in {"ok", "raised"}
           C == \A k \in DOMAIN calls :
                  /\ calls[k].op # "tell" => calls[k].job \in Jobs
                  /\ calls[k].op = "stop" => calls[k].s \in Badly
           D == \A k \in DOMAIN deliveries :
                  deliveries[k].op \in {"finish", "announce"} => deliveries[k].job \in Jobs
           A == at.op \in {"noting", "letting"} => at.job \in Jobs
<1>0. /\ calls \in Seq(CallItems) /\ events \in Seq(EventItems)
      /\ deliveries \in Seq(DeliveryItems) /\ E /\ C /\ D /\ A
  BY QueuesHold DEF Order, ItemsNameJobs
<1>1. ASSUME events # <<>>, events' = Tail(events) PROVE E'
  BY <1>0, <1>1, TailIs
<1>2. ASSUME calls # <<>>, calls' = Tail(calls) PROVE C'
  BY <1>0, <1>2, TailIs
<1>3. ASSUME deliveries # <<>>, deliveries' = Tail(deliveries) PROVE D'
  BY <1>0, <1>3, TailIs
<1>4. ASSUME NEW e \in EventItems, events' = Append(events, e),
             e.op \in {"submit", "stop", "finished"} => e.job \in Jobs,
             e.op = "stop" => e.s \in Badly,
             e.op = "finished" => e.s \in {"ok", "raised"}
      PROVE  E'
  <2>1. \A k \in DOMAIN events' : events'[k] = e \/ (k \in DOMAIN events /\ events'[k] = events[k])
    BY <1>0, <1>4, AppendIs
  <2> QED BY <1>0, <1>4, <2>1
<1>5. ASSUME NEW e \in DeliveryItems, deliveries' = Append(deliveries, e),
             e.op \in {"finish", "announce"} => e.job \in Jobs
      PROVE  D'
  <2>1. \A k \in DOMAIN deliveries' :
          deliveries'[k] = e \/ (k \in DOMAIN deliveries /\ deliveries'[k] = deliveries[k])
    BY <1>0, <1>5, AppendIs
  <2> QED BY <1>0, <1>5, <2>1
<1>6. UNCHANGED events => E'
  BY <1>0
<1>7. UNCHANGED calls => C'
  BY <1>0
<1>8. UNCHANGED deliveries => D'
  BY <1>0
<1>9. UNCHANGED at => A'
  BY <1>0
<1>10. E' /\ C' /\ D' /\ A' => ItemsNameJobs'
  BY DEF ItemsNameJobs
<1>11. \A op \in {"noted", "detach", "told", "close", "end"} : events' = Append(events, Bare(op)) => E'
  BY <1>4, BareIn, BareIs
<1>12. \A op \in {"told", "end"} : deliveries' = Append(deliveries, Bare(op)) => D'
  BY <1>5, BareIn, BareIs
<1>13. \A j \in Jobs, op \in {"finish", "announce"} : deliveries' = Append(deliveries, OfJob(op, j)) => D'
  BY <1>5, DeliveriesIn, OfJobIs
<1> HIDE DEF E, C, D, A
<1>20. ASSUME NEW j \in Jobs, SubmitBegins(j) \/ Registers(j) \/ Records(j) PROVE ItemsNameJobs'
  BY <1>6, <1>7, <1>8, <1>9, <1>10, <1>20 DEF SubmitBegins, Registers, Records
<1>21. ASSUME NEW j \in Jobs, Submits(j) PROVE ItemsNameJobs'
  <2>1. E'
    BY <1>4, <1>21, EventsIn, OfJobIs DEF Submits, Tell
  <2> QED BY <1>7, <1>8, <1>9, <1>10, <1>21, <2>1 DEF Submits
<1>22. ASSUME NEW j \in Jobs, Cancel(j) PROVE ItemsNameJobs'
  <2>1. "canceled" \in Badly
    BY DEF Badly, Ended
  <2>2. E'
    BY <1>4, <1>22, <2>1, EventsIn, ItemIs DEF Cancel, Tell
  <2> QED BY <1>7, <1>8, <1>9, <1>10, <1>22, <2>2 DEF Cancel
<1>23. ASSUME NEW j \in Jobs, CallsBack(j) PROVE ItemsNameJobs'
  BY <1>6, <1>7, <1>9, <1>10, <1>13, <1>23 DEF CallsBack
<1>24. CASE Owns
  BY <1>6, <1>7, <1>8, <1>9, <1>10, <1>11, <1>12, <1>24 DEF Owns, ofOthers
<1>25. ASSUME NEW j \in Jobs, NEW how \in Ended, NEW later \in Seq(CallItems), EndsBy(j, how, later)
       PROVE  ItemsNameJobs'
  <2>1. E' /\ D' /\ A'
    BY <1>1, <1>6, <1>8, <1>9, <1>25 DEF EndsBy, Drains, beside
  <2>2. \A k \in DOMAIN later :
          /\ later[k].op # "tell" => later[k].job \in Jobs
          /\ later[k].op = "stop" => later[k].s \in Badly
    <3>1. CASE calls # <<>> /\ later = Tail(calls)
      <4>1. \A k \in DOMAIN later : k + 1 \in DOMAIN calls /\ later[k] = calls[k + 1]
        BY <1>0, <3>1, TailIs
      <4> QED BY <1>0, <4>1 DEF C
    <3>2. CASE later = <<>>
      BY <3>2
    <3> QED BY <1>25, <3>1, <3>2 DEF EndsBy
  <2>3. /\ waiting' \subseteq Jobs
        /\ \A k \in DOMAIN calls' :
             \/ calls'[k].op = "look" /\ calls'[k].job \in waiting'
             \/ calls'[k] = OfJob("rest", j)
             \/ \E i \in DOMAIN later : calls'[k] = later[i]
    <3>1. waiting \subseteq Jobs /\ TypeOK /\ Places
      BY DEF Order, TypeOK
    <3> QED BY <1>25, <3>1, FinishesDoes DEF EndsBy
  <2>4. C'
    BY <2>2, <2>3, OfJobIs DEF C
  <2> QED BY <1>10, <2>1, <2>4
<1>26. ASSUME NEW j \in Jobs, StartsBy(j) PROVE ItemsNameJobs'
  BY <1>1, <1>2, <1>6, <1>7, <1>8, <1>9, <1>10, <1>26 DEF StartsBy, beside
<1>27. ASSUME NEW j \in Jobs, WaitsBy(j) PROVE ItemsNameJobs'
  <2>1. DOMAIN calls' = {1} /\ calls'[1] = OfJob("look", j)
    BY <1>27 DEF WaitsBy
  <2>2. C'
    BY <2>1, OfJobIs DEF C
  <2> QED BY <1>1, <1>8, <1>9, <1>10, <1>27, <2>2 DEF WaitsBy, beside
<1>28. CASE SkipsCall
  BY <1>2, <1>6, <1>8, <1>9, <1>10, <1>28 DEF SkipsCall, beside
<1>29. CASE Rest
  <2>1. Head(calls).job \in Jobs
    BY <1>29, FirstCall DEF Rest
  <2> QED BY <1>2, <1>6, <1>9, <1>10, <1>13, <1>29, <2>1 DEF Rest, Deliver, notLoop
<1>30. CASE TellDetached
  BY <1>2, <1>6, <1>9, <1>10, <1>12, <1>30 DEF TellDetached, Deliver, notLoop
<1>31. CASE Takes
  BY <1>1, <1>7, <1>8, <1>9, <1>10, <1>31 DEF Takes
<1>32. CASE OnStop
  <2>1. /\ events # <<>> /\ events' = Tail(events) /\ Head(events).op = "stop"
        /\ calls' = <<[Head(events) EXCEPT !.op = "stop"]>> /\ UNCHANGED <<deliveries, at>>
    BY <1>32 DEF OnStop, Hears, notLoop
  <2>2. PICK j \in Jobs : j = Head(events).job
    BY <2>1, FirstEvent
  <2>3. Head(events).s \in Badly /\ Head(events) \in EventItems
    BY <1>0, <2>1, <2>2, FirstEvent
  <2>4. [Head(events) EXCEPT !.op = "stop"].job = j /\ [Head(events) EXCEPT !.op = "stop"].s \in Badly
    BY <2>2, <2>3 DEF EventItems, Items
  <2>5. DOMAIN calls' = {1} /\ calls'[1] = [Head(events) EXCEPT !.op = "stop"]
    BY <2>1
  <2>6. C'
    BY <2>4, <2>5 DEF C
  <2> QED BY <1>1, <1>8, <1>9, <1>10, <2>1, <2>6
<1>33. CASE OnDetach \/ OnClose
  <2>1. /\ events # <<>> /\ events' = Tail(events) /\ UNCHANGED <<deliveries, at>>
        /\ \E which \in SUBSET Jobs : StopAll(which, <<Bare("tell")>>) \/ StopAll(which, <<>>)
    BY <1>33, JobsAssumption DEF OnDetach, OnClose, Hears, notLoop
  <2>2. PICK which \in SUBSET Jobs, last \in Seq(CallItems) :
          StopAll(which, last) /\ \A i \in DOMAIN last : last[i] = Bare("tell")
    <3>1. <<>> \in Seq(CallItems) /\ <<Bare("tell")>> \in Seq(CallItems)
      BY BareIn
    <3>2. /\ \A i \in DOMAIN <<Bare("tell")>> : <<Bare("tell")>>[i] = Bare("tell")
          /\ DOMAIN <<>> = {}
      OBVIOUS
    <3>3. PICK which \in SUBSET Jobs : StopAll(which, <<Bare("tell")>>) \/ StopAll(which, <<>>)
      BY <2>1
    <3>4. CASE StopAll(which, <<Bare("tell")>>)
      BY <3>1, <3>2, <3>4
    <3>5. CASE StopAll(which, <<>>)
      BY <3>1, <3>2, <3>5
    <3> QED BY <3>3, <3>4, <3>5
  <2>3. \A k \in DOMAIN calls' :
          \/ calls'[k].op = "stop" /\ calls'[k].s = "interrupted" /\ calls'[k].job \in which
          \/ calls'[k] = Bare("tell")
    <3>1. TypeOK /\ Places /\ StopAll(which, last)
      BY <2>2 DEF Order
    <3>2. \E n \in Nat :
            /\ Len(calls') = n + Len(last)
            /\ \A k \in DOMAIN calls' :
                 \/ /\ k <= n /\ calls'[k].op = "stop" /\ calls'[k].s = "interrupted"
                    /\ calls'[k].job \in which \cap (active \cup waiting)
                 \/ k > n /\ k - n \in DOMAIN last /\ calls'[k] = last[k - n]
      BY <3>1, <2>2, StopAllDoes, Zenon
    <3> QED BY <2>2, <3>2
  <2>4. "interrupted" \in Badly
    BY DEF Badly, Ended
  <2>5. C'
    BY <2>3, <2>4, BareIs DEF C
  <2> QED BY <1>1, <1>8, <1>9, <1>10, <2>1, <2>5
<1>34. CASE Told \/ Leaves
  <2>1. deliveries # <<>> /\ deliveries' = Tail(deliveries) /\ UNCHANGED <<events, calls>>
    BY <1>34, FirstDelivery DEF Told, Leaves, notDelivery
  <2>2. A'
    BY <1>9, <1>34, BareIs DEF Told, Leaves, A
  <2> QED BY <1>3, <1>6, <1>7, <1>10, <2>1, <2>2
<1>35. CASE RunFinish
  <2>1. Head(deliveries).job \in Jobs /\ deliveries # <<>> /\ deliveries' = Tail(deliveries)
    BY <1>35, FirstDelivery DEF RunFinish
  <2>2. E'
    BY <1>4, <1>35, <2>1, EventsIn, ItemIs DEF RunFinish, Tell
  <2> QED BY <1>3, <1>7, <1>9, <1>10, <1>35, <2>1, <2>2 DEF RunFinish, notDelivery
<1>36. CASE Announce
  <2>1. Head(deliveries).job \in Jobs /\ deliveries # <<>> /\ deliveries' = Tail(deliveries)
    BY <1>36, FirstDelivery DEF Announce
  <2>2. E' /\ UNCHANGED calls
    BY <1>6, <1>11, <1>36 DEF Announce, Tell, notDelivery
  <2>3. A'
    BY <1>36, <2>1, OfJobIs DEF Announce, Announces, Terminal, A
  <2> QED BY <1>3, <1>7, <1>10, <2>1, <2>2, <2>3
<1>37. CASE Noted
  <2>1. at.job \in Jobs
    BY <1>37 DEF Order, ItemsNameJobs, Noted
  <2>2. A'
    BY <1>37, <2>1, OfJobIs DEF Noted, Announces, Terminal, A
  <2> QED BY <1>6, <1>7, <1>8, <1>10, <1>37, <2>2 DEF Noted, notDelivery
<1>38. CASE LetsGo
  <2>1. A'
    BY <1>38, BareIs DEF LetsGo, A, Nothing
  <2> QED BY <1>6, <1>7, <1>8, <1>10, <1>38, <2>1 DEF LetsGo, notDelivery
<1> QED BY StepIsOfKind, <1>20, <1>21, <1>22, <1>23, <1>24, <1>25, <1>26, <1>27, <1>28, <1>29, <1>30, <1>31,
           <1>32, <1>33, <1>34, <1>35, <1>36, <1>37, <1>38 DEF Kinds, Delivery

-----------------------------------------------------------------------------
(* Where the jobs are *)

\* A step that moves no job.
Stays ==
  /\ UNCHANGED <<status, waiting, active, started, early>>
  /\ jobs' \subseteq jobs /\ finishing' \subseteq finishing \cup (active \ early)

\* The jobs move in these steps alone.
LEMMA MovesOrStays ==
  ASSUME Order, Next
  PROVE  \/ \E j \in Jobs : calls = <<>> /\ Registers(j)
         \/ \E j \in Jobs, how \in Ended, later \in Seq(CallItems) : EndsBy(j, how, later)
         \/ \E j \in Jobs : StartsBy(j) \/ WaitsBy(j)
         \/ Stays
<1>1. ASSUME NEW j \in Jobs, SubmitBegins(j) \/ Submits(j) \/ Records(j) \/ Cancel(j) \/ CallsBack(j)
      PROVE  Stays /\ (~CallsBack(j) => UNCHANGED finishing)
  BY <1>1 DEF SubmitBegins, Submits, Records, Cancel, CallsBack, Stays, registry, loopState
<1>2. CASE Owns \/ SkipsCall \/ Rest \/ TellDetached \/ Takes \/ OnStop \/ OnDetach \/ OnClose
  BY <1>2 DEF Owns, SkipsCall, Rest, TellDetached, Takes, OnStop, OnDetach, OnClose, notLoop, ofOthers, beside,
              registry, loopState, Stays
<1>3. CASE Delivery
  BY <1>3 DEF Delivery, Told, Leaves, RunFinish, Announce, Announces, Noted, LetsGo, notDelivery, registry,
              loopState, Stays
<1> QED BY StepIsOfKind, <1>1, <1>2, <1>3 DEF Kinds

\* Every job stays in the one place its status says.
LEMMA PlacesStep ==
  ASSUME Order, Next
  PROVE  Places'
<1>0. TypeOK /\ Places
  BY DEF Order
<1>1. ASSUME NEW j \in Jobs, Registers(j) PROVE Places'
  <2>1. /\ status[j] = "new" /\ UNCHANGED <<waiting, active, started, finishing, early>> /\ jobs' = jobs \cup {j}
        /\ status' = [status EXCEPT ![j] = IF after[j] = {} THEN "running" ELSE "waiting"]
    BY <1>1 DEF Registers, loopState
  <2>2. j \notin waiting /\ j \notin active /\ j \notin started /\ j \notin early
    BY <1>0, <2>1 DEF Places, Badly, Ended
  <2> QED BY <1>0, <2>1, <2>2 DEF Places, TypeOK
<1>2. ASSUME NEW j \in Jobs, NEW how \in Ended, NEW later \in Seq(CallItems), EndsBy(j, how, later)
      PROVE  Places'
  <2>1. /\ status' = [status EXCEPT ![j] = how]
        /\ active' = active \ {j} /\ waiting' = waiting \ {j}
        /\ UNCHANGED <<started, finishing, jobs>>
    BY <1>0, <1>2, FinishesDoes DEF EndsBy, beside, registry
  <2>2. IsFiniteSet(waiting') /\ IsFiniteSet(active')
    BY <1>0, <2>1, FS_Subset DEF Places
  <2>3. how = "completed" => j \in started /\ j \notin early
    BY <1>0, <1>2 DEF EndsBy, TypeOK
  <2>4. how \notin {"new", "waiting", "running"} /\ (how # "completed" => how \in Badly)
    BY DEF Ended, Badly
  <2>5. \/ UNCHANGED early
        \/ /\ early' = early \cup {j} /\ how # "completed"
           /\ j \notin started
    <3>1. ASSUME Unheard(j) PROVE j \notin started
      BY <1>2, <3>1 DEF EndsBy, Order, Arrivals, Fresh
    <3> QED BY <1>2, <3>1 DEF EndsBy
  <2>6. \A i \in early' : i = j \/ (i \in early /\ i # j)
    BY <2>5
  <2>7. j \in early' => how # "completed" /\ j \notin finishing
    BY <1>0, <2>3, <2>5 DEF Places
  <2>8. early \subseteq early'
    BY <2>5
  <2>9. status'[j] = how /\ \A i \in Jobs : i # j => status'[i] = status[i]
    BY <1>0, <2>1 DEF TypeOK
  <2>10. \A i \in early' : status'[i] \notin {"new", "waiting", "completed"} /\ i \notin finishing'
    BY <1>0, <2>1, <2>4, <2>6, <2>7, <2>9 DEF Places, TypeOK
  <2> QED BY <1>0, <2>1, <2>2, <2>3, <2>4, <2>8, <2>9, <2>10 DEF Places, TypeOK
<1>3. ASSUME NEW j \in Jobs, StartsBy(j) PROVE Places'
  <2>1. /\ status' = [status EXCEPT ![j] = "running"]
        /\ active' = active \cup {j} /\ waiting' = waiting \ {j} /\ started' = started \cup {j}
        /\ UNCHANGED <<finishing, jobs, early>>
    BY <1>3 DEF StartsBy, Starts, beside, registry
  <2>2. IsFiniteSet(waiting') /\ IsFiniteSet(active')
    BY <1>0, <2>1, FS_Subset, FS_AddElement DEF Places
  <2> QED BY <1>0, <2>1, <2>2 DEF Places, TypeOK
<1>4. ASSUME NEW j \in Jobs, WaitsBy(j) PROVE Places'
  <2>1. /\ waiting' = waiting \cup {j} /\ j \notin started
        /\ status[j] = "waiting" \/ (j \in early /\ status[j] \in Badly)
        /\ UNCHANGED <<status, active, started, finishing, jobs, early>>
    BY <1>4 DEF WaitsBy, beside, registry
  <2>2. IsFiniteSet(waiting')
    BY <1>0, <2>1, FS_AddElement DEF Places
  <2> QED BY <1>0, <2>1, <2>2 DEF Places, TypeOK
<1>5. CASE Stays
  BY <1>0, <1>5 DEF Places, Stays, TypeOK
<1> QED BY MovesOrStays, <1>1, <1>2, <1>3, <1>4, <1>5

\* What a job comes after is settled before it is registered.
LEMMA AfterMoves ==
  ASSUME Order, Next
  PROVE  \/ UNCHANGED after
         \/ \E j \in Jobs :
              /\ calls = <<>> /\ SubmitBegins(j) /\ status[j] = "new" /\ j \notin submitting
              /\ \A i \in Jobs : i # j => after'[i] = after[i]
<1>1. ASSUME NEW j \in Jobs, calls = <<>>, SubmitBegins(j)
      PROVE  /\ status[j] = "new" /\ j \notin submitting
             /\ \A i \in Jobs : i # j => after'[i] = after[i]
  BY <1>1 DEF SubmitBegins, Order, TypeOK
<1>2. ASSUME NEW j \in Jobs, Registers(j) \/ Submits(j) \/ Records(j) \/ Cancel(j) \/ CallsBack(j)
      PROVE  UNCHANGED after
  BY <1>2 DEF Registers, Submits, Records, Cancel, CallsBack, callers
<1>3. CASE Owns \/ SkipsCall \/ Rest \/ TellDetached \/ Takes \/ OnStop \/ OnDetach \/ OnClose
  BY <1>3 DEF Owns, SkipsCall, Rest, TellDetached, Takes, OnStop, OnDetach, OnClose, notLoop, ofOthers, beside, callers
<1>4. CASE Delivery
  BY <1>4 DEF Delivery, Told, Leaves, RunFinish, Announce, Announces, Noted, LetsGo, notDelivery, callers
<1>5. ASSUME NEW j \in Jobs, NEW how \in Ended, NEW later \in Seq(CallItems), EndsBy(j, how, later)
      PROVE  UNCHANGED after
  BY <1>5 DEF EndsBy, beside, callers
<1>6. ASSUME NEW j \in Jobs, StartsBy(j) \/ WaitsBy(j) PROVE UNCHANGED after
  BY <1>6 DEF StartsBy, WaitsBy, beside, callers
<1> QED BY StepIsOfKind, <1>1, <1>2, <1>3, <1>4, <1>5, <1>6 DEF Kinds

\* Who ended badly stays ended, unless it did so early, and who completed as well.
LEMMA EndsForGood ==
  ASSUME Order, Next
  PROVE  /\ \A j \in Jobs \ early : status[j] \in Badly => status'[j] \in Badly
         /\ \A j \in Jobs : status[j] = "completed" => status'[j] = "completed"
         /\ \A j \in Jobs \ early : status[j] \in Ended => status'[j] \in Ended
         /\ \A j \in Jobs : status[j] # "new" => status'[j] # "new"
<1>0. TypeOK /\ Places /\ Behind /\ \A j \in active : status[j] = "running"
  BY DEF Order, Places
<1>1. ASSUME NEW j \in Jobs, Registers(j)
      PROVE  /\ status[j] = "new"
             /\ status' = [status EXCEPT ![j] = IF after[j] = {} THEN "running" ELSE "waiting"]
  BY <1>1 DEF Registers
<1>2. ASSUME NEW j \in Jobs, NEW how \in Ended, NEW later \in Seq(CallItems), EndsBy(j, how, later)
      PROVE  status' = [status EXCEPT ![j] = how] /\ status[j] # "completed"
             /\ (how = "completed" => status[j] = "running")
  <2>1. status' = [status EXCEPT ![j] = how]
    BY <1>2 DEF EndsBy, Finishes
  <2>2. status[j] = "completed" => AllEndedWell(j)
    BY <1>0 DEF Places, Behind
  <2>3. AllEndedWell(j) => ~OneEndedBadly(j)
    BY DEF AllEndedWell, OneEndedBadly, Badly
  <2>4. j \in early => status[j] # "completed"
    BY <1>0 DEF Places
  <2> QED BY <1>0, <1>2, <2>1, <2>2, <2>3, <2>4 DEF EndsBy, Alive
<1>3. ASSUME NEW j \in Jobs, StartsBy(j)
      PROVE  status' = [status EXCEPT ![j] = "running"] /\ (status[j] \in Alive \/ (j \in early /\ status[j] \in Badly))
  BY <1>3 DEF StartsBy, Starts
<1>4. ASSUME NEW j \in Jobs, WaitsBy(j) PROVE UNCHANGED status
  BY <1>4 DEF WaitsBy
<1>5. CASE \E j \in Jobs, how \in Ended, later \in Seq(CallItems) : EndsBy(j, how, later)
  <2>1. PICK j \in Jobs, how \in Ended :
          status' = [status EXCEPT ![j] = how] /\ status[j] # "completed"
          /\ (how = "completed" => status[j] = "running")
    BY <1>2, <1>5
  <2> QED BY <1>0, <2>1 DEF TypeOK, Badly, Ended
<1> QED BY MovesOrStays, <1>0, <1>1, <1>3, <1>4, <1>5 DEF TypeOK, Stays, Badly, Ended, Alive

\* Who ended early did so for good, and was stopped.
LEMMA EarlyGrows ==
  ASSUME Order, Next
  PROVE  /\ early \subseteq early'
         /\ \A j \in early' \ early :
              \E how \in Ended, later \in Seq(CallItems) : EndsBy(j, how, later) /\ calls # <<>>
<1>1. ASSUME NEW j \in Jobs, SubmitBegins(j) \/ Registers(j) \/ Submits(j) \/ Records(j) \/ Cancel(j) \/ CallsBack(j)
      PROVE  UNCHANGED early
  BY <1>1 DEF SubmitBegins, Registers, Submits, Records, Cancel, CallsBack
<1>2. CASE Owns \/ SkipsCall \/ Rest \/ TellDetached \/ Takes \/ OnStop \/ OnDetach \/ OnClose
  BY <1>2 DEF Owns, SkipsCall, Rest, TellDetached, Takes, OnStop, OnDetach, OnClose, notLoop, ofOthers
<1>3. CASE Delivery
  BY <1>3 DEF Delivery, Told, Leaves, RunFinish, Announce, Announces, Noted, LetsGo, notDelivery
<1>4. ASSUME NEW j \in Jobs, NEW how \in Ended, NEW later \in Seq(CallItems), EndsBy(j, how, later)
      PROVE  UNCHANGED early \/ (early' = early \cup {j} /\ calls # <<>>)
  BY <1>4 DEF EndsBy
<1>5. ASSUME NEW j \in Jobs, StartsBy(j) \/ WaitsBy(j) PROVE UNCHANGED early
  BY <1>5 DEF StartsBy, WaitsBy
<1> QED BY StepIsOfKind, <1>1, <1>2, <1>3, <1>4, <1>5 DEF Kinds

\* What the loop was told of.
LEMMA QueuedMoves ==
  ASSUME Order, Next
  PROVE  UNCHANGED queued \/ \E j \in Jobs : Submits(j) /\ queued' = queued \cup {j}
<1>1. ASSUME NEW j \in Jobs, SubmitBegins(j) \/ Registers(j) \/ Records(j) \/ Cancel(j) \/ CallsBack(j)
      PROVE  UNCHANGED queued
  BY <1>1 DEF SubmitBegins, Registers, Records, Cancel, CallsBack, callers
<1>2. ASSUME NEW j \in Jobs, Submits(j) PROVE queued' = queued \cup {j}
  BY <1>2 DEF Submits
<1>3. CASE Owns \/ SkipsCall \/ Rest \/ TellDetached \/ Takes \/ OnStop \/ OnDetach \/ OnClose
  BY <1>3 DEF Owns, SkipsCall, Rest, TellDetached, Takes, OnStop, OnDetach, OnClose, notLoop, ofOthers, beside, callers
<1>4. CASE Delivery
  BY <1>4 DEF Delivery, Told, Leaves, RunFinish, Announce, Announces, Noted, LetsGo, notDelivery, callers
<1>5. ASSUME NEW j \in Jobs, NEW how \in Ended, NEW later \in Seq(CallItems), EndsBy(j, how, later)
      PROVE  UNCHANGED queued
  BY <1>5 DEF EndsBy, beside, callers
<1>6. ASSUME NEW j \in Jobs, StartsBy(j) \/ WaitsBy(j) PROVE UNCHANGED queued
  BY <1>6 DEF StartsBy, WaitsBy, beside, callers
<1> QED BY StepIsOfKind, <1>1, <1>2, <1>3, <1>4, <1>5, <1>6 DEF Kinds

\* Whatever started has only completed ones before it, and they stay that.
LEMMA BehindStep ==
  ASSUME Order, Next
  PROVE  Behind'
<1>0. TypeOK /\ Places /\ Behind
  BY DEF Order
<1>1. ASSUME NEW j \in started PROVE AllEndedWell(j)'
  <2>1. j \in Jobs /\ status[j] # "new" /\ AllEndedWell(j)
    BY <1>0 DEF TypeOK, Places, Behind
  <2>2. after'[j] = after[j] /\ after[j] \subseteq Jobs
    BY <1>0, <2>1, AfterMoves DEF TypeOK
  <2> QED BY <2>1, <2>2, EndsForGood DEF AllEndedWell
<1>2. ASSUME NEW j \in Jobs, StartsBy(j) PROVE Behind'
  <2>1. started' = started \cup {j} /\ AllEndedWell(j) /\ UNCHANGED after
    BY <1>2 DEF StartsBy, Starts, beside, callers
  <2>2. after[j] \subseteq Jobs
    BY <1>0 DEF TypeOK
  <2>3. AllEndedWell(j)'
    BY <2>1, <2>2, EndsForGood DEF AllEndedWell
  <2> QED BY <1>1, <2>1, <2>3 DEF Behind
<1>3. CASE UNCHANGED started
  BY <1>1, <1>3 DEF Behind
<1>4. ASSUME NEW j \in Jobs, Registers(j) \/ WaitsBy(j) PROVE UNCHANGED started
  BY <1>4 DEF Registers, WaitsBy, loopState
<1>5. ASSUME NEW j \in Jobs, NEW how \in Ended, NEW later \in Seq(CallItems), EndsBy(j, how, later)
      PROVE  UNCHANGED started
  BY <1>5 DEF EndsBy, Finishes
<1> QED BY MovesOrStays, <1>2, <1>3, <1>4, <1>5 DEF Stays

-----------------------------------------------------------------------------
(* What waits for the loop *)

\* What a step may put into the events.
IsPut(e) ==
  \/ \E j \in Jobs : e = OfJob("submit", j) /\ Submits(j)
  \/ \E j \in Jobs : e = Item("stop", j, "canceled") /\ Cancel(j)
  \/ \E j \in Jobs, how \in {"ok", "raised"} :
       /\ e = Item("finished", j, how) /\ RunFinish /\ j = Head(deliveries).job
       /\ ran' = [ran EXCEPT ![j] = how]
  \/ \E op \in {"noted", "detach", "told", "close", "end"} :
       e = Bare(op) /\ UNCHANGED ran /\ (op = "detach" => DetachBegins) /\ (op = "told" => DetachSettles)

\* The events are what they were, from this one on, but for one that is put behind them.
From(d) ==
  /\ \A k \in DOMAIN events' :
       /\ k \in Nat
       /\ \/ k + d \in DOMAIN events /\ events'[k] = events[k + d]
          \/ k = Len(events) + 1 /\ d = 0 /\ IsPut(events'[k])
  /\ \A k \in DOMAIN events : k > d =>
       k - d \in Nat /\ k - d \in DOMAIN events' /\ events'[k - d] = events[k]

\* The events go on in their order, and new ones stand last.
LEMMA EventsMove ==
  ASSUME Order, Next
  PROVE  From(0) \/ (From(1) /\ calls = <<>>)
<1>0. events \in Seq(EventItems) /\ DOMAIN events = 1 .. Len(events) /\ Len(events) \in Nat
  <2>1. events \in Seq(EventItems)
    BY QueuesHold DEF Order
  <2> QED BY <2>1
<1>1. ASSUME NEW e \in EventItems, events' = Append(events, e), IsPut(e) PROVE From(0)
  <2>1. /\ DOMAIN events' = 1 .. Len(events) + 1 /\ events'[Len(events) + 1] = e
        /\ \A k \in DOMAIN events' : k # Len(events) + 1 => k \in DOMAIN events /\ events'[k] = events[k]
    BY <1>0, <1>1, AppendIs
  <2>2. \A k \in DOMAIN events : k \in Nat /\ k - 0 = k /\ k \in DOMAIN events' /\ k # Len(events) + 1
    BY <1>0, <2>1
  <2>3. \A k \in DOMAIN events' : k \in Nat /\ k + 0 = k
    BY <1>0, <2>1
  <2>4. \A k \in DOMAIN events' :
          \/ k \in DOMAIN events /\ events'[k] = events[k]
          \/ k = Len(events) + 1 /\ IsPut(events'[k])
    BY <1>1, <2>1
  <2> QED BY <2>1, <2>2, <2>3, <2>4 DEF From
<1>2. ASSUME events # <<>>, events' = Tail(events) PROVE From(1)
  <2>1. /\ DOMAIN events' = 1 .. Len(events) - 1
        /\ \A k \in DOMAIN events' : k + 1 \in DOMAIN events /\ events'[k] = events[k + 1]
    BY <1>0, <1>2, TailIs
  <2>2. \A k \in DOMAIN events : k > 1 => k - 1 \in Nat /\ k - 1 \in DOMAIN events' /\ k - 1 + 1 = k
    BY <1>0, <2>1
  <2>3. \A k \in DOMAIN events' : k \in Nat
    BY <1>0, <2>1
  <2> QED BY <2>1, <2>2, <2>3 DEF From
<1>3. ASSUME UNCHANGED events PROVE From(0)
  <2>1. \A k \in DOMAIN events : k \in Nat /\ k + 0 = k /\ k - 0 = k
    BY <1>0
  <2> QED BY <1>3, <2>1 DEF From
<1>4. ASSUME NEW j \in Jobs, SubmitBegins(j) \/ Registers(j) \/ Records(j) \/ CallsBack(j) PROVE UNCHANGED events
  BY <1>4 DEF SubmitBegins, Registers, Records, CallsBack
<1>5. ASSUME NEW j \in Jobs, Submits(j) PROVE From(0)
  <2>1. events' = Append(events, OfJob("submit", j))
    BY <1>5 DEF Submits, Tell
  <2>2. IsPut(OfJob("submit", j)) /\ OfJob("submit", j) \in EventItems
    BY <1>5, EventsIn DEF IsPut
  <2> QED BY <1>1, <2>1, <2>2
<1>6. ASSUME NEW j \in Jobs, Cancel(j) PROVE From(0)
  <2>1. events' = Append(events, Item("stop", j, "canceled"))
    BY <1>6 DEF Cancel, Tell
  <2>2. IsPut(Item("stop", j, "canceled")) /\ Item("stop", j, "canceled") \in EventItems
    BY <1>6, EventsIn DEF IsPut
  <2> QED BY <1>1, <2>1, <2>2
<1>7. ASSUME NEW op \in {"noted", "detach", "told", "close", "end"}, events' = Append(events, Bare(op)),
             UNCHANGED ran, op = "detach" => DetachBegins, op = "told" => DetachSettles
      PROVE  From(0)
  <2>1. IsPut(Bare(op)) /\ Bare(op) \in EventItems
    BY <1>7, BareIn DEF IsPut
  <2> QED BY <1>1, <1>7, <2>1
<1>8. CASE Owns
  BY <1>3, <1>7, <1>8 DEF Owns, ofOthers
<1>9. ASSUME NEW j \in Jobs, NEW how \in Ended, NEW later \in Seq(CallItems), EndsBy(j, how, later)
      PROVE  From(0) \/ (From(1) /\ calls = <<>>)
  BY <1>2, <1>3, <1>9 DEF EndsBy, Drains
<1>10. ASSUME NEW j \in Jobs, StartsBy(j) \/ WaitsBy(j)
       PROVE  From(0) \/ (From(1) /\ calls = <<>>)
  BY <1>2, <1>3, <1>10 DEF StartsBy, WaitsBy
<1>11. CASE SkipsCall \/ Rest \/ TellDetached
  BY <1>3, <1>11 DEF SkipsCall, Rest, TellDetached
<1>12. CASE Takes \/ OnStop \/ OnDetach \/ OnClose
  BY <1>2, <1>12 DEF Takes, OnStop, OnDetach, OnClose, Hears, LoopFree
<1>13. CASE Told \/ Leaves \/ Noted \/ LetsGo
  BY <1>3, <1>13 DEF Told, Leaves, Noted, LetsGo
<1>14. CASE RunFinish
  <2>1. PICK how \in {"ok", "raised"} :
          /\ ran' = [ran EXCEPT ![Head(deliveries).job] = how]
          /\ events' = Append(events, Item("finished", Head(deliveries).job, how))
    BY <1>14 DEF RunFinish, Tell
  <2>2. PICK j \in Jobs : j = Head(deliveries).job
    BY <1>14, FirstDelivery DEF RunFinish
  <2>3. IsPut(Item("finished", j, how)) /\ Item("finished", j, how) \in EventItems
    BY <1>14, <2>1, <2>2, EventsIn DEF IsPut
  <2> QED BY <1>1, <2>1, <2>2, <2>3
<1>15. CASE Announce
  BY <1>3, <1>7, <1>15 DEF Announce, Tell
<1> QED BY StepIsOfKind, <1>3, <1>4, <1>5, <1>6, <1>8, <1>9, <1>10, <1>11, <1>12, <1>13, <1>14, <1>15
        DEF Kinds, Delivery

\* What arrives did so before, one place further on, or has just been told of.
LEMMA ArrivesMove ==
  ASSUME Order, Next
  PROVE  \E d \in {0, 1} :
           /\ From(d)
           /\ \A j \in Jobs, k \in Nat : Arrives(k, j)' =>
                \/ Arrives(k + d, j)
                \/ k = Len(events) + 1 /\ d = 0 /\ Submits(j)
<1>1. PICK d \in {0, 1} : From(d)
  BY EventsMove
<1>2. ASSUME NEW j \in Jobs, NEW k \in Nat, Arrives(k, j)'
      PROVE  \/ Arrives(k + d, j)
             \/ k = Len(events) + 1 /\ d = 0 /\ Submits(j)
  <2>1. k \in DOMAIN events' /\ events'[k].op = "submit" /\ events'[k].job = j
    BY <1>2 DEF Arrives
  <2>2. CASE k + d \in DOMAIN events /\ events'[k] = events[k + d]
    BY <2>1, <2>2 DEF Arrives
  <2>3. CASE k = Len(events) + 1 /\ d = 0 /\ IsPut(events'[k])
    BY <2>1, <2>3, ItemIs, OfJobIs, BareIs DEF IsPut
  <2> QED BY <1>1, <2>1, <2>2, <2>3 DEF From
<1> QED BY <1>1, <1>2

\* Who the loop heard of stays so, and it hears of a job when its turn is come.
LEMMA HeardMoves ==
  ASSUME Order, Next, NEW j \in Jobs
  PROVE  /\ Unheard(j)' => Unheard(j)
         /\ Unheard(j) /\ ~Unheard(j)' => j \in queued /\ Arrives(1, j)
<1>0. events \in Seq(EventItems) /\ events' \in Seq(EventItems) /\ DOMAIN events = 1 .. Len(events) /\ Len(events) \in Nat
  <2>1. events \in Seq(EventItems) /\ events' \in Seq(EventItems)
    BY QueuesHold, TypeStep DEF Order, TypeOK, EventItems
  <2> QED BY <2>1
<1>1. PICK d \in {0, 1} :
        /\ From(d)
        /\ \A i \in Jobs, k \in Nat : Arrives(k, i)' =>
             \/ Arrives(k + d, i)
             \/ k = Len(events) + 1 /\ d = 0 /\ Submits(i)
  BY ArrivesMove
<1>2. UNCHANGED queued \/ \E i \in Jobs : Submits(i) /\ queued' = queued \cup {i}
  BY QueuedMoves
<1>3. Submits(j) => j \notin queued
  BY DEF Submits
<1>4. ASSUME Unheard(j)' PROVE Unheard(j)
  <2>1. CASE j \notin queued'
    BY <1>0, <1>2, <2>1, UnheardIs
  <2>2. ASSUME NEW k \in Nat, Arrives(k, j)' PROVE Unheard(j)
    <3>1. Arrives(k + d, j) \/ Submits(j)
      BY <1>1, <2>2
    <3>2. k + d \in Nat
      BY <1>1
    <3> QED BY <1>0, <1>3, <3>1, <3>2, UnheardIs
  <2> QED BY <1>0, <1>4, <2>1, <2>2, UnheardIsThen
<1>5. ASSUME Unheard(j), ~Unheard(j)' PROVE j \in queued /\ Arrives(1, j)
  <2>1. j \in queued' /\ \A k \in Nat : ~Arrives(k, j)'
    BY <1>0, <1>5, UnheardIsThen
  <2>2. j \in queued
    <3>1. SUFFICES ASSUME Submits(j) PROVE FALSE
      BY <1>2, <2>1
    <3>2. events' = Append(events, OfJob("submit", j))
      BY <3>1 DEF Submits, Tell
    <3>3. Len(events) + 1 \in DOMAIN events' /\ events'[Len(events) + 1] = OfJob("submit", j) /\ Len(events) + 1 \in Nat
      BY <1>0, <3>2, EventsIn, AppendIs
    <3> QED BY <2>1, <3>3, OfJobIs DEF Arrives
  <2>3. PICK k \in Nat : Arrives(k, j)
    BY <1>0, <1>5, <2>2, UnheardIs
  <2>4. CASE k > d
    <3>1. k - d \in Nat /\ Arrives(k - d, j)'
      BY <1>1, <2>3, <2>4 DEF Arrives, From
    <3> QED BY <2>1, <3>1
  <2>5. CASE ~(k > d)
    <3>1. k \in DOMAIN events
      BY <2>3 DEF Arrives
    <3>2. k = 1
      BY <1>0, <1>1, <2>5, <3>1
    <3> QED BY <2>2, <2>3, <3>2
  <2> QED BY <2>4, <2>5
<1> QED BY <1>4, <1>5

\* Who is new is registered by its own `submit`.
LEMMA NewMoves ==
  ASSUME Order, Next, NEW j \in Jobs, status[j] = "new"
  PROVE  status'[j] = "new" \/ Registers(j)
<1>0. TypeOK
  BY DEF Order
<1>1. ASSUME NEW i \in Jobs, Registers(i), ~Registers(j) PROVE status'[j] = "new"
  BY <1>0, <1>1 DEF Registers, TypeOK
<1>2. ASSUME NEW i \in Jobs, NEW how \in Ended, NEW later \in Seq(CallItems), EndsBy(i, how, later)
      PROVE  status'[j] = "new"
  BY <1>0, <1>2 DEF EndsBy, Finishes, TypeOK
<1>3. ASSUME NEW i \in Jobs, StartsBy(i) PROVE status'[j] = "new"
  BY <1>0, <1>3 DEF StartsBy, Starts, TypeOK, Alive, Badly, Ended
<1>4. ASSUME NEW i \in Jobs, WaitsBy(i) PROVE status'[j] = "new"
  BY <1>4 DEF WaitsBy
<1> QED BY MovesOrStays, <1>1, <1>2, <1>3, <1>4 DEF Stays

\* Who is in `submit`.
LEMMA SubmittingMoves ==
  ASSUME Order, Next
  PROVE  \/ UNCHANGED submitting
         \/ \E j \in Jobs : SubmitBegins(j) /\ submitting' = {j} /\ submitting = {}
         \/ \E j \in Jobs : Records(j) /\ submitting' = {} /\ submitting = {j} /\ j \in queued
<1>0. TablesNoted /\ TypeOK
  BY DEF Order
<1>1. ASSUME NEW j \in Jobs, Registers(j) \/ Submits(j) \/ Cancel(j) \/ CallsBack(j)
      PROVE  UNCHANGED submitting
  BY <1>1 DEF Registers, Submits, Cancel, CallsBack, callers
<1>2. ASSUME NEW j \in Jobs, SubmitBegins(j) PROVE submitting' = {j} /\ submitting = {}
  BY <1>2 DEF SubmitBegins
<1>3. Owns \/ SkipsCall \/ Rest \/ TellDetached \/ Takes \/ OnStop \/ OnDetach \/ OnClose => UNCHANGED submitting
  BY DEF Owns, SkipsCall, Rest, TellDetached, Takes, OnStop, OnDetach, OnClose, notLoop, ofOthers, beside, callers
<1>4. Delivery => UNCHANGED submitting
  BY DEF Delivery, Told, Leaves, RunFinish, Announce, Announces, Noted, LetsGo, notDelivery, callers
<1>5. ASSUME NEW j \in Jobs, NEW how \in Ended, NEW later \in Seq(CallItems), EndsBy(j, how, later)
      PROVE  UNCHANGED submitting
  BY <1>5 DEF EndsBy, beside, callers
<1>6. ASSUME NEW j \in Jobs, StartsBy(j) \/ WaitsBy(j) PROVE UNCHANGED submitting
  BY <1>6 DEF StartsBy, WaitsBy, beside, callers
<1>7. ASSUME NEW j \in Jobs, Records(j)
      PROVE  submitting' = {} /\ submitting = {j} /\ j \in queued
  <2>1. j \in submitting /\ \A i \in submitting : i = j
    BY <1>0, <1>7 DEF Records, TablesNoted, TypeOK
  <2> QED BY <1>7, <2>1 DEF Records
<1> QED BY StepIsOfKind, <1>1, <1>2, <1>3, <1>4, <1>5, <1>6, <1>7 DEF Kinds

\* A job the loop has yet to hear of is left alone, or ended early.
LEMMA FreshStep ==
  ASSUME Order, Next
  PROVE  Fresh'
<1>0. TypeOK /\ Places /\ Fresh
  BY DEF Order, Arrivals
<1> SUFFICES ASSUME NEW j \in Jobs, Unheard(j)', status'[j] # "new"
             PROVE  /\ status'[j] = AsRegistered(j)' \/ (j \in early' /\ status'[j] \in Badly)
                    /\ j \notin started' /\ j \notin waiting'
  BY DEF Fresh
<1>1. Unheard(j)
  BY HeardMoves
<1>2. CASE status[j] = "new"
  <2>1. Registers(j)
    BY <1>2, NewMoves
  <2>2. status' = [status EXCEPT ![j] = AsRegistered(j)] /\ UNCHANGED <<after, started, waiting>>
    BY <2>1 DEF Registers, loopState, AsRegistered, callers
  <2> QED BY <1>0, <1>2, <2>2 DEF TypeOK, Places, AsRegistered, Badly, Ended
<1>3. CASE status[j] # "new"
  <2>1. /\ status[j] = AsRegistered(j) \/ (j \in early /\ status[j] \in Badly)
        /\ j \notin started /\ j \notin waiting
    BY <1>0, <1>1, <1>3 DEF Fresh
  <2>2. AsRegistered(j)' = AsRegistered(j)
    BY <1>3, AfterMoves DEF AsRegistered
  <2>3. ASSUME NEW i \in Jobs, Registers(i)
        PROVE  status'[j] = status[j] /\ UNCHANGED <<started, waiting, early>>
    BY <1>0, <1>3, <2>3 DEF Registers, loopState, TypeOK
  <2>4. ASSUME NEW i \in Jobs, NEW how \in Ended, NEW later \in Seq(CallItems), EndsBy(i, how, later)
        PROVE  /\ started' = started /\ waiting' \subseteq waiting
               /\ (status'[j] = status[j] /\ early \subseteq early') \/ (status'[j] \in Badly /\ j \in early')
    <3>1. started' = started /\ waiting' \subseteq waiting /\ status' = [status EXCEPT ![i] = how] /\ early \subseteq early'
      BY <2>4 DEF EndsBy, Finishes
    <3>2. CASE i = j
      <4>1. how # "completed" \/ (calls = <<>> /\ j \notin early)
        BY <2>4, <3>2 DEF EndsBy
      <4>2. calls # <<>> /\ early' = early \cup {j}
        BY <1>1, <2>4, <3>2 DEF EndsBy
      <4> QED BY <1>0, <3>1, <3>2, <4>1, <4>2 DEF TypeOK, Badly
    <3> QED BY <1>0, <3>1, <3>2 DEF TypeOK
  <2>5. ASSUME NEW i \in Jobs, StartsBy(i)
        PROVE  status'[j] = status[j] /\ j \notin started' /\ waiting' \subseteq waiting /\ UNCHANGED early
    <3>1. i # j
      BY <2>5 DEF StartsBy
    <3> QED BY <1>0, <2>1, <2>5, <3>1 DEF StartsBy, Starts, TypeOK
  <2>6. ASSUME NEW i \in Jobs, WaitsBy(i)
        PROVE  status'[j] = status[j] /\ j \notin started' /\ j \notin waiting' /\ UNCHANGED early
    <3>1. i # j
      BY <2>6 DEF WaitsBy
    <3> QED BY <2>1, <2>6, <3>1 DEF WaitsBy
  <2>7. CASE Stays
    BY <2>1, <2>2, <2>7 DEF Stays
  <2> QED BY MovesOrStays, <2>1, <2>2, <2>3, <2>4, <2>5, <2>6, <2>7
<1> QED BY <1>2, <1>3

\* The jobs are told of in their order.
LEMMA LineStep ==
  ASSUME Order, Next
  PROVE  Line'
<1>0. TypeOK /\ Line /\ Jobs \subseteq Nat
  BY JobsAssumption DEF Order, Arrivals
<1>1. queued \subseteq queued'
  BY QueuedMoves
<1>2. ASSUME NEW j \in queued' PROVE status'[j] # "new"
  <2>1. j \in Jobs /\ status[j] # "new"
    BY <1>0, <1>2, QueuedMoves DEF Line, TypeOK, Submits
  <2> QED BY <2>1, EndsForGood
<1>3. ASSUME NEW j \in Jobs, status'[j] # "new", j \notin submitting' PROVE j \in queued'
  <2>1. CASE j \in submitting
    BY <1>1, <1>3, <2>1, SubmittingMoves
  <2>2. CASE j \notin submitting
    <3>1. status[j] # "new"
      BY <1>3, <2>2, NewMoves DEF Registers
    <3> QED BY <1>0, <1>1, <2>2, <3>1 DEF Line
  <2> QED BY <2>1, <2>2
<1>4. ASSUME NEW i \in Jobs, NEW j \in Jobs, i < j, status'[j] # "new" \/ j \in submitting' PROVE i \in queued'
  <2>1. CASE status[j] # "new" \/ j \in submitting
    BY <1>0, <1>1, <1>4, <2>1 DEF Line
  <2>2. CASE status[j] = "new" /\ j \notin submitting
    <3>1. j \in submitting'
      BY <1>4, <2>2, NewMoves DEF Registers
    <3>2. SubmitBegins(j) /\ submitting = {}
      BY <2>2, <3>1, SubmittingMoves
    <3>3. status[i] # "new"
      BY <1>4, <3>2 DEF SubmitBegins
    <3> QED BY <1>0, <1>1, <3>2, <3>3 DEF Line
  <2> QED BY <2>1, <2>2
<1> QED BY <1>2, <1>3, <1>4 DEF Line

\* A job arrives once, and behind those before it.
LEMMA ArrivalsStep ==
  ASSUME Order, Next
  PROVE  Arrivals'
<1>0. TypeOK /\ Places /\ Arrivals /\ Line /\ events \in Seq(EventItems) /\ Len(events) \in Nat
      /\ DOMAIN events = 1 .. Len(events) /\ Jobs \subseteq Nat
  <2>1. events \in Seq(EventItems)
    BY QueuesHold DEF Order
  <2>2. Len(events) \in Nat /\ DOMAIN events = 1 .. Len(events)
    BY <2>1
  <2>3. TypeOK /\ Places /\ Arrivals
    BY DEF Order
  <2>4. Line
    BY <2>3 DEF Arrivals
  <2>5. Jobs \subseteq Nat
    BY JobsAssumption DEF JobsAssumption
  <2> QED BY <2>1, <2>2, <2>3, <2>4, <2>5
<1>1. PICK d \in {0, 1} :
        /\ From(d)
        /\ \A i \in Jobs, k \in Nat : Arrives(k, i)' =>
             \/ Arrives(k + d, i)
             \/ k = Len(events) + 1 /\ d = 0 /\ Submits(i)
  BY ArrivesMove
<1>2. \A k, m \in Nat : k + d \in Nat /\ (k + d = m + d => k = m) /\ (m + d < k + d => m < k)
  BY <1>1
<1>3. ASSUME NEW j \in Jobs, Submits(j)
      PROVE  /\ status[j] # "new" /\ \A k \in Nat : ~Arrives(k, j)
             /\ j \notin queued /\ j \in queued'
  BY <1>0, <1>3 DEF Submits, Arrivals
<1>4. queued \subseteq queued'
  BY QueuedMoves
<1>5. ASSUME NEW j \in Jobs, NEW k \in Nat, Arrives(k, j)' PROVE j \in queued'
  <2>1. CASE Arrives(k + d, j)
    BY <1>0, <1>2, <1>4, <2>1 DEF Arrivals
  <2> QED BY <1>1, <1>3, <1>5, <2>1
<1>6. ASSUME NEW j \in Jobs, NEW k \in Nat, NEW m \in Nat, Arrives(k, j)', Arrives(m, j)'
      PROVE  k = m
  <2>1. CASE Submits(j)
    <3>1. k = Len(events) + 1 /\ m = Len(events) + 1
      BY <1>1, <1>2, <1>3, <1>6, <2>1
    <3> QED BY <3>1
  <2>2. CASE ~Submits(j)
    <3>1. Arrives(k + d, j) /\ Arrives(m + d, j) /\ k + d \in Nat /\ m + d \in Nat
      BY <1>1, <1>2, <1>6, <2>2
    <3>2. k + d = m + d
      BY <1>0, <3>1 DEF Arrivals
    <3> QED BY <1>2, <3>2
  <2> QED BY <2>1, <2>2
<1>7. ASSUME NEW i \in Jobs, NEW j \in Jobs, NEW k \in Nat, NEW m \in Nat, Arrives(k, i)', Arrives(m, j)', i < j
      PROVE  k < m
  <2>0. i # j
    BY <1>0, <1>7
  <2>1. CASE Arrives(k + d, i) /\ Arrives(m + d, j)
    <3>1. k + d < m + d /\ k + d \in Nat /\ m + d \in Nat
      BY <1>0, <1>2, <1>7, <2>1 DEF Arrivals
    <3> QED BY <1>2, <3>1
  <2>2. CASE Submits(i)
    <3>1. j \in queued
      BY <1>1, <1>2, <1>0, <1>7, <2>0, <2>2, QueuedMoves DEF Submits, Arrivals
    <3>2. i \in queued
      BY <1>0, <1>7, <3>1 DEF Line
    <3> QED BY <1>3, <2>2, <3>2
  <2>3. CASE Arrives(k + d, i) /\ m = Len(events) + 1 /\ d = 0
    <3>1. k \in DOMAIN events
      BY <2>3 DEF Arrives
    <3> QED BY <1>0, <2>3, <3>1
  <2> QED BY <1>1, <1>7, <2>1, <2>2, <2>3
<1>8. ASSUME NEW k \in DOMAIN events', events'[k].op = "stop", NEW j, j = events'[k].job
      PROVE  status'[j] # "new"
  <2>1. CASE k + d \in DOMAIN events /\ events'[k] = events[k + d]
    <3>1. j \in Jobs
      BY <1>8, <2>1 DEF Order, ItemsNameJobs
    <3>2. status[j] # "new"
      BY <1>0, <1>8, <2>1 DEF Arrivals
    <3> QED BY <3>1, <3>2, EndsForGood
  <2>2. CASE k = Len(events) + 1 /\ d = 0 /\ IsPut(events'[k])
    <3>1. PICK i \in Jobs : events'[k] = Item("stop", i, "canceled") /\ Cancel(i)
      BY <1>8, <2>2, ItemIs, OfJobIs, BareIs DEF IsPut
    <3>2. i = j
      BY <1>8, <3>1, ItemIs
    <3>3. j \in Jobs /\ j \in jobs /\ UNCHANGED status
      BY <3>1, <3>2 DEF Cancel
    <3> QED BY <1>0, <3>3 DEF Places
  <2> QED BY <1>1, <1>8, <2>1, <2>2 DEF From
<1>9. ASSUME NEW i \in Jobs, NEW j \in Jobs, i < j, Unheard(i)' PROVE Unheard(j)'
  <2>1. Unheard(i) /\ Unheard(j)
    BY <1>0, <1>9, HeardMoves DEF Arrivals
  <2>2. SUFFICES ASSUME ~Unheard(j)' PROVE FALSE
    OBVIOUS
  <2>3. j \in queued /\ Arrives(1, j)
    BY <2>1, <2>2, HeardMoves
  <2>4. i \in queued
    BY <1>0, <1>9, <2>3 DEF Line
  <2>5. PICK k \in Nat : Arrives(k, i)
    BY <1>0, <2>1, <2>4, UnheardIs
  <2>6. k < 1 /\ k \in DOMAIN events
    BY <1>0, <1>9, <2>3, <2>5 DEF Arrivals, Arrives
  <2> QED BY <1>0, <2>6
<1> QED BY FreshStep, LineStep, <1>5, <1>6, <1>7, <1>8, <1>9 DEF Arrivals

\* Who ended badly and is not to come back stays so, and whoever comes after it keeps doing so.
LEMMA GoneStays ==
  ASSUME Order, Next, NEW j \in Jobs, GoneBadly(j), status[j] # "new"
  PROVE  GoneBadly(j)'
<1>0. TypeOK /\ Places /\ Fresh
  BY DEF Order, Arrivals
<1>1. after'[j] = after[j] /\ after[j] \subseteq Jobs
  BY <1>0, AfterMoves DEF TypeOK
<1>2. PICK d \in after[j] : status[d] \in Badly /\ d \notin waiting /\ ~Unheard(d)
  BY DEF GoneBadly
<1>3. d \in Jobs /\ ~Unheard(d)' /\ status[d] \notin {"new", "running", "waiting"}
  BY <1>1, <1>2, HeardMoves DEF Badly, Ended
<1>4. ASSUME NEW i \in Jobs, Registers(i) PROVE status'[d] \in Badly /\ d \notin waiting'
  BY <1>0, <1>2, <1>3, <1>4 DEF Registers, loopState, TypeOK
<1>5. ASSUME NEW i \in Jobs, NEW how \in Ended, NEW later \in Seq(CallItems), EndsBy(i, how, later)
      PROVE  status'[d] \in Badly /\ d \notin waiting'
  <2>1. status' = [status EXCEPT ![i] = how] /\ waiting' \subseteq waiting
    BY <1>5 DEF EndsBy, Finishes
  <2>2. how = "completed" => i # d
    BY <1>0, <1>3, <1>5 DEF EndsBy, Places
  <2> QED BY <1>0, <1>2, <1>3, <2>1, <2>2 DEF TypeOK, Badly
<1>6. ASSUME NEW i \in Jobs, StartsBy(i) PROVE status'[d] \in Badly /\ d \notin waiting'
  <2>1. i # d
    BY <1>2, <1>6 DEF StartsBy
  <2> QED BY <1>0, <1>2, <1>3, <1>6, <2>1 DEF StartsBy, Starts, TypeOK
<1>7. ASSUME NEW i \in Jobs, WaitsBy(i) PROVE status'[d] \in Badly /\ d \notin waiting'
  <2>1. i # d
    BY <1>2, <1>7 DEF WaitsBy
  <2> QED BY <1>2, <1>7, <2>1 DEF WaitsBy
<1>8. status'[d] \in Badly /\ d \notin waiting'
  BY MovesOrStays, <1>2, <1>4, <1>5, <1>6, <1>7 DEF Stays
<1> QED BY <1>1, <1>2, <1>3, <1>8 DEF GoneBadly

-----------------------------------------------------------------------------
(* What the loop has left to do *)

\* A list of jobs to stop, with what comes after that.
ListsStops ==
  /\ calls = <<>> /\ events # <<>> /\ events' = Tail(events) /\ calls' \in Seq(CallItems)
  /\ UNCHANGED <<status, loopState, early, deliveries, at, looping, noted, told, callers, owning, registry, ran>>
  /\ \A k \in DOMAIN calls' :
       \/ calls'[k].op = "tell"
       \/ calls'[k].op = "stop" /\ calls'[k].job \in Jobs /\ status[calls'[k].job] # "new"

\* A list of jobs to stop holds jobs the loop knows.
LEMMA StopsAreListed ==
  ASSUME Order, OnStop \/ OnDetach \/ OnClose
  PROVE  ListsStops
<1>0. TypeOK /\ Places /\ calls \in Seq(CallItems) /\ events \in Seq(EventItems) /\ Arrivals
  BY QueuesHold DEF Order
<1>1. /\ calls = <<>> /\ events # <<>> /\ events' = Tail(events)
      /\ UNCHANGED <<status, loopState, early, deliveries, at, looping, noted, told, callers, owning, registry, ran>>
  BY DEF OnStop, OnDetach, OnClose, Hears, LoopFree, notLoop, callers, owning, registry
<1>2. CASE OnStop
  <2>1. Head(events).op = "stop" /\ calls' = <<[Head(events) EXCEPT !.op = "stop"]>>
    BY <1>2 DEF OnStop, Hears
  <2>2. PICK j \in Jobs : j = Head(events).job
    BY <1>1, <2>1, FirstEvent
  <2>3. status[j] # "new" /\ Head(events) \in EventItems
    BY <1>0, <1>1, <2>1, <2>2, FirstEvent
  <2>4. /\ [Head(events) EXCEPT !.op = "stop"].job = j /\ [Head(events) EXCEPT !.op = "stop"].op = "stop"
        /\ [Head(events) EXCEPT !.op = "stop"] \in CallItems
    BY <2>2, <2>3 DEF EventItems, CallItems, Items
  <2>5. DOMAIN calls' = {1} /\ calls'[1] = [Head(events) EXCEPT !.op = "stop"] /\ calls' \in Seq(CallItems)
    BY <2>1, <2>4
  <2> QED BY <1>1, <2>3, <2>4, <2>5 DEF ListsStops
<1>3. ASSUME NEW which \in SUBSET Jobs, NEW last \in Seq(CallItems), StopAll(which, last),
             \A i \in DOMAIN last : last[i].op = "tell"
      PROVE  ListsStops
  <2>1. PICK n \in Nat :
          /\ Len(calls') = n + Len(last)
          /\ \A k \in DOMAIN calls' :
               \/ /\ k <= n /\ calls'[k].op = "stop" /\ calls'[k].s = "interrupted"
                  /\ calls'[k].job \in which \cap (active \cup waiting)
               \/ k > n /\ k - n \in DOMAIN last /\ calls'[k] = last[k - n]
          /\ \A j \in which \cap (active \cup waiting) :
               \E k \in DOMAIN calls' : calls'[k].op = "stop" /\ calls'[k].job = j
    BY <1>0, <1>3, StopAllDoes
  <2>2. calls' \in Seq(CallItems)
    BY <1>0, <1>3, StopAllDoes
  <2>3. ASSUME NEW j \in active \cup waiting
        PROVE  j \in Jobs /\ status[j] # "new"
    BY <1>0 DEF TypeOK, Places, Badly, Ended
  <2> QED BY <1>1, <1>3, <2>1, <2>2, <2>3 DEF ListsStops
<1>4. CASE OnDetach
  <2>1. StopAll(Journaled, <<Bare("tell")>>) /\ Journaled \in SUBSET Jobs
    BY <1>4, JobsAssumption DEF OnDetach
  <2>2. <<Bare("tell")>> \in Seq(CallItems) /\ \A i \in DOMAIN <<Bare("tell")>> : <<Bare("tell")>>[i].op = "tell"
    BY BareIn, BareIs
  <2> QED BY <1>3, <2>1, <2>2
<1>5. CASE OnClose
  <2>1. StopAll(Jobs, <<>>) /\ <<>> \in Seq(CallItems) /\ \A i \in DOMAIN <<>> : <<>>[i].op = "tell"
    BY <1>5 DEF OnClose
  <2> QED BY <1>3, <2>1
<1> QED BY <1>2, <1>4, <1>5

\* The calls left to do: none; the ones behind the first; those a job that ends adds; or new ones.
LEMMA CallsMove ==
  ASSUME Order, Next
  PROVE  \/ calls = <<>> /\ calls' = <<>>
         \/ calls # <<>> /\ calls' = Tail(calls) /\ UNCHANGED events /\ (Stays \/ \E j \in Jobs : StartsBy(j))
         \/ \E j \in Jobs, how \in Ended, later \in Seq(CallItems) : EndsBy(j, how, later)
         \/ \E j \in Jobs : WaitsBy(j)
         \/ ListsStops
<1>1. ASSUME NEW j \in Jobs,
             SubmitBegins(j) \/ Registers(j) \/ Submits(j) \/ Records(j) \/ Cancel(j) \/ CallsBack(j)
      PROVE  UNCHANGED calls
  BY <1>1 DEF SubmitBegins, Registers, Submits, Records, Cancel, CallsBack
<1>3. CASE SkipsCall \/ Rest \/ TellDetached
  BY <1>3 DEF SkipsCall, Rest, TellDetached, Stays, loopState, notLoop, registry, beside
<1>4. ASSUME NEW j \in Jobs, StartsBy(j)
      PROVE  (calls = <<>> /\ calls' = <<>>) \/ (calls # <<>> /\ calls' = Tail(calls) /\ UNCHANGED events)
  BY <1>4 DEF StartsBy
<1>6. CASE Owns \/ Takes \/ (calls = <<>> /\ Delivery)
  BY <1>6 DEF Owns, ofOthers, Takes, Delivery, Told, Leaves, RunFinish, Announce, Noted, LetsGo, notDelivery
<1> QED BY StepIsOfKind, StopsAreListed, <1>1, <1>3, <1>4, <1>6 DEF Kinds

\* The calls left to do when a job ends: looks at those that come after it, each once, the rest
\* of its end, and what there was behind the first call.
LEMMA EndsLists ==
  ASSUME Order, NEW j \in Jobs, NEW how \in Ended, NEW later \in Seq(CallItems), EndsBy(j, how, later)
  PROVE  \E n \in DOMAIN calls' :
           /\ n \in Nat /\ \A k \in DOMAIN calls' : k \in Nat
           /\ DOMAIN calls' = 1 .. Len(calls') /\ (calls # <<>> => Len(calls') = n + Len(calls) - 1)
           /\ \A k \in DOMAIN calls' :
                \/ k < n /\ calls'[k].op = "look" /\ calls'[k].job \in waiting' /\ j \in after[calls'[k].job]
                \/ k = n /\ calls'[k].op = "rest" /\ calls'[k].job = j
                \/ /\ k > n /\ k - n \in Nat /\ k - n + 1 \in DOMAIN calls /\ calls'[k] = calls[k - n + 1]
                   /\ calls # <<>> /\ UNCHANGED events
           /\ \A k, m \in DOMAIN calls' : k < n /\ m < n /\ calls'[k].job = calls'[m].job => k = m
<1>0. TypeOK /\ Places /\ calls \in Seq(CallItems)
  BY QueuesHold DEF Order
<1>1. calls' \in Seq(CallItems)
  BY <1>0, FinishesDoes DEF EndsBy
<1>2. PICK n \in DOMAIN calls' :
        /\ Len(calls') = n + Len(later)
        /\ \A k \in DOMAIN calls' :
             \/ /\ k < n /\ calls'[k].op = "look"
                /\ calls'[k].job \in waiting' /\ j \in after[calls'[k].job]
             \/ k = n /\ calls'[k] = OfJob("rest", j)
             \/ k > n /\ k - n \in DOMAIN later /\ calls'[k] = later[k - n]
        /\ \A k, m \in DOMAIN calls' : k < n /\ m < n /\ calls'[k].job = calls'[m].job => k = m
  BY <1>0, FinishesDoes DEF EndsBy
<1>3. n \in Nat /\ \A k \in DOMAIN calls' : k \in Nat
  BY <1>1
<1>4. ASSUME NEW k \in DOMAIN later
      PROVE  calls # <<>> /\ UNCHANGED events /\ later = Tail(calls) /\ k \in Nat
  BY <1>0, <1>4 DEF EndsBy
<1>5. ASSUME NEW k \in DOMAIN calls'
      PROVE  \/ k < n /\ calls'[k].op = "look" /\ calls'[k].job \in waiting' /\ j \in after[calls'[k].job]
             \/ k = n /\ calls'[k].op = "rest" /\ calls'[k].job = j
             \/ /\ k > n /\ k - n \in Nat /\ k - n + 1 \in DOMAIN calls /\ calls'[k] = calls[k - n + 1]
                /\ calls # <<>> /\ UNCHANGED events
  <2>1. CASE k > n /\ k - n \in DOMAIN later /\ calls'[k] = later[k - n]
    <3> DEFINE m == k - n
    <3>1. m \in DOMAIN later /\ calls'[k] = later[m]
      BY <2>1
    <3> HIDE DEF m
    <3>2. calls # <<>> /\ UNCHANGED events /\ m \in Nat /\ later = Tail(calls)
      BY <1>4, <3>1
    <3>3. m + 1 \in DOMAIN calls /\ later[m] = calls[m + 1]
      BY <1>0, <3>1, <3>2, TailIs
    <3> QED BY <2>1, <3>1, <3>2, <3>3 DEF m
  <2> QED BY <1>2, <2>1, OfJobIs
<1>6. DOMAIN calls' = 1 .. Len(calls') /\ (calls # <<>> => Len(calls') = n + Len(calls) - 1)
  <2>1. DOMAIN calls' = 1 .. Len(calls')
    BY <1>1
  <2>2. ASSUME calls # <<>> PROVE Len(calls') = n + Len(calls) - 1
    <3>1. later = Tail(calls)
      BY <2>2 DEF EndsBy
    <3>2. Len(later) = Len(calls) - 1 /\ Len(calls) \in Nat
      BY <1>0, <2>2, <3>1, TailIs
    <3> QED BY <1>2, <1>3, <3>2
  <2> QED BY <2>1, <2>2
<1> QED BY <1>2, <1>3, <1>5, <1>6

\* The calls stay apart as the invariant has it.
LEMMA FramesStep ==
  ASSUME Order, Next
  PROVE  Frames'
<1>0. TypeOK /\ Places /\ Frames /\ Arrivals /\ Fresh /\ calls \in Seq(CallItems) /\ Places' /\ Arrivals' /\ Fresh'
      /\ ItemsNameJobs /\ Len(calls) \in Nat /\ DOMAIN calls = 1 .. Len(calls)
  <2>1. calls \in Seq(CallItems)
    BY QueuesHold DEF Order
  <2> QED BY <2>1, PlacesStep, ArrivalsStep DEF Order, Arrivals
<1>1. CASE calls' = <<>>
  <2>1. DOMAIN calls' = {}
    BY <1>1
  <2> QED BY <2>1 DEF Frames, LooksAt
<1>2. ASSUME NEW k \in DOMAIN calls, calls[k].op # "tell"
      PROVE  calls[k].job \in Jobs /\ status'[calls[k].job] # "new"
  <2>1. calls[k].job \in Jobs
    BY <1>2 DEF Order, ItemsNameJobs
  <2>2. PICK j \in Jobs : j = calls[k].job
    BY <2>1
  <2>3. status[j] # "new"
    BY <1>0, <1>2, <2>2 DEF Frames
  <2> QED BY <2>2, <2>3, EndsForGood
<1>3. CASE calls # <<>> /\ calls' = Tail(calls) /\ UNCHANGED events /\ (Stays \/ \E j \in Jobs : StartsBy(j))
  <2>1. \A k \in DOMAIN calls' : k \in Nat /\ k > 0 /\ k + 1 \in DOMAIN calls /\ calls'[k] = calls[k + 1]
    BY <1>0, <1>3, TailIs
  <2>2. ASSUME NEW k \in DOMAIN calls', calls'[k].op # "tell"
        PROVE  calls'[k].job \in Jobs /\ status'[calls'[k].job] # "new"
    <3>1. PICK m \in DOMAIN calls : calls'[k] = calls[m]
      BY <2>1
    <3>2. calls[m].op # "tell"
      BY <2>2, <3>1
    <3>3. calls[m].job \in Jobs /\ status'[calls[m].job] # "new"
      BY <1>2, <3>2
    <3> QED BY <3>1, <3>3
  <2>3. ASSUME NEW j \in Jobs, NEW k \in Nat, LooksAt(k, j)' PROVE LooksAt(k + 1, j) /\ k + 1 \in Nat /\ k + 1 # 1
    BY <2>1, <2>3 DEF LooksAt
  <2>4. ASSUME NEW j \in Jobs, NEW k \in Nat, LooksAt(k, j)' PROVE ~Unheard(j)' /\ (j \in waiting' \/ GoneBadly(j)')
    <3>1. status[j] # "new"
      BY <1>0, <2>3, <2>4 DEF Frames, LooksAt
    <3>4. ~Unheard(j)'
      BY <1>0, <2>3, <2>4, HeardMoves DEF Frames
    <3>2. CASE GoneBadly(j)
      BY <3>1, <3>2, <3>4, GoneStays
    <3>3. CASE ~GoneBadly(j)
      <4>1. j \in waiting
        BY <1>0, <2>3, <2>4, <3>3 DEF Frames
      <4>2. ASSUME NEW i \in Jobs, StartsBy(i) PROVE j \in waiting'
        <5>1. waiting' = waiting \ {i} /\ LooksAt(1, i)
          BY <1>0, <1>3, <4>2, TailIs DEF StartsBy, Starts, LooksAt
        <5>2. CASE i = j
          <6>1. GoneBadly(j)
            BY <1>0, <2>3, <2>4, <5>1, <5>2 DEF Frames
          <6> QED BY <3>3, <6>1
        <5> QED BY <4>1, <5>1, <5>2
      <4> QED BY <1>3, <3>4, <4>1, <4>2 DEF Stays
    <3> QED BY <3>2, <3>3
  <2>5. ASSUME NEW j \in Jobs, NEW k \in Nat, NEW m \in Nat, LooksAt(k, j)', LooksAt(m, j)', k # m
        PROVE  GoneBadly(j)'
    <3>1. LooksAt(k + 1, j) /\ LooksAt(m + 1, j) /\ k + 1 # m + 1 /\ k + 1 \in Nat /\ m + 1 \in Nat
      BY <2>3, <2>5
    <3>2. GoneBadly(j) /\ status[j] # "new"
      BY <1>0, <3>1 DEF Frames, LooksAt
    <3> QED BY <3>2, GoneStays
  <2>6. ASSUME NEW k \in DOMAIN calls', NEW m \in DOMAIN calls', k < m, calls'[k].op \in {"stop", "tell"}
        PROVE  calls'[m].op # "look"
    <3>1. k + 1 \in DOMAIN calls /\ m + 1 \in DOMAIN calls /\ k + 1 < m + 1
      BY <2>1, <2>6
    <3> QED BY <1>0, <2>1, <2>6, <3>1 DEF Frames
  <2>8. \A k \in DOMAIN calls' : calls'[k].op # "tell" => status'[calls'[k].job] # "new"
    BY <2>2
  <2> QED BY <2>4, <2>5, <2>6, <2>8 DEF Frames
<1>4. ASSUME NEW j \in Jobs, NEW how \in Ended, NEW later \in Seq(CallItems), EndsBy(j, how, later)
      PROVE  Frames'
  <2>1. /\ status' = [status EXCEPT ![j] = how] /\ waiting' = waiting \ {j} /\ calls' \in Seq(CallItems)
        /\ UNCHANGED after
    BY <1>0, <1>4, FinishesDoes DEF EndsBy, beside, callers
  <2>2. PICK n \in DOMAIN calls' :
          /\ n \in Nat /\ \A k \in DOMAIN calls' : k \in Nat
          /\ \A k \in DOMAIN calls' :
               \/ k < n /\ calls'[k].op = "look" /\ calls'[k].job \in waiting' /\ j \in after[calls'[k].job]
               \/ k = n /\ calls'[k].op = "rest" /\ calls'[k].job = j
               \/ /\ k > n /\ k - n \in Nat /\ k - n + 1 \in DOMAIN calls /\ calls'[k] = calls[k - n + 1]
                  /\ calls # <<>> /\ UNCHANGED events
          /\ \A k, m \in DOMAIN calls' : k < n /\ m < n /\ calls'[k].job = calls'[m].job => k = m
    BY <1>4, EndsLists
  <2>3. n \in Nat /\ \A k \in DOMAIN calls' : k \in Nat
    BY <2>2
  <2>5. ASSUME NEW k \in DOMAIN calls'
        PROVE  \/ k < n /\ calls'[k].op = "look" /\ calls'[k].job \in waiting' /\ j \in after[calls'[k].job]
               \/ k = n /\ calls'[k].op = "rest" /\ calls'[k].job = j
               \/ /\ k > n /\ k - n \in Nat /\ k - n + 1 \in DOMAIN calls /\ calls'[k] = calls[k - n + 1]
                  /\ calls # <<>> /\ UNCHANGED events
    BY <2>2
  <2>6. waiting' \subseteq Jobs /\ \A o \in waiting' : status'[o] # "new" /\ ~Unheard(o)'
    <3>1. waiting' \subseteq Jobs /\ \A o \in waiting' : status'[o] # "new"
      BY <1>0, <2>1 DEF Places, TypeOK, Badly, Ended
    <3> QED BY <1>0, <3>1 DEF Fresh
  <2>7. how \notin {"new"}
    BY DEF Ended
  <2>8. ASSUME NEW k \in DOMAIN calls', calls'[k].op # "tell"
        PROVE  calls'[k].job \in Jobs /\ status'[calls'[k].job] # "new"
    <3>1. CASE k < n /\ calls'[k].job \in waiting'
      BY <2>6, <3>1
    <3>2. CASE k = n /\ calls'[k].job = j
      BY <1>0, <2>1, <2>7, <3>2 DEF TypeOK
    <3>3. CASE /\ k > n /\ k - n + 1 \in DOMAIN calls /\ calls'[k] = calls[k - n + 1] /\ UNCHANGED events
      <4> DEFINE m == k - n + 1
      <4>1. m \in DOMAIN calls /\ calls'[k] = calls[m] /\ UNCHANGED events /\ calls[m].op # "tell"
        BY <2>8, <3>3
      <4> HIDE DEF m
      <4> QED BY <1>2, <4>1
    <3> QED BY <2>5, <2>8, <3>1, <3>2, <3>3
  <2>10. \A k \in DOMAIN calls' : calls'[k].op # "tell" => status'[calls'[k].job] # "new"
    BY <2>8
  <2>11. calls # <<>> => how \in Badly
    BY <1>4 DEF EndsBy, Badly
  <2>12. ASSUME NEW i \in Jobs, NEW k \in Nat, LooksAt(k, i)'
         PROVE  \/ k < n /\ i \in waiting' /\ j \in after[i]
                \/ k > n /\ LooksAt(k - n + 1, i) /\ k - n + 1 \in Nat /\ k - n + 1 # 1 /\ calls # <<>>
    BY <2>3, <2>5, <2>12 DEF LooksAt
  <2>13. ASSUME NEW i \in Jobs, NEW k \in Nat, LooksAt(k, i), GoneBadly(i) PROVE GoneBadly(i)'
    <3>1. status[i] # "new"
      BY <1>0, <2>13 DEF Frames, LooksAt
    <3> QED BY <2>13, <3>1, GoneStays
  <2>18. ASSUME NEW i \in Jobs, NEW k \in Nat, LooksAt(k, i)' PROVE ~Unheard(i)'
    <3>1. CASE i \in waiting'
      BY <2>6, <3>1
    <3>2. CASE LooksAt(k - n + 1, i) /\ k - n + 1 \in Nat
      BY <1>0, <3>2, HeardMoves DEF Frames
    <3> QED BY <2>12, <2>18, <3>1, <3>2
  <2>14. ASSUME NEW i \in Jobs, NEW k \in Nat, LooksAt(k, i)' PROVE i \in waiting' \/ GoneBadly(i)'
    <3>1. CASE k > n /\ LooksAt(k - n + 1, i) /\ k - n + 1 \in Nat /\ k - n + 1 # 1 /\ calls # <<>> 
      <4> DEFINE m == k - n + 1
      <4>0. LooksAt(m, i) /\ m \in Nat /\ m # 1
        BY <3>1
      <4> HIDE DEF m
      <4>1. i \in waiting \/ GoneBadly(i)
        BY <1>0, <4>0 DEF Frames
      <4>2. CASE GoneBadly(i)
        BY <2>13, <4>0, <4>2
      <4>3. CASE i = j /\ ~GoneBadly(i)
        <5>1. Head(calls) = calls[1] /\ 1 \in DOMAIN calls /\ Head(calls).job = j
          BY <1>0, <1>4, <3>1, <4>3, TailIs DEF EndsBy
        <5>2. m \in DOMAIN calls /\ 1 < m /\ calls[m].op = "look"
          BY <1>0, <4>0 DEF LooksAt
        <5>3. Head(calls).op # "look"
          BY <1>0, <4>0, <4>3, <5>1 DEF Frames, LooksAt
        <5>4. Head(calls).op = "stop"
          BY <1>4, <3>1, <5>3 DEF EndsBy
        <5> QED BY <1>0, <5>1, <5>2, <5>4 DEF Frames
      <4>4. CASE i # j /\ i \in waiting
        BY <2>1, <4>4
      <4> QED BY <4>1, <4>2, <4>3, <4>4
    <3> QED BY <2>12, <2>14, <3>1
  <2>15. ASSUME NEW i \in Jobs, NEW k \in Nat, NEW m \in Nat, LooksAt(k, i)', LooksAt(m, i)', k # m
         PROVE  GoneBadly(i)'
    <3>1. CASE k < n /\ m < n
      BY <2>2, <2>15, <3>1 DEF LooksAt
    <3>2. CASE j \in after[i] /\ calls # <<>>
      <4>1. status'[j] \in Badly /\ j \notin waiting'
        BY <1>0, <2>1, <2>11, <3>2 DEF TypeOK
      <4>2. j < i
        BY <1>0, <3>2 DEF Order, TablesNoted
      <4>3. ~Unheard(j)'
        BY <1>0, <2>15, <2>18, <4>2 DEF Arrivals
      <4> QED BY <2>1, <3>2, <4>1, <4>3 DEF GoneBadly
    <3>3. CASE k > n /\ m > n
      <4> DEFINE a == k - n + 1
                 b == m - n + 1
      <4>1. LooksAt(a, i) /\ LooksAt(b, i) /\ a \in Nat /\ b \in Nat /\ a # b
        BY <2>3, <2>12, <2>15, <3>3
      <4> HIDE DEF a, b
      <4>2. GoneBadly(i)
        BY <1>0, <4>1 DEF Frames
      <4> QED BY <2>13, <4>1, <4>2
    <3> QED BY <2>3, <2>12, <2>15, <3>1, <3>2, <3>3
  <2>16. ASSUME NEW k \in DOMAIN calls', NEW m \in DOMAIN calls', k < m, calls'[k].op \in {"stop", "tell"}
         PROVE  calls'[m].op # "look"
    <3>1. k > n /\ m > n /\ k - n + 1 < m - n + 1
      BY <2>3, <2>5, <2>16
    <3>2. /\ k - n + 1 \in DOMAIN calls /\ m - n + 1 \in DOMAIN calls
          /\ calls'[k] = calls[k - n + 1] /\ calls'[m] = calls[m - n + 1]
      BY <2>3, <2>5, <3>1
    <3> QED BY <1>0, <2>16, <3>1, <3>2 DEF Frames
  <2> QED BY <2>10, <2>14, <2>15, <2>16, <2>18 DEF Frames
<1>5. ASSUME NEW j \in Jobs, WaitsBy(j) PROVE Frames'
  <2>1. DOMAIN calls' = {1} /\ calls'[1] = OfJob("look", j) /\ j \in waiting' /\ status'[j] # "new"
        /\ ~Unheard(j)'
    BY <1>5 DEF WaitsBy, Badly, Ended
  <2>2. calls'[1].op = "look" /\ calls'[1].job = j
    BY <2>1, OfJobIs
  <2>3. \A k \in DOMAIN calls' : calls'[k].op # "tell" => status'[calls'[k].job] # "new"
    BY <2>1, <2>2
  <2>4. \A i \in Jobs, k \in Nat : LooksAt(k, i)' => k = 1 /\ i = j
    BY <2>1, <2>2 DEF LooksAt
  <2>5. \A k, m \in DOMAIN calls' : ~(k < m)
    BY <2>1
  <2> QED BY <2>1, <2>3, <2>4, <2>5 DEF Frames
<1>6. CASE ListsStops
  <2>1. \A k \in DOMAIN calls' : calls'[k].op # "look"
    BY <1>6 DEF ListsStops
  <2>2. \A k \in DOMAIN calls' : calls'[k].op # "tell" => status'[calls'[k].job] # "new"
    BY <1>6 DEF ListsStops
  <2> QED BY <2>1, <2>2 DEF Frames, LooksAt
<1> QED BY CallsMove, <1>1, <1>3, <1>4, <1>5, <1>6

-----------------------------------------------------------------------------
(* What waits for the delivery thread *)

\* What a step may put behind the deliveries.
IsDelivered(e) ==
  \/ \E j \in Jobs : e = OfJob("finish", j) /\ CallsBack(j)
  \/ \E j \in Jobs : e = OfJob("announce", j) /\ Rest /\ calls # <<>> /\ Head(calls).job = j
  \/ e = Bare("told") /\ TellDetached
  \/ e = Bare("end")

\* The deliveries are what they were, from this one on, but for one that is put behind them.
Follow(d) ==
  /\ \A k \in DOMAIN deliveries' :
       /\ k \in Nat /\ k > 0
       /\ \/ k + d \in DOMAIN deliveries /\ deliveries'[k] = deliveries[k + d]
          \/ k = Len(deliveries) + 1 /\ d = 0 /\ IsDelivered(deliveries'[k])
  /\ \A k \in DOMAIN deliveries : k > d =>
       k - d \in Nat /\ k - d \in DOMAIN deliveries' /\ deliveries'[k - d] = deliveries[k]

\* What the delivery thread takes is the first.
LEMMA GetsFollow ==
  ASSUME Order, NEW op, Gets(op)
  PROVE  Follow(1) /\ Len(deliveries') = Len(deliveries) - 1
<1>0. deliveries \in Seq(DeliveryItems) /\ DOMAIN deliveries = 1 .. Len(deliveries) /\ Len(deliveries) \in Nat
  <2>1. deliveries \in Seq(DeliveryItems)
    BY QueuesHold DEF Order
  <2> QED BY <2>1
<1>1. /\ deliveries # <<>> /\ DOMAIN deliveries' = 1 .. Len(deliveries) - 1 /\ deliveries' = Tail(deliveries)
      /\ \A k \in DOMAIN deliveries' :
           k \in Nat /\ k + 1 \in DOMAIN deliveries /\ deliveries'[k] = deliveries[k + 1]
  BY FirstDelivery
<1>2. Len(deliveries') = Len(deliveries) - 1
  BY <1>0, <1>1, TailIs
<1>3. \A k \in DOMAIN deliveries : k > 1 => k - 1 \in Nat /\ k - 1 \in DOMAIN deliveries' /\ k - 1 + 1 = k
  BY <1>0, <1>1
<1>4. \A k \in DOMAIN deliveries' : k > 0
  BY <1>1
<1> QED BY <1>1, <1>2, <1>3, <1>4 DEF Follow

\* The thread takes the first of them, or one more may come behind them all.
LEMMA DeliveriesMove ==
  ASSUME Order, Next
  PROVE  \/ Follow(0) /\ UNCHANGED ran /\ ~RunFinish
            /\ (Len(deliveries') = Len(deliveries) \/ Len(deliveries') = Len(deliveries) + 1)
         \/ Follow(1) /\ calls = <<>> /\ (Told \/ Leaves \/ RunFinish \/ Announce)
            /\ Len(deliveries') = Len(deliveries) - 1
<1>0. deliveries \in Seq(DeliveryItems) /\ DOMAIN deliveries = 1 .. Len(deliveries) /\ Len(deliveries) \in Nat
  <2>1. deliveries \in Seq(DeliveryItems)
    BY QueuesHold DEF Order
  <2> QED BY <2>1
<1> DEFINE Grows == Len(deliveries') = Len(deliveries) \/ Len(deliveries') = Len(deliveries) + 1
<1>1. ASSUME NEW e \in DeliveryItems, deliveries' = Append(deliveries, e), IsDelivered(e)
      PROVE  Follow(0) /\ Grows
  <2>1. /\ DOMAIN deliveries' = 1 .. Len(deliveries) + 1 /\ Len(deliveries') = Len(deliveries) + 1
        /\ deliveries'[Len(deliveries) + 1] = e
        /\ \A k \in DOMAIN deliveries' :
             k # Len(deliveries) + 1 => k \in DOMAIN deliveries /\ deliveries'[k] = deliveries[k]
    BY <1>0, <1>1, AppendIs
  <2>2. \A k \in DOMAIN deliveries :
          k \in Nat /\ k - 0 = k /\ k \in DOMAIN deliveries' /\ k # Len(deliveries) + 1
    BY <1>0, <2>1
  <2>3. \A k \in DOMAIN deliveries' : k \in Nat /\ k > 0 /\ k + 0 = k
    BY <1>0, <2>1
  <2>4. \A k \in DOMAIN deliveries' :
          \/ k \in DOMAIN deliveries /\ deliveries'[k] = deliveries[k]
          \/ k = Len(deliveries) + 1 /\ IsDelivered(deliveries'[k])
    BY <1>1, <2>1
  <2> QED BY <2>1, <2>2, <2>3, <2>4 DEF Follow
<1>2. ASSUME NEW op, Gets(op) PROVE Follow(1) /\ Len(deliveries') = Len(deliveries) - 1
  BY <1>2, GetsFollow
<1>3. ASSUME UNCHANGED deliveries PROVE Follow(0) /\ Grows
  <2>1. \A k \in DOMAIN deliveries : k \in Nat /\ k > 0 /\ k + 0 = k /\ k - 0 = k
    BY <1>0
  <2> QED BY <1>3, <2>1 DEF Follow
<1>4. ASSUME UNCHANGED <<at, ran>> \/ UNCHANGED deliveries, RunFinish PROVE FALSE
  <2>1. deliveries \in Seq(DeliveryItems) /\ deliveries # <<>> /\ deliveries' = Tail(deliveries)
    BY <1>4, FirstDelivery DEF RunFinish
  <2>2. deliveries' # deliveries
    BY <2>1
  <2>3. PICK how \in {"ok", "raised"} : ran' = [ran EXCEPT ![Head(deliveries).job] = how]
    BY <1>4 DEF RunFinish
  <2>4. Head(deliveries).job \in Jobs /\ Head(deliveries) = deliveries[1] /\ deliveries[1].op = "finish"
        /\ 1 \in DOMAIN deliveries
    BY <1>4, FirstDelivery DEF RunFinish
  <2>5. ran[Head(deliveries).job] = "no"
    BY <2>4 DEF FinishOf, Order, Callbacks
  <2>6. ran' # ran
    BY <2>3, <2>4, <2>5 DEF Order, TypeOK
  <2> QED BY <1>4, <2>2, <2>6
<1> HIDE DEF Grows
<1>5. ASSUME NEW j \in Jobs, SubmitBegins(j) \/ Registers(j) \/ Submits(j) \/ Records(j) \/ Cancel(j)
      PROVE  UNCHANGED <<deliveries, ran>>
  BY <1>5 DEF SubmitBegins, Registers, Submits, Records, Cancel
<1>6. ASSUME NEW j \in Jobs, CallsBack(j) PROVE Follow(0) /\ Grows /\ UNCHANGED <<at, ran>>
  <2>1. IsDelivered(OfJob("finish", j)) /\ deliveries' = Append(deliveries, OfJob("finish", j))
    BY <1>6 DEF IsDelivered, CallsBack
  <2> QED BY <1>1, <1>6, <2>1, DeliveriesIn DEF CallsBack
<1>7. CASE Owns
  <2>1. IsDelivered(Bare("end"))
    BY DEF IsDelivered
  <2>2. Follow(0) /\ Grows
    BY <1>1, <1>3, <1>7, <2>1, BareIn DEF Owns
  <2>3. UNCHANGED <<at, ran>>
    BY <1>7 DEF Owns, ofOthers
  <2> QED BY <1>4, <2>2, <2>3 DEF Grows
<1>8. ASSUME NEW j \in Jobs, NEW how \in Ended, NEW later \in Seq(CallItems), EndsBy(j, how, later)
      PROVE  UNCHANGED <<deliveries, ran>>
  BY <1>8 DEF EndsBy, beside
<1>9. ASSUME NEW j \in Jobs, StartsBy(j) \/ WaitsBy(j) PROVE UNCHANGED <<deliveries, ran>>
  BY <1>9 DEF StartsBy, WaitsBy, beside
<1>10. CASE SkipsCall \/ Takes \/ OnStop \/ OnDetach \/ OnClose
  <2>1. UNCHANGED <<deliveries, ran>>
    BY <1>10 DEF SkipsCall, Takes, OnStop, OnDetach, OnClose, beside, notLoop
  <2> QED BY <1>3, <1>4, <2>1 DEF Grows
<1>11. CASE Rest
  <2>1. PICK j \in Jobs : j = Head(calls).job
    BY <1>11, FirstCall DEF Rest
  <2>2. IsDelivered(OfJob("announce", j)) /\ deliveries' = Append(deliveries, OfJob("announce", j))
    BY <1>11, <2>1 DEF IsDelivered, Rest, Deliver
  <2>3. Follow(0) /\ Grows /\ UNCHANGED <<at, ran>>
    BY <1>1, <1>11, <2>2, DeliveriesIn DEF Rest, notLoop
  <2> QED BY <1>4, <2>3 DEF Grows
<1>12. CASE TellDetached
  <2>1. IsDelivered(Bare("told")) /\ deliveries' = Append(deliveries, Bare("told"))
    BY <1>12 DEF IsDelivered, TellDetached, Deliver
  <2>2. Follow(0) /\ Grows /\ UNCHANGED <<at, ran>>
    BY <1>1, <1>12, <2>1, BareIn DEF TellDetached, notLoop
  <2> QED BY <1>4, <2>2 DEF Grows
<1>13. CASE calls = <<>> /\ (Told \/ Leaves \/ RunFinish \/ Announce)
  BY <1>2, <1>13 DEF Told, Leaves, RunFinish, Announce
<1>14. CASE Noted \/ LetsGo
  <2>1. UNCHANGED <<deliveries, ran>>
    BY <1>14 DEF Noted, LetsGo
  <2> QED BY <1>3, <1>4, <2>1 DEF Grows
<1>15. UNCHANGED <<deliveries, ran>> => Follow(0) /\ Grows /\ UNCHANGED ran /\ ~RunFinish
  BY <1>3, <1>4
<1> QED BY StepIsOfKind, <1>4, <1>5, <1>6, <1>7, <1>8, <1>9, <1>10, <1>11, <1>12, <1>13, <1>14, <1>15
        DEF Kinds, Delivery, Grows

\* `on_finish` returns, or raises, for the job the delivery thread comes to.
LEMMA RunFinishDoes ==
  ASSUME Order, RunFinish
  PROVE  \E j \in Jobs, how \in {"ok", "raised"} :
           /\ FinishOf(1, j) /\ ran[j] = "no" /\ j \in finishing
           /\ ran' = [ran EXCEPT ![j] = how]
           /\ UNCHANGED <<status, finishing>>
<1>1. PICK how \in {"ok", "raised"} : ran' = [ran EXCEPT ![Head(deliveries).job] = how]
  BY DEF RunFinish
<1>2. Head(deliveries).job \in Jobs /\ Head(deliveries) = deliveries[1] /\ deliveries[1].op = "finish"
      /\ 1 \in DOMAIN deliveries
  BY FirstDelivery DEF RunFinish
<1>3. PICK j \in Jobs : j = Head(deliveries).job
  BY <1>2
<1>4. FinishOf(1, j)
  BY <1>2, <1>3 DEF FinishOf
<1>5. ran[j] = "no" /\ j \in finishing
  BY <1>4 DEF Order, Callbacks
<1> QED BY <1>1, <1>3, <1>4, <1>5 DEF RunFinish, notDelivery, loopState

\* Who has its `on_finish` on its way keeps that.
LEMMA FinishingMoves ==
  ASSUME Order, Next
  PROVE  UNCHANGED finishing \/ \E j \in Jobs : CallsBack(j)
<1>1. ASSUME NEW j \in Jobs, SubmitBegins(j) \/ Registers(j) \/ Submits(j) \/ Records(j) \/ Cancel(j)
      PROVE  UNCHANGED finishing
  BY <1>1 DEF SubmitBegins, Registers, Submits, Records, Cancel, loopState
<1>2. CASE Owns \/ SkipsCall \/ Rest \/ TellDetached \/ Takes \/ OnStop \/ OnDetach \/ OnClose
  BY <1>2 DEF Owns, SkipsCall, Rest, TellDetached, Takes, OnStop, OnDetach, OnClose, notLoop, ofOthers, beside, loopState
<1>3. CASE Delivery
  BY <1>3 DEF Delivery, Told, Leaves, RunFinish, Announce, Noted, LetsGo, notDelivery, loopState
<1>4. ASSUME NEW j \in Jobs, NEW how \in Ended, NEW later \in Seq(CallItems), EndsBy(j, how, later)
      PROVE  UNCHANGED finishing
  BY <1>4 DEF EndsBy, Finishes
<1>5. ASSUME NEW j \in Jobs, StartsBy(j) \/ WaitsBy(j) PROVE UNCHANGED finishing
  BY <1>5 DEF StartsBy, WaitsBy, Starts
<1> QED BY StepIsOfKind, <1>1, <1>2, <1>3, <1>4, <1>5 DEF Kinds

\* What becomes of an `on_finish` is known once, and before the job completes.
LEMMA CallbacksStep ==
  ASSUME Order, Next
  PROVE  Callbacks'
<1>0. /\ TypeOK /\ Callbacks /\ ItemsNameJobs /\ deliveries \in Seq(DeliveryItems)
      /\ Len(deliveries) \in Nat /\ DOMAIN deliveries = 1 .. Len(deliveries)
  <2>1. deliveries \in Seq(DeliveryItems)
    BY QueuesHold DEF Order
  <2> QED BY <2>1 DEF Order
<1>1. PICK d \in {0, 1} : Follow(d) /\ (d = 0 => UNCHANGED ran)
  BY DeliveriesMove
<1>2. ASSUME NEW j \in Jobs, NEW k \in Nat, FinishOf(k, j)'
      PROVE  \/ FinishOf(k + d, j) /\ k + d \in Nat /\ (d = 1 => k + d # 1)
             \/ k = Len(deliveries) + 1 /\ d = 0 /\ CallsBack(j)
  <2>1. k \in DOMAIN deliveries' /\ deliveries'[k].op = "finish" /\ deliveries'[k].job = j /\ k > 0
    BY <1>1, <1>2 DEF FinishOf, Follow
  <2>2. CASE k + d \in DOMAIN deliveries /\ deliveries'[k] = deliveries[k + d]
    BY <1>1, <2>1, <2>2 DEF FinishOf
  <2>3. CASE k = Len(deliveries) + 1 /\ d = 0 /\ IsDelivered(deliveries'[k])
    BY <2>1, <2>3, OfJobIs, BareIs DEF IsDelivered
  <2> QED BY <1>1, <2>1, <2>2, <2>3 DEF Follow
<1>3. ASSUME NEW j \in Jobs, CallsBack(j)
      PROVE  /\ j \in finishing' /\ ran[j] = "no" /\ UNCHANGED ran /\ \A k \in Nat : ~FinishOf(k, j)
  BY <1>0, <1>3 DEF CallsBack, Callbacks
<1>4. finishing \subseteq finishing'
  BY FinishingMoves DEF CallsBack
<1>5. \/ UNCHANGED ran
      \/ /\ d = 1 /\ RunFinish
  BY <1>1, DeliveriesMove DEF Told, Leaves, Announce
<1>6. ASSUME NEW j \in Jobs, NEW k \in Nat, FinishOf(k, j)'
      PROVE  j \in finishing' /\ ran'[j] = "no"
  <2>1. CASE CallsBack(j)
    BY <1>3, <2>1
  <2>2. CASE FinishOf(k + d, j) /\ k + d \in Nat /\ (d = 1 => k + d # 1)
    <3>1. j \in finishing /\ ran[j] = "no"
      BY <1>0, <2>2 DEF Callbacks
    <3>2. CASE d = 1 /\ RunFinish
      <4>1. PICK i \in Jobs, how \in {"ok", "raised"} : FinishOf(1, i) /\ ran' = [ran EXCEPT ![i] = how]
        BY <3>2, RunFinishDoes
      <4>2. i # j
        BY <1>0, <2>2, <3>2, <4>1 DEF Callbacks
      <4> QED BY <1>0, <1>4, <3>1, <4>1, <4>2 DEF TypeOK
    <3> QED BY <1>4, <1>5, <3>1, <3>2
  <2> QED BY <1>2, <1>6, <2>1, <2>2
<1>7. ASSUME NEW j \in Jobs, NEW k \in Nat, NEW m \in Nat, FinishOf(k, j)', FinishOf(m, j)'
      PROVE  k = m
  <2>1. CASE CallsBack(j)
    BY <1>2, <1>3, <1>7, <2>1
  <2>2. CASE ~CallsBack(j)
    <3>1. FinishOf(k + d, j) /\ FinishOf(m + d, j) /\ k + d \in Nat /\ m + d \in Nat
      BY <1>2, <1>7, <2>2
    <3>2. k + d = m + d
      BY <1>0, <3>1 DEF Callbacks
    <3> QED BY <1>1, <3>2
  <2> QED BY <2>1, <2>2
<1>8. ASSUME NEW j \in Jobs, ran'[j] # ran[j] PROVE ran[j] = "no" /\ RunFinish /\ j \in finishing
  <2>1. RunFinish
    BY <1>5, <1>8
  <2>2. PICK i \in Jobs, how \in {"ok", "raised"} :
          i \in finishing /\ ran[i] = "no" /\ ran' = [ran EXCEPT ![i] = how]
    BY <2>1, RunFinishDoes
  <2>3. i = j
    BY <1>0, <1>8, <2>2 DEF TypeOK
  <2> QED BY <2>1, <2>2, <2>3
<1>9. ASSUME NEW k \in DOMAIN events', events'[k].op = "finished"
      PROVE  events'[k].job \in finishing' /\ ran'[events'[k].job] = events'[k].s
  <2>1. PICK e \in {0, 1} : From(e)
    BY EventsMove
  <2>2. CASE k + e \in DOMAIN events /\ events'[k] = events[k + e]
    <3>1. PICK m \in DOMAIN events : events'[k] = events[m]
      BY <2>2
    <3>2. PICK j \in Jobs : j = events[m].job
      BY <1>0, <1>9, <3>1 DEF ItemsNameJobs
    <3>3. j \in finishing /\ ran[j] = events[m].s /\ events[m].s \in {"ok", "raised"}
      BY <1>0, <1>9, <3>1, <3>2 DEF Callbacks, ItemsNameJobs
    <3>4. ran'[j] = ran[j]
      BY <1>8, <3>3
    <3> QED BY <1>4, <3>1, <3>2, <3>3, <3>4
  <2>3. CASE IsPut(events'[k])
    <3>1. PICK j \in Jobs, how \in {"ok", "raised"} :
            /\ events'[k] = Item("finished", j, how) /\ RunFinish /\ j = Head(deliveries).job
            /\ ran' = [ran EXCEPT ![j] = how]
      BY <1>9, <2>3, ItemIs, OfJobIs, BareIs DEF IsPut
    <3>2. events'[k].job = j /\ events'[k].s = how
      BY <3>1, ItemIs
    <3>3. ran'[j] = how
      BY <1>0, <3>1 DEF TypeOK
    <3>4. Head(deliveries) = deliveries[1] /\ deliveries[1].op = "finish" /\ 1 \in DOMAIN deliveries
      BY <3>1, FirstDelivery DEF RunFinish
    <3>5. FinishOf(1, j)
      BY <3>1, <3>4 DEF FinishOf
    <3>6. j \in finishing
      BY <1>0, <3>5 DEF Callbacks
    <3> QED BY <1>4, <3>2, <3>3, <3>6
  <2> QED BY <2>1, <2>2, <2>3 DEF From
<1>10. ASSUME NEW j \in Jobs, j \notin finishing' PROVE ran'[j] = "no"
  BY <1>0, <1>4, <1>8, <1>10 DEF Callbacks
<1>11. ASSUME NEW j \in HasFinish, status'[j] = "completed" PROVE ran'[j] = "ok"
  <2>1. j \in Jobs
    BY JobsAssumption DEF JobsAssumption
  <2>2. CASE status[j] = "completed"
    <3>1. ran[j] = "ok"
      BY <1>0, <2>2 DEF Callbacks
    <3> QED BY <1>8, <2>1, <3>1
  <2>3. CASE status[j] # "completed"
    <3>1. ASSUME NEW i \in Jobs, Registers(i) \/ StartsBy(i) \/ WaitsBy(i) PROVE FALSE
      BY <1>0, <1>11, <2>1, <2>3, <3>1 DEF Registers, StartsBy, WaitsBy, Starts, TypeOK
    <3>2. PICK i \in Jobs, how \in Ended, later \in Seq(CallItems) : EndsBy(i, how, later)
      BY <1>11, <2>3, <3>1, MovesOrStays DEF Stays
    <3>3. status' = [status EXCEPT ![i] = how] /\ UNCHANGED ran
      BY <3>2 DEF EndsBy, Finishes, beside
    <3>4. i = j /\ how = "completed"
      BY <1>0, <1>11, <2>1, <2>3, <3>3 DEF TypeOK
    <3> QED BY <3>2, <3>3, <3>4 DEF EndsBy
  <2> QED BY <2>2, <2>3
<1> QED BY <1>6, <1>7, <1>9, <1>10, <1>11 DEF Callbacks

-----------------------------------------------------------------------------
(* What the flow takes note of *)

\* Only `Flow.submit` and `on_terminal` write it.
LEMMA TablesMove ==
  ASSUME Order, Next
  PROVE  \/ \E j \in Jobs : SubmitBegins(j) \/ Registers(j) \/ Records(j)
         \/ /\ UNCHANGED <<asked, after, submitting>>
            /\ \A j \in Jobs : status'[j] = "new" <=> status[j] = "new"
            /\ UNCHANGED <<writing, announced>> \/ \E i \in Jobs : Terminal(i)
<1>0. TypeOK
  BY DEF Order
<1> DEFINE Same == \A j \in Jobs : status'[j] = "new" <=> status[j] = "new"
<1>1. ASSUME NEW j \in Jobs, Submits(j) \/ Cancel(j) \/ CallsBack(j)
      PROVE  UNCHANGED <<asked, after, submitting, status, writing, announced>>
  BY <1>1 DEF Submits, Cancel, CallsBack, callers, registry
<1>2. CASE Owns \/ SkipsCall \/ Rest \/ TellDetached \/ Takes \/ OnStop \/ OnDetach \/ OnClose
  BY <1>2 DEF Owns, SkipsCall, Rest, TellDetached, Takes, OnStop, OnDetach, OnClose, notLoop, ofOthers, beside,
              callers, registry
<1>3. CASE Delivery
  <2>1. UNCHANGED <<asked, after, submitting, status>>
    BY <1>3 DEF Delivery, Told, Leaves, RunFinish, Announce, Noted, LetsGo, notDelivery, callers
  <2>2. CASE Announce
    <3>1. Head(deliveries).job \in Jobs
      BY <2>2, FirstDelivery DEF Announce
    <3> QED BY <2>1, <2>2, <3>1 DEF Announce, Announces, registry
  <2>3. CASE Noted
    <3>1. at.job \in Jobs
      BY <2>3 DEF Order, ItemsNameJobs, Noted
    <3> QED BY <2>1, <2>3, <3>1 DEF Noted, Announces
  <2> QED BY <1>3, <2>1, <2>2, <2>3 DEF Delivery, Told, Leaves, RunFinish, LetsGo, registry
<1>4. ASSUME NEW j \in Jobs, NEW how \in Ended, NEW later \in Seq(CallItems), EndsBy(j, how, later)
      PROVE  UNCHANGED <<asked, after, submitting, writing, announced>> /\ Same
  <2>1. status' = [status EXCEPT ![j] = how] /\ status[j] # "new" /\ how # "new"
    BY <1>4 DEF EndsBy, Finishes, Ended
  <2> QED BY <1>0, <1>4, <2>1 DEF EndsBy, beside, callers, registry, TypeOK
<1>5. ASSUME NEW j \in Jobs, StartsBy(j) \/ WaitsBy(j)
      PROVE  UNCHANGED <<asked, after, submitting, writing, announced>> /\ Same
  BY <1>0, <1>5 DEF StartsBy, WaitsBy, Starts, beside, callers, registry, TypeOK, Alive, Badly, Ended
<1> QED BY StepIsOfKind, <1>1, <1>2, <1>3, <1>4, <1>5 DEF Kinds

\* Whoever reads a table comes after those that may still write it.
LEMMA TablesStep ==
  ASSUME Order, Next
  PROVE  TablesNoted'
<1>0. TypeOK /\ TablesNoted /\ Line /\ \A j \in Jobs : j \in Nat
  BY JobsAssumption DEF Order, Arrivals, JobsAssumption
<1>1. ASSUME NEW j \in Jobs, SubmitBegins(j) PROVE TablesNoted'
  <2>1. /\ status[j] = "new" /\ submitting = {} /\ \A i \in Jobs : i < j => status[i] # "new"
        /\ submitting' = {j} /\ after' = [after EXCEPT ![j] = asked[j].after \cup WritersFor(j)]
        /\ UNCHANGED <<asked, status, writing, announced>>
    BY <1>1 DEF SubmitBegins, registry
  <2>2. /\ after'[j] = asked[j].after \cup WritersFor(j)
        /\ \A i \in Jobs : i # j => after'[i] = after[i]
    BY <1>0, <2>1 DEF TypeOK
  <2>3. ASSUME NEW i \in Jobs, i < j, Writes[i] \cap asked[j].reads # {}
        PROVE  i \in after'[j] \/ announced[i] > 0
    <3>1. i \in writing \/ announced[i] > 0
      BY <1>0, <2>1, <2>3 DEF TablesNoted
    <3> QED BY <2>2, <2>3, <3>1 DEF WritersFor
  <2>4. ASSUME NEW d \in after'[j] PROVE d < j
    <3>1. CASE d \in asked[j].after
      BY <1>0, <3>1, JobsAssumption DEF TypeOK, JobsAssumption
    <3>2. CASE d \in writing
      <4>1. d \in Jobs /\ d # j /\ status[d] # "new"
        BY <1>0, <2>1, <3>2 DEF TablesNoted, TypeOK
      <4>2. ~(j < d)
        BY <1>0, <2>1, <4>1 DEF Line
      <4>3. j \in Nat /\ d \in Nat
        BY <1>0, <4>1
      <4> QED BY <4>1, <4>2, <4>3
    <3> QED BY <2>2, <2>4, <3>1, <3>2 DEF WritersFor
  <2> QED BY <1>0, <2>1, <2>2, <2>3, <2>4 DEF TablesNoted
<1>2. ASSUME NEW j \in Jobs, Registers(j) PROVE TablesNoted'
  <2>1. /\ j \in submitting /\ UNCHANGED <<asked, after, submitting, writing, announced>>
        /\ \A i \in Jobs : i # j => status'[i] = status[i]
        /\ status'[j] # "new"
    BY <1>0, <1>2 DEF Registers, callers, TypeOK
  <2> QED BY <1>0, <2>1 DEF TablesNoted, TypeOK
<1>3. ASSUME NEW j \in Jobs, Records(j) PROVE TablesNoted'
  <2>1. /\ j \in submitting /\ status[j] # "new" /\ writing' = writing \cup {j} /\ submitting' = {}
        /\ UNCHANGED <<asked, after, status, announced>>
    BY <1>0, <1>3 DEF Records, Line
  <2>2. submitting = {j}
    BY <1>0, <2>1 DEF TablesNoted, TypeOK
  <2> QED BY <1>0, <2>1, <2>2 DEF TablesNoted
<1>4. CASE /\ UNCHANGED <<asked, after, submitting>>
           /\ \A j \in Jobs : status'[j] = "new" <=> status[j] = "new"
           /\ UNCHANGED <<writing, announced>> \/ \E i \in Jobs : Terminal(i)
  <2>1. \A i \in Jobs : announced[i] > 0 => announced'[i] > 0
    BY <1>0, <1>4 DEF Terminal, TypeOK
  <2>2. \A i \in writing : i \in writing' \/ announced'[i] > 0
    BY <1>0, <1>4 DEF Terminal, TypeOK
  <2>3. \A i \in writing' : i \in Jobs /\ i \in writing
    BY <1>0, <1>4 DEF Terminal, TypeOK
  <2> QED BY <1>0, <1>4, <2>1, <2>2, <2>3 DEF TablesNoted
<1> QED BY TablesMove, <1>1, <1>2, <1>3, <1>4

-----------------------------------------------------------------------------
(* A job starts only behind the ones it comes after *)

\* Nothing is there at first.
LEMMA OrderInit == Init => Order
<1> SUFFICES ASSUME Init PROVE Order
  OBVIOUS
<1>1. calls = <<>> /\ events = <<>> /\ deliveries = <<>> /\ at = Nothing
  BY DEF Init
<1>2. DOMAIN calls = {} /\ DOMAIN events = {} /\ DOMAIN deliveries = {} /\ at.op = "nothing" /\ at \in AtItems
  BY <1>1, BareIs, BareIn DEF Nothing
<1>3. ended = <<>> /\ IsInjective(ended) /\ Len(ended) <= Remembered
  BY JobsAssumption DEF Init, IsInjective, JobsAssumption
<1>4. TypeOK
  <2>1. /\ calls \in Seq(CallItems) /\ events \in Seq(EventItems) /\ deliveries \in Seq(DeliveryItems)
        /\ ended \in Seq(Jobs)
    BY <1>1, <1>3
  <2>2. /\ status \in [Jobs -> {"new"} \cup Alive \cup Ended] /\ after \in [Jobs -> SUBSET Jobs]
        /\ ran \in [Jobs -> {"no", "ok", "raised"}] /\ announced \in [Jobs -> Nat]
    BY DEF Init
  <2>3. asked \in Requests /\ unwanted \subseteq Jobs
    BY JobsAssumption DEF Init, JobsAssumption
  <2>4. /\ writing = {} /\ submitting = {} /\ raced = {} /\ jobs = {} /\ finished = {} /\ waiting = {} /\ active = {}
        /\ started = {} /\ early = {} /\ queued = {} /\ finishing = {} /\ attached = TRUE /\ closed = FALSE /\ looping = TRUE
        /\ noted = FALSE /\ told = FALSE /\ owner = "idle"
    BY DEF Init
  <2> QED BY <1>2, <1>3, <2>1, <2>2, <2>3, <2>4 DEF TypeOK, CallItems, EventItems, DeliveryItems, AtItems
<1>5. ItemsNameJobs
  BY <1>2 DEF ItemsNameJobs
<1>6. Places
  BY FS_EmptySet, JobsAssumption DEF Init, Places, JobsAssumption
<1>7. Arrivals
  <2>1. /\ \A j \in Jobs : status[j] = "new" /\ Unheard(j)
        /\ queued = {} /\ submitting = {}
    BY DEF Init, Unheard
  <2>2. \A j \in Jobs, k \in Nat : ~Arrives(k, j)
    BY <1>2 DEF Arrives
  <2>3. Fresh
    BY <2>1 DEF Fresh
  <2>5. Line
    BY <2>1 DEF Line
  <2>4. \A k \in DOMAIN events : events[k].op = "stop" => status[events[k].job] # "new"
    BY <1>2
  <2> QED BY <2>1, <2>2, <2>3, <2>4, <2>5 DEF Arrivals
<1>8. Frames
  BY <1>2 DEF Frames, LooksAt
<1>9. Behind /\ Callbacks
  BY <1>2, JobsAssumption DEF Init, Behind, Callbacks, FinishOf, JobsAssumption
<1>10. TablesNoted
  <2>1. writing = {} /\ submitting = {} /\ \A j \in Jobs : status[j] = "new" /\ after[j] = {}
    BY DEF Init
  <2> QED BY <2>1 DEF TablesNoted
<1> QED BY <1>4, <1>5, <1>6, <1>7, <1>8, <1>9, <1>10 DEF Order

\* No step ends that.
LEMMA OrderStep ==
  ASSUME Order, [Next]_vars
  PROVE  Order'
<1>1. CASE Next
  BY <1>1, TypeStep, NamesStep, PlacesStep, ArrivalsStep, FramesStep, BehindStep, CallbacksStep, TablesStep DEF Order
<1>2. CASE UNCHANGED vars
  <2>1. TypeOK' /\ ItemsNameJobs' /\ Places'
    BY <1>2 DEF vars, callers, owning, registry, loopState, Order, TypeOK, ItemsNameJobs, Places
  <2>2. Arrivals'
    BY <1>2 DEF vars, callers, owning, registry, loopState, Order, Arrivals, Fresh, Line, Arrives, Unheard, AsRegistered
  <2>3. Frames'
    BY <1>2 DEF vars, callers, owning, registry, loopState, Order, Frames, LooksAt, GoneBadly, Unheard
  <2>4. Behind' /\ Callbacks' /\ TablesNoted'
    BY <1>2 DEF vars, callers, owning, registry, loopState, Order, Behind, AllEndedWell, Callbacks, FinishOf, TablesNoted
  <2> QED BY <2>1, <2>2, <2>3, <2>4 DEF Order
<1> QED BY <1>1, <1>2

\* Jobs, their queues and the registry of the engine have their types.
THEOREM TypesHold == Spec => []TypeOK
<1>1. Order => TypeOK
  BY DEF Order
<1> QED BY <1>1, OrderInit, OrderStep, PTL DEF Spec

\* A job starts only when the jobs it comes after completed, their callbacks without an error,
\* and nothing of an earlier job is still to be written in a table it reads.
THEOREM DependentsWaitHolds == Spec => []DependentsWait
<1>1. ASSUME Order PROVE DependentsWait
  <2>0. TypeOK /\ Places /\ Behind /\ Callbacks /\ TablesNoted
    BY <1>1 DEF Order
  <2>1. ASSUME NEW j \in started
        PROVE  /\ \A d \in after[j] : status[d] = "completed" /\ (d \in HasFinish => ran[d] = "ok")
               /\ \A i \in Jobs : i < j /\ Writes[i] \cap asked[j].reads # {} =>
                    status[i] = "completed" \/ announced[i] > 0
    <3>1. j \in Jobs /\ status[j] # "new" /\ \A d \in after[j] : status[d] = "completed"
      BY <2>0 DEF TypeOK, Places, Behind, AllEndedWell
    <3>2. \A d \in after[j] : d \in HasFinish => ran[d] = "ok"
      BY <2>0, <3>1 DEF Callbacks
    <3>3. ASSUME NEW i \in Jobs, i < j, Writes[i] \cap asked[j].reads # {}
          PROVE  status[i] = "completed" \/ announced[i] > 0
      BY <2>0, <3>1, <3>3 DEF TablesNoted
    <3> QED BY <3>1, <3>2, <3>3
  <2> QED BY <2>1 DEF DependentsWait
<1> QED BY <1>1, OrderInit, OrderStep, PTL DEF Spec

\* Whoever a look starts waits: `_on_dependency_end` starts a job that is in `_waiting`, also when
\* the list it is in was made before other jobs ended.
THEOREM LooksStartTheWaiting == Spec => [][\A j \in Jobs : Look /\ j \in started' \ started => j \in waiting]_vars
<1>1. ASSUME Order, Look, NEW j \in Jobs, j \in started' \ started
      PROVE  j \in waiting
  <2>1. calls # <<>> /\ Head(calls).op = "look"
    BY <1>1 DEF Look
  <2>2. PICK i \in Jobs : i = Head(calls).job
    BY <1>1, <2>1, FirstCall
  <2>3. i \in waiting \/ OneEndedBadly(i)
    BY <1>1, <2>1, <2>2, FirstCall
  <2>4. AllEndedWell(i) /\ started' = started \cup {i}
    BY <1>1, <2>2 DEF Look, Finishes, Starts, loopState
  <2>5. ~OneEndedBadly(i)
    BY <2>4 DEF AllEndedWell, OneEndedBadly, Badly
  <2> QED BY <1>1, <2>3, <2>4, <2>5
<1>2. Order => [\A j \in Jobs : Look /\ j \in started' \ started => j \in waiting]_vars
  BY <1>1
<1> QED BY <1>2, OrderInit, OrderStep, PTL DEF Spec

-----------------------------------------------------------------------------
(* The end of a job *)

\* What is known of the first of the deliveries.
AtFirst(j) == calls = <<>> /\ at = Nothing /\ AnnounceOf(1, j) /\ Follow(1)

\* What the delivery thread and the registry of the engine do in a step: nothing, ...
Rests ==
  /\ UNCHANGED <<announced, ended, finished>> /\ jobs \subseteq jobs'
  /\ UNCHANGED at \/ (at = Nothing /\ at' = Bare("gone"))

\* ... the thread comes to wait for the loop, ...
Waits(j) == AtFirst(j) /\ at' = OfJob("noting", j) /\ UNCHANGED <<registry, status>>

\* ... announces the end of the job, ...
Ending(j) == Announces(j) /\ calls = <<>> /\ (AtFirst(j) \/ (Notes(j) /\ UNCHANGED <<deliveries, status>>))

\* ... or lets go of it.
Letting(j) ==
  /\ calls = <<>> /\ at.op = "letting" /\ at.job = j /\ at' = Nothing
  /\ jobs' = jobs \ {j} /\ finished' = finished \cup {j}
  /\ UNCHANGED <<announced, ended, deliveries>>

\* The registry moves in the steps of the delivery thread.
LEMMA RegistryMoves ==
  ASSUME Order, Next
  PROVE  \/ Rests
         \/ \E j \in Jobs : Waits(j) \/ Ending(j) \/ Letting(j)
<1>1. ASSUME NEW j \in Jobs, SubmitBegins(j) \/ Registers(j) \/ Submits(j) \/ Records(j) \/ Cancel(j) \/ CallsBack(j)
      PROVE  Rests
  BY <1>1 DEF SubmitBegins, Registers, Submits, Records, Cancel, CallsBack, Rests, registry
<1>2. CASE Owns \/ SkipsCall \/ Rest \/ TellDetached \/ Takes \/ OnStop \/ OnDetach \/ OnClose
  BY <1>2 DEF Owns, SkipsCall, Rest, TellDetached, Takes, OnStop, OnDetach, OnClose, notLoop, ofOthers, beside,
              registry, Rests
<1>3. ASSUME NEW j \in Jobs, NEW how \in Ended, NEW later \in Seq(CallItems), EndsBy(j, how, later) PROVE Rests
  BY <1>3 DEF EndsBy, beside, registry, Rests
<1>4. ASSUME NEW j \in Jobs, StartsBy(j) \/ WaitsBy(j) PROVE Rests
  BY <1>4 DEF StartsBy, WaitsBy, beside, registry, Rests
<1>5. CASE Told \/ RunFinish
  BY <1>5 DEF Told, RunFinish, registry, Rests
<1>6. CASE Leaves
  BY <1>6 DEF Leaves, Gets, registry, Rests
<1>7. CASE calls = <<>> /\ Announce
  <2>1. PICK j \in Jobs : j = Head(deliveries).job
    BY <1>7, FirstDelivery DEF Announce
  <2>2. AtFirst(j)
    <3>1. Gets("announce")
      BY <1>7 DEF Announce
    <3>2. /\ Head(deliveries) = deliveries[1] /\ 1 \in DOMAIN deliveries /\ deliveries[1].op = "announce" /\ at = Nothing
          /\ Follow(1)
      BY <3>1, FirstDelivery, GetsFollow
    <3> QED BY <1>7, <2>1, <3>2 DEF AtFirst, AnnounceOf
  <2> QED BY <1>7, <2>1, <2>2 DEF Announce, Waits, Ending, notDelivery
<1>8. CASE calls = <<>> /\ Noted
  <2>1. PICK j \in Jobs : j = at.job
    BY <1>8 DEF Order, ItemsNameJobs, Noted
  <2> QED BY <1>8, <2>1 DEF Noted, Ending, Notes, notDelivery
<1>9. CASE calls = <<>> /\ LetsGo
  <2>1. PICK j \in Jobs : j = at.job
    BY <1>9 DEF Order, ItemsNameJobs, LetsGo
  <2> QED BY <1>9, <2>1 DEF LetsGo, Letting
<1> QED BY StepIsOfKind, <1>1, <1>2, <1>3, <1>4, <1>5, <1>6, <1>7, <1>8, <1>9 DEF Kinds, Delivery

\* A rest that is left to do was so before, or its job ends in this step.
LEMMA RestsMove ==
  ASSUME Order, Next, NEW j \in Jobs, NEW k \in Nat, RestOf(k, j)'
  PROVE  \/ \E m \in Nat : RestOf(m, j)
         \/ \E how \in Ended, later \in Seq(CallItems) : EndsBy(j, how, later)
<1>0. calls \in Seq(CallItems)
  BY QueuesHold DEF Order
<1>1. k \in DOMAIN calls' /\ calls'[k].op = "rest" /\ calls'[k].job = j
  BY DEF RestOf
<1>2. CASE calls' = <<>>
  BY <1>1, <1>2
<1>3. CASE calls # <<>> /\ calls' = Tail(calls)
  <2>1. k + 1 \in DOMAIN calls /\ calls'[k] = calls[k + 1]
    BY <1>0, <1>1, <1>3, TailIs
  <2>2. RestOf(k + 1, j) /\ k + 1 \in Nat
    BY <1>1, <2>1 DEF RestOf
  <2> QED BY <2>2
<1>4. ASSUME NEW i \in Jobs, NEW how \in Ended, NEW later \in Seq(CallItems), EndsBy(i, how, later), i # j
      PROVE  \E m \in Nat : RestOf(m, j)
  <2>1. PICK n \in DOMAIN calls' :
          \A x \in DOMAIN calls' :
             \/ calls'[x].op = "look"
             \/ calls'[x].op = "rest" /\ calls'[x].job = i
             \/ /\ x > n /\ x - n \in Nat /\ x - n + 1 \in DOMAIN calls /\ calls'[x] = calls[x - n + 1]
    BY <1>4, EndsLists, SMTT(30)
  <2>2. k - n \in Nat /\ k - n + 1 \in DOMAIN calls /\ calls'[k] = calls[k - n + 1]
    BY <1>1, <1>4, <2>1
  <2>3. RestOf(k - n + 1, j) /\ k - n + 1 \in Nat
    BY <1>1, <2>2 DEF RestOf
  <2> QED BY <2>3
<1>5. ASSUME NEW i \in Jobs, WaitsBy(i) PROVE FALSE
  <2>1. DOMAIN calls' = {1} /\ calls'[1] = OfJob("look", i)
    BY <1>5 DEF WaitsBy
  <2> QED BY <1>1, <2>1, OfJobIs
<1>6. CASE ListsStops
  BY <1>1, <1>6 DEF ListsStops
<1> QED BY CallsMove, <1>2, <1>3, <1>4, <1>5, <1>6

\* An announcement waits for the delivery thread already, or the rest of the end of its job is
\* what this step does.
LEMMA AnnouncesMove ==
  ASSUME Order, Next, NEW j \in Jobs, NEW k \in Nat, AnnounceOf(k, j)'
  PROVE  \/ \E m \in Nat : AnnounceOf(m, j)
         \/ Rest /\ RestOf(1, j)
<1>0. calls \in Seq(CallItems)
  BY QueuesHold DEF Order
<1>1. k \in DOMAIN deliveries' /\ deliveries'[k].op = "announce" /\ deliveries'[k].job = j
  BY DEF AnnounceOf
<1>2. PICK d \in {0, 1} : Follow(d)
  BY DeliveriesMove
<1>3. CASE k + d \in DOMAIN deliveries /\ deliveries'[k] = deliveries[k + d]
  <2>1. AnnounceOf(k + d, j) /\ k + d \in Nat
    BY <1>1, <1>2, <1>3 DEF AnnounceOf
  <2> QED BY <2>1
<1>4. CASE IsDelivered(deliveries'[k])
  <2>1. Rest /\ calls # <<>> /\ Head(calls).job = j
    BY <1>1, <1>4, OfJobIs, BareIs DEF IsDelivered
  <2>2. 1 \in DOMAIN calls /\ Head(calls) = calls[1]
    BY <1>0, <2>1, TailIs
  <2> QED BY <2>1, <2>2 DEF Rest, RestOf
<1> QED BY <1>1, <1>2, <1>3, <1>4 DEF Follow

\* The end of a job stays known, or on its way.
LEMMA EndsStep ==
  ASSUME Order, Ends, Next
  PROVE  Ends'
<1>0. TypeOK /\ TypeOK' /\ ItemsNameJobs /\ ItemsNameJobs'
  BY TypeStep, NamesStep DEF Order
<1>1. ASSUME NEW j \in Jobs, status[j] \in Ended, j \notin early' PROVE status'[j] \in Ended
  BY <1>1, EndsForGood, EarlyGrows
<1>2. ASSUME NEW j \in Jobs \ early', NEW k \in Nat, RestOf(k, j)' PROVE status'[j] \in Ended
  <2>1. ASSUME NEW how \in Ended, NEW later \in Seq(CallItems), EndsBy(j, how, later) PROVE status'[j] \in Ended
    BY <1>0, <2>1 DEF EndsBy, Finishes, TypeOK
  <2> QED BY <1>1, <1>2, <2>1, RestsMove, EarlyGrows DEF Ends
<1>3. ASSUME NEW j \in Jobs \ early', NEW k \in Nat, AnnounceOf(k, j)' PROVE status'[j] \in Ended
  BY <1>1, <1>3, AnnouncesMove, EarlyGrows DEF Ends
<1>4. at'.op = "noting" /\ at'.job \notin early' => status'[at'.job] \in Ended
  <2>1. ASSUME NEW j \in Jobs, Waits(j), j \notin early' PROVE at'.job = j /\ status[j] \in Ended
    BY <2>1, OfJobIs, EarlyGrows DEF Waits, AtFirst, Ends
  <2>2. ASSUME NEW j \in Jobs, Ending(j) \/ Letting(j) PROVE at'.op # "noting"
    BY <2>2, OfJobIs, BareIs DEF Ending, Announces, Terminal, Letting, Nothing
  <2>3. CASE Rests
    <3>1. at.op = "noting" /\ at.job \notin early' => at.job \in Jobs /\ status[at.job] \in Ended
      BY <1>0, EarlyGrows DEF ItemsNameJobs, Ends
    <3> QED BY <1>1, <2>3, <3>1, BareIs DEF Rests
  <2>4. ASSUME NEW j \in Jobs, Waits(j) PROVE at'.job = j
    BY <2>4, OfJobIs DEF Waits
  <2> QED BY <1>1, <2>1, <2>2, <2>3, <2>4, RegistryMoves
<1>5. at'.op = "letting" => announced'[at'.job] > 0
  <2>1. ASSUME NEW j \in Jobs, Ending(j) PROVE at'.job = j /\ announced'[j] > 0
    BY <1>0, <2>1, OfJobIs DEF Ending, Announces, Terminal, TypeOK
  <2>2. ASSUME NEW j \in Jobs, Waits(j) \/ Letting(j) PROVE at'.op # "letting"
    BY <2>2, OfJobIs, BareIs DEF Waits, Letting, Nothing
  <2>3. CASE Rests
    BY <2>3, BareIs DEF Rests, Ends
  <2> QED BY <2>1, <2>2, <2>3, RegistryMoves
<1>6. ASSUME NEW j \in Jobs, announced'[j] > 0
      PROVE  /\ j \in early' \/ status'[j] \in Ended
             /\ status'[j] # "new" /\ (j \in ToSet(ended') \/ Len(ended') = Remembered)
  <2>0. ASSUME j \in early \/ status[j] \in Ended, status[j] # "new"
        PROVE  (j \in early' \/ status'[j] \in Ended) /\ status'[j] # "new"
    BY <1>1, <2>0, EndsForGood, EarlyGrows
  <2>1. ASSUME NEW i \in Jobs, Ending(i)
        PROVE  /\ j \in early' \/ status'[j] \in Ended
               /\ status'[j] # "new" /\ (j \in ToSet(ended') \/ Len(ended') = Remembered)
    <3>1. Remember(i) /\ announced' = [announced EXCEPT ![i] = @ + 1]
      BY <2>1 DEF Ending, Announces, Terminal
    <3>2. i # j => announced[j] > 0
      BY <1>0, <1>6, <3>1 DEF TypeOK
    <3>3. i \in early \/ status[i] \in Ended
      BY <2>1 DEF Ending, AtFirst, Notes, Ends
    <3>4. i \in Jobs /\ status[i] # "new"
      BY <3>3 DEF Order, Places, Ended
    <3>5. /\ j \in early \/ status[j] \in Ended
          /\ status[j] # "new" /\ (j \in ToSet(ended) \/ j = i \/ Len(ended) = Remembered)
      BY <3>2, <3>3, <3>4 DEF Ends
    <3> QED BY <1>0, <2>0, <3>1, <3>5, RememberDoes
  <2>2. CASE UNCHANGED <<announced, ended>>
    BY <1>6, <2>0, <2>2 DEF Ends
  <2> QED BY <2>1, <2>2, RegistryMoves DEF Rests, Waits, Letting, registry
<1>7. ASSUME NEW j \in Jobs, status'[j] # "new" PROVE j \in jobs' \/ announced'[j] > 0
  <2>1. CASE status[j] # "new"
    <3>1. j \in jobs \/ announced[j] > 0
      BY <2>1 DEF Ends
    <3>2. ASSUME NEW i \in Jobs, Letting(i) PROVE j \in jobs' \/ announced'[j] > 0
      BY <3>1, <3>2 DEF Letting, Ends
    <3>3. ASSUME NEW i \in Jobs, Ending(i) PROVE jobs' = jobs /\ (announced[j] > 0 => announced'[j] > 0)
      BY <1>0, <3>3 DEF Ending, Announces, Terminal, TypeOK
    <3> QED BY <3>1, <3>2, <3>3, RegistryMoves DEF Rests, Waits, registry
  <2>2. CASE status[j] = "new"
    BY <1>7, <2>2, NewMoves DEF Registers
  <2> QED BY <2>1, <2>2
<1> QED BY <1>2, <1>3, <1>4, <1>5, <1>6, <1>7 DEF Ends

-----------------------------------------------------------------------------
(* Jobs before jobs *)

\* Whatever a job comes after is before it, ...
LEMMA AfterIsBefore ==
  ASSUME TypeOK, NEW j \in Jobs, NEW d \in after[j]
  PROVE  d \in Before(j)
BY DEF Before, Closed, TypeOK

\* ... and so is what is before that.
LEMMA BeforeOfBefore ==
  ASSUME TypeOK, NEW i \in Jobs, NEW e \in after[i], NEW d \in Before(e)
  PROVE  d \in Before(i)
<1>1. d \in Jobs /\ \A S \in Closed : after[e] \subseteq S => d \in S
  BY DEF Before
<1>2. ASSUME NEW S \in Closed, after[i] \subseteq S PROVE d \in S
  <2>1. after[e] \subseteq S
    BY <1>2 DEF Closed
  <2> QED BY <1>1, <2>1
<1> QED BY <1>1, <1>2 DEF Before

\* A plain job was one before: what is before a job only becomes more.
LEMMA PlainBefore ==
  ASSUME Order, Next, NEW j \in Jobs, Plain(j)'
  PROVE  Plain(j)
<1>0. TypeOK /\ TypeOK' /\ TablesNoted
  BY TypeStep DEF Order
<1>1. \A i \in Jobs : after[i] = {} \/ after'[i] = after[i]
  BY <1>0, AfterMoves DEF TablesNoted
<1>2. Closed' \subseteq Closed
  BY <1>0, <1>1 DEF Closed, TypeOK
<1>3. ASSUME NEW d \in after[j], NEW e \in after[j], d \in Before(e) PROVE FALSE
  <2>1. after'[j] = after[j] /\ e \in Jobs
    BY <1>0, <1>1, <1>3 DEF TypeOK
  <2>2. d \notin Before(e)'
    BY <2>1 DEF Plain
  <2>3. d \in Jobs /\ \A S \in Closed : after[e] \subseteq S => d \in S
    BY <1>3 DEF Before
  <2>4. after[e] \subseteq after'[e]
    BY <1>1, <2>1
  <2> QED BY <1>2, <2>2, <2>3, <2>4 DEF Before
<1> QED BY <1>3 DEF Plain

-----------------------------------------------------------------------------
(* The end of a plain job is announced once *)

\* Which calls there are when the first one is done.
LEMMA BehindFirst ==
  ASSUME Order, calls # <<>>, calls' = Tail(calls), NEW j \in Jobs, NEW k \in Nat
  PROVE  /\ LooksAt(k, j)' => LooksAt(k + 1, j) /\ k + 1 # 1
         /\ RestOf(k, j)' => RestOf(k + 1, j) /\ k + 1 # 1
         /\ StopOf(k, j)' => StopOf(k + 1, j) /\ k + 1 # 1
<1>0. calls \in Seq(CallItems)
  BY QueuesHold DEF Order
<1>1. k \in DOMAIN calls' => k > 0 /\ k + 1 \in DOMAIN calls /\ calls'[k] = calls[k + 1]
  BY <1>0, TailIs
<1> QED BY <1>1 DEF LooksAt, RestOf, StopOf

\* Which there are when a job ends.
LEMMA LeftByEnd ==
  ASSUME Order, NEW x \in Jobs, NEW how \in Ended, NEW later \in Seq(CallItems), EndsBy(x, how, later)
  PROVE  \E n \in Nat :
           /\ \A j \in Jobs, k \in Nat : LooksAt(k, j)' =>
                \/ k < n /\ x \in after[j] /\ j \in waiting'
                \/ k > n /\ calls # <<>> /\ \E m \in Nat : m = k - n + 1 /\ m > 1 /\ LooksAt(m, j)
           /\ \A j \in Jobs, k, m \in Nat : LooksAt(k, j)' /\ LooksAt(m, j)' /\ k < n /\ m < n => k = m
           /\ \A j \in Jobs, k \in Nat : RestOf(k, j)' =>
                \/ k = n /\ j = x
                \/ k > n /\ calls # <<>> /\ \E m \in Nat : m = k - n + 1 /\ m > 1 /\ RestOf(m, j)
<1>1. PICK n \in DOMAIN calls' :
        /\ n \in Nat /\ \A k \in DOMAIN calls' : k \in Nat
        /\ \A k \in DOMAIN calls' :
             \/ k < n /\ calls'[k].op = "look" /\ calls'[k].job \in waiting' /\ x \in after[calls'[k].job]
             \/ k = n /\ calls'[k].op = "rest" /\ calls'[k].job = x
             \/ /\ k > n /\ k - n \in Nat /\ k - n + 1 \in DOMAIN calls /\ calls'[k] = calls[k - n + 1]
                /\ calls # <<>> /\ UNCHANGED events
        /\ \A k, m \in DOMAIN calls' : k < n /\ m < n /\ calls'[k].job = calls'[m].job => k = m
  BY EndsLists
<1>2. ASSUME NEW j \in Jobs, NEW k \in Nat, LooksAt(k, j)'
      PROVE  \/ k < n /\ x \in after[j] /\ j \in waiting'
             \/ k > n /\ calls # <<>> /\ \E m \in Nat : m = k - n + 1 /\ m > 1 /\ LooksAt(m, j)
  <2>1. k \in DOMAIN calls' /\ calls'[k].op = "look" /\ calls'[k].job = j
    BY <1>2 DEF LooksAt
  <2>2. CASE k > n /\ k - n \in Nat /\ k - n + 1 \in DOMAIN calls /\ calls'[k] = calls[k - n + 1] /\ calls # <<>>
    <3>1. k - n + 1 \in Nat /\ k - n + 1 > 1
      BY <1>1, <2>2
    <3> QED BY <2>1, <2>2, <3>1 DEF LooksAt
  <2> QED BY <1>1, <2>1, <2>2
<1>3. ASSUME NEW j \in Jobs, NEW k \in Nat, RestOf(k, j)'
      PROVE  \/ k = n /\ j = x
             \/ k > n /\ calls # <<>> /\ \E m \in Nat : m = k - n + 1 /\ m > 1 /\ RestOf(m, j)
  <2>1. k \in DOMAIN calls' /\ calls'[k].op = "rest" /\ calls'[k].job = j
    BY <1>3 DEF RestOf
  <2>2. CASE k > n /\ k - n \in Nat /\ k - n + 1 \in DOMAIN calls /\ calls'[k] = calls[k - n + 1] /\ calls # <<>>
    <3>1. k - n + 1 \in Nat /\ k - n + 1 > 1
      BY <1>1, <2>2
    <3> QED BY <2>1, <2>2, <3>1 DEF RestOf
  <2> QED BY <1>1, <2>1, <2>2
<1>4. ASSUME NEW j \in Jobs, NEW k \in Nat, NEW m \in Nat, LooksAt(k, j)', LooksAt(m, j)', k < n, m < n
      PROVE  k = m
  BY <1>1, <1>4 DEF LooksAt
<1> QED BY <1>1, <1>2, <1>3, <1>4

\* Whoever ends behind the first call is looked at there, or no look is left.
LEMMA EndsAtFirst ==
  ASSUME Order, NEW x \in Jobs, NEW how \in Ended, NEW later \in Seq(CallItems), EndsBy(x, how, later),
         calls # <<>>
  PROVE  \/ LooksAt(1, x)
         \/ status[x] \in Alive /\ \A j \in Jobs, m \in Nat : m > 1 => ~LooksAt(m, j)
<1>0. calls \in Seq(CallItems) /\ 1 \in DOMAIN calls /\ Head(calls) = calls[1]
  <2>1. calls \in Seq(CallItems)
    BY QueuesHold DEF Order
  <2> QED BY <2>1, TailIs
<1>1. CASE Head(calls).op = "look"
  BY <1>0, <1>1 DEF EndsBy, LooksAt
<1>2. CASE Head(calls).op = "stop" /\ status[x] \in Alive
  BY <1>0, <1>2 DEF Order, Frames, LooksAt
<1> QED BY <1>1, <1>2 DEF EndsBy

\* The looks left to do stay nested.
LEMMA NestedStep ==
  ASSUME Order, Nested, Next
  PROVE  Nested'
<1>0. TypeOK
  BY DEF Order
<1> SUFFICES ASSUME NEW i \in Jobs, NEW j \in Jobs, NEW k \in Nat, NEW m \in Nat,
                    LooksAt(k, i)', LooksAt(m, j)', k < m
             PROVE  \E d \in after'[j] : d \in Before(i)'
  BY DEF Nested
<1>1. ASSUME UNCHANGED after, NEW d \in after[j], d \in Before(i)
      PROVE  \E e \in after'[j] : e \in Before(i)'
  BY <1>1 DEF Before, Closed
<1>2. CASE calls # <<>> /\ calls' = Tail(calls)
  <2>1. LooksAt(k + 1, i) /\ LooksAt(m + 1, j) /\ k + 1 \in Nat /\ m + 1 \in Nat /\ k + 1 < m + 1
    BY <1>2, BehindFirst
  <2>2. \E d \in after[j] : d \in Before(i)
    BY <2>1 DEF Nested
  <2>3. UNCHANGED after
    BY <1>2, AfterMoves
  <2> QED BY <1>1, <2>2, <2>3
<1>3. ASSUME NEW x \in Jobs, NEW how \in Ended, NEW later \in Seq(CallItems), EndsBy(x, how, later)
      PROVE  \E d \in after'[j] : d \in Before(i)'
  <2>0. UNCHANGED after
    BY <1>3 DEF EndsBy, beside, callers
  <2>1. PICK n \in Nat :
          \A h \in Jobs, a \in Nat : LooksAt(a, h)' =>
            \/ a < n /\ x \in after[h] /\ h \in waiting'
            \/ a > n /\ calls # <<>> /\ \E b \in Nat : b = a - n + 1 /\ b > 1 /\ LooksAt(b, h)
    BY <1>3, LeftByEnd
  <2>2. CASE m < n
    <3>1. x \in after[i] /\ x \in after[j]
      BY <2>1, <2>2
    <3> QED BY <1>0, <1>1, <2>0, <3>1, AfterIsBefore
  <2>3. CASE m > n /\ k < n
    <3>1. PICK b \in Nat : b > 1 /\ LooksAt(b, j) /\ calls # <<>>
      BY <2>1, <2>3
    <3>2. LooksAt(1, x)
      BY <1>3, <3>1, EndsAtFirst
    <3>3. PICK d \in after[j] : d \in Before(x)
      BY <3>1, <3>2 DEF Nested
    <3>4. x \in after[i]
      BY <2>1, <2>3
    <3>5. d \in Before(i)
      BY <1>0, <3>3, <3>4, BeforeOfBefore
    <3> QED BY <1>1, <2>0, <3>3, <3>5
  <2>4. CASE k > n
    <3>1. PICK a \in Nat : a = k - n + 1 /\ LooksAt(a, i)
      BY <2>1, <2>4
    <3>2. PICK b \in Nat : b = m - n + 1 /\ LooksAt(b, j)
      BY <2>1, <2>4
    <3>3. a < b
      BY <3>1, <3>2
    <3>4. \E d \in after[j] : d \in Before(i)
      BY <3>1, <3>2, <3>3 DEF Nested
    <3> QED BY <1>1, <2>0, <3>4
  <2>5. k < n \/ k > n
    BY <2>1
  <2>6. m < n \/ m > n
    BY <2>1
  <2> QED BY <2>2, <2>3, <2>4, <2>5, <2>6
<1>4. CASE calls' = <<>>
  BY <1>4 DEF LooksAt
<1>5. ASSUME NEW x \in Jobs, WaitsBy(x) PROVE FALSE
  <2>1. DOMAIN calls' = {1}
    BY <1>5 DEF WaitsBy
  <2> QED BY <2>1 DEF LooksAt
<1>6. CASE ListsStops
  BY <1>6 DEF ListsStops, LooksAt
<1> QED BY CallsMove, <1>2, <1>3, <1>4, <1>5, <1>6

\* A plain job ends only while it lives.
LEMMA EndsAlive ==
  ASSUME Order, Ends, Once, NEW x \in Jobs \ early, Plain(x),
         NEW how \in Ended, NEW later \in Seq(CallItems), EndsBy(x, how, later)
  PROVE  status[x] \notin Ended
<1>1. CASE calls = <<>>
  BY <1>1 DEF EndsBy, Alive, Ended
<1>2. CASE calls # <<>> /\ status[x] \in Alive
  BY <1>2 DEF Alive, Ended
<1>3. CASE LooksAt(1, x)
  <2>1. x \in waiting
    BY <1>3 DEF Once
  <2> QED BY <2>1 DEF Order, Places, Ended
<1> QED BY <1>1, <1>2, <1>3, EndsAtFirst

\* An announcement that is left when the delivery thread took the first one is another one.
LEMMA AnnouncesBehind ==
  ASSUME Follow(1), NEW j \in Jobs, NEW k \in Nat, AnnounceOf(k, j)'
  PROVE  AnnounceOf(k + 1, j) /\ k + 1 # 1
BY DEF Follow, AnnounceOf

\* The rest of the end of a job that has ended was left to do before.
LEMMA RestsOfEnded ==
  ASSUME Order, Ends, Once, Next, NEW j \in Jobs \ early, Plain(j), status[j] \in Ended, NEW k \in Nat, RestOf(k, j)'
  PROVE  \E m \in Nat : RestOf(m, j)
BY RestsMove, EndsAlive

\* Where the end of a plain job is, it stays once.
LEMMA OnceStep ==
  ASSUME Order, Ends, Nested, Once, Next
  PROVE  Once'
<1>0. TypeOK /\ TypeOK' /\ Places
  BY TypeStep DEF Order
<1> SUFFICES ASSUME NEW j \in Jobs \ early', Plain(j)'
             PROVE  /\ \A k \in Nat : LooksAt(k, j)' => j \in waiting'
                    /\ \A k, m \in Nat : LooksAt(k, j)' /\ LooksAt(m, j)' => k = m
                    /\ \A k, m \in Nat : RestOf(k, j)' /\ RestOf(m, j)' => k = m
                    /\ \A k, m \in Nat : AnnounceOf(k, j)' /\ AnnounceOf(m, j)' => k = m
                    /\ \A k, m \in Nat : ~(RestOf(k, j)' /\ AnnounceOf(m, j)')
                    /\ Notes(j)' => \A k \in Nat : ~RestOf(k, j)' /\ ~AnnounceOf(k, j)'
                    /\ announced'[j] > 0 => ~Notes(j)' /\ \A k \in Nat : ~RestOf(k, j)' /\ ~AnnounceOf(k, j)'
                    /\ announced'[j] <= 1
  BY DEF Once
<1>1. Plain(j) /\ j \in Jobs /\ j \notin early
  BY PlainBefore, EarlyGrows
<1>2. /\ \A k \in Nat : LooksAt(k, j) => j \in waiting
      /\ \A k, m \in Nat : LooksAt(k, j) /\ LooksAt(m, j) => k = m
      /\ \A k, m \in Nat : RestOf(k, j) /\ RestOf(m, j) => k = m
      /\ \A k, m \in Nat : AnnounceOf(k, j) /\ AnnounceOf(m, j) => k = m
      /\ \A k, m \in Nat : ~(RestOf(k, j) /\ AnnounceOf(m, j))
      /\ Notes(j) => \A k \in Nat : ~RestOf(k, j) /\ ~AnnounceOf(k, j)
      /\ announced[j] > 0 => ~Notes(j) /\ \A k \in Nat : ~RestOf(k, j) /\ ~AnnounceOf(k, j)
      /\ announced[j] <= 1
  BY <1>1 DEF Once
<1>3. /\ \A k \in Nat : RestOf(k, j) \/ AnnounceOf(k, j) => status[j] \in Ended
      /\ Notes(j) => status[j] \in Ended
      /\ announced[j] > 0 => status[j] \in Ended
  BY <1>1 DEF Ends, Notes
<1>4. ASSUME NEW k \in Nat, RestOf(k, j)', status[j] \in Ended
      PROVE  \E m \in Nat : RestOf(m, j)
  BY <1>1, <1>4, RestsOfEnded
<1>5. ASSUME NEW k \in Nat, LooksAt(k, j)' PROVE j \in waiting'
  <2>1. CASE calls' = <<>> \/ ListsStops
    BY <1>5, <2>1 DEF LooksAt, ListsStops
  <2>2. CASE calls # <<>> /\ calls' = Tail(calls) /\ (Stays \/ \E x \in Jobs : StartsBy(x))
    <3>1. LooksAt(k + 1, j) /\ k + 1 # 1 /\ k + 1 \in Nat
      BY <1>5, <2>2, BehindFirst
    <3>2. ASSUME NEW x \in Jobs, StartsBy(x) PROVE x # j /\ waiting' = waiting \ {x}
      <4>1. Head(calls) = calls[1] /\ 1 \in DOMAIN calls
        BY <2>2, FirstCall
      <4>2. LooksAt(1, x)
        BY <2>2, <3>2, <4>1 DEF StartsBy, LooksAt
      <4> QED BY <1>2, <3>1, <3>2, <4>2 DEF StartsBy, Starts
    <3> QED BY <1>2, <2>2, <3>1, <3>2 DEF Stays
  <2>3. ASSUME NEW x \in Jobs, NEW how \in Ended, NEW later \in Seq(CallItems), EndsBy(x, how, later)
        PROVE  j \in waiting'
    <3>1. j \in waiting' \/ \E m \in Nat : m > 1 /\ LooksAt(m, j) /\ calls # <<>>
      BY <1>5, <2>3, LeftByEnd
    <3>2. ASSUME NEW m \in Nat, m > 1, LooksAt(m, j), calls # <<>> PROVE j \in waiting'
      <4>1. LooksAt(1, x)
        BY <2>3, <3>2, EndsAtFirst
      <4>2. x # j
        BY <1>2, <3>2, <4>1
      <4>3. waiting' = waiting \ {x}
        BY <2>3 DEF EndsBy, Finishes
      <4> QED BY <1>2, <3>2, <4>2, <4>3
    <3> QED BY <3>1, <3>2
  <2>4. ASSUME NEW x \in Jobs, WaitsBy(x) PROVE j \in waiting'
    <3>1. DOMAIN calls' = {1} /\ calls'[1].job = x /\ waiting' = waiting \cup {x}
      BY <2>4, OfJobIs DEF WaitsBy
    <3> QED BY <1>5, <3>1 DEF LooksAt
  <2> QED BY CallsMove, <2>1, <2>2, <2>3, <2>4
<1>6. ASSUME NEW k \in Nat, NEW m \in Nat, LooksAt(k, j)', LooksAt(m, j)' PROVE k = m
  <2>1. CASE calls' = <<>> \/ ListsStops
    BY <1>6, <2>1 DEF LooksAt, ListsStops
  <2>2. CASE calls # <<>> /\ calls' = Tail(calls)
    <3>1. LooksAt(k + 1, j) /\ LooksAt(m + 1, j) /\ k + 1 \in Nat /\ m + 1 \in Nat
      BY <1>6, <2>2, BehindFirst
    <3>2. k + 1 = m + 1
      BY <1>2, <3>1
    <3> QED BY <3>2
  <2>3. ASSUME NEW x \in Jobs, NEW how \in Ended, NEW later \in Seq(CallItems), EndsBy(x, how, later)
        PROVE  k = m
    <3>1. PICK n \in Nat :
            /\ \A h \in Jobs, a \in Nat : LooksAt(a, h)' =>
                 \/ a < n /\ x \in after[h] /\ h \in waiting'
                 \/ a > n /\ calls # <<>> /\ \E b \in Nat : b = a - n + 1 /\ b > 1 /\ LooksAt(b, h)
            /\ \A h \in Jobs, a, b \in Nat : LooksAt(a, h)' /\ LooksAt(b, h)' /\ a < n /\ b < n => a = b
      BY <2>3, LeftByEnd
    <3>2. ASSUME x \in after[j], calls # <<>>, NEW b \in Nat, b > 1, LooksAt(b, j) PROVE FALSE
      <4>1. LooksAt(1, x)
        BY <2>3, <3>2, EndsAtFirst
      <4>2. PICK d \in after[j] : d \in Before(x)
        BY <3>2, <4>1 DEF Nested
      <4> QED BY <1>1, <3>2, <4>2 DEF Plain
    <3>3. CASE k < n /\ m < n
      BY <1>6, <3>1, <3>3
    <3>4. CASE k > n /\ m > n
      <4>1. PICK a \in Nat : a = k - n + 1 /\ LooksAt(a, j)
        BY <1>6, <3>1, <3>4
      <4>2. PICK b \in Nat : b = m - n + 1 /\ LooksAt(b, j)
        BY <1>6, <3>1, <3>4
      <4>3. a = b
        BY <1>2, <4>1, <4>2
      <4> QED BY <4>1, <4>2, <4>3
    <3>5. CASE (k < n /\ m > n) \/ (m < n /\ k > n)
      BY <1>6, <3>1, <3>2, <3>5
    <3>6. (k < n \/ k > n) /\ (m < n \/ m > n)
      BY <1>6, <3>1
    <3> QED BY <3>3, <3>4, <3>5, <3>6
  <2>4. ASSUME NEW x \in Jobs, WaitsBy(x) PROVE k = m
    <3>1. DOMAIN calls' = {1}
      BY <2>4 DEF WaitsBy
    <3> QED BY <1>6, <3>1 DEF LooksAt
  <2> QED BY CallsMove, <2>1, <2>2, <2>3, <2>4
<1>7. ASSUME NEW k \in Nat, NEW m \in Nat, RestOf(k, j)', RestOf(m, j)' PROVE k = m
  <2>1. CASE calls' = <<>> \/ ListsStops
    BY <1>7, <2>1 DEF RestOf, ListsStops
  <2>2. CASE calls # <<>> /\ calls' = Tail(calls)
    <3>1. RestOf(k + 1, j) /\ RestOf(m + 1, j) /\ k + 1 \in Nat /\ m + 1 \in Nat
      BY <1>7, <2>2, BehindFirst
    <3>2. k + 1 = m + 1
      BY <1>2, <3>1
    <3> QED BY <3>2
  <2>3. ASSUME NEW x \in Jobs, NEW how \in Ended, NEW later \in Seq(CallItems), EndsBy(x, how, later)
        PROVE  k = m
    <3>1. PICK n \in Nat :
            \A h \in Jobs, a \in Nat : RestOf(a, h)' =>
              \/ a = n /\ h = x
              \/ a > n /\ calls # <<>> /\ \E b \in Nat : b = a - n + 1 /\ b > 1 /\ RestOf(b, h)
      BY <2>3, LeftByEnd
    <3>2. CASE x = j
      <4>1. status[j] \notin Ended
        BY <1>1, <2>3, <3>2, EndsAlive
      <4> QED BY <1>3, <1>7, <3>1, <4>1
    <3>3. CASE x # j
      <4>1. PICK a \in Nat : a = k - n + 1 /\ RestOf(a, j)
        BY <1>7, <3>1, <3>3
      <4>2. PICK b \in Nat : b = m - n + 1 /\ RestOf(b, j)
        BY <1>7, <3>1, <3>3
      <4>3. a = b
        BY <1>2, <4>1, <4>2
      <4> QED BY <4>1, <4>2, <4>3
    <3> QED BY <3>2, <3>3
  <2>4. ASSUME NEW x \in Jobs, WaitsBy(x) PROVE k = m
    <3>1. DOMAIN calls' = {1}
      BY <2>4 DEF WaitsBy
    <3> QED BY <1>7, <3>1 DEF RestOf
  <2> QED BY CallsMove, <2>1, <2>2, <2>3, <2>4
<1>8. ASSUME NEW k \in Nat, AnnounceOf(k, j)', NEW d \in {0, 1}, Follow(d)
      PROVE  \/ AnnounceOf(k + d, j) /\ k + d \in Nat
             \/ k = Len(deliveries) + 1 /\ Rest /\ RestOf(1, j)
  <2>1. k \in DOMAIN deliveries' /\ deliveries'[k].op = "announce" /\ deliveries'[k].job = j
    BY <1>8 DEF AnnounceOf
  <2>2. CASE k + d \in DOMAIN deliveries /\ deliveries'[k] = deliveries[k + d]
    BY <1>8, <2>1, <2>2 DEF AnnounceOf
  <2>3. CASE k = Len(deliveries) + 1 /\ IsDelivered(deliveries'[k])
    <3>1. Rest /\ calls # <<>> /\ Head(calls).job = j
      BY <2>1, <2>3, OfJobIs, BareIs DEF IsDelivered
    <3>2. 1 \in DOMAIN calls /\ Head(calls) = calls[1]
      BY <3>1, FirstCall
    <3> QED BY <2>3, <3>1, <3>2 DEF Rest, RestOf
  <2> QED BY <1>8, <2>1, <2>2, <2>3 DEF Follow
<1>9. PICK d \in {0, 1} : Follow(d)
  BY DeliveriesMove
<1>10. ASSUME NEW k \in Nat, NEW m \in Nat, AnnounceOf(k, j)', AnnounceOf(m, j)' PROVE k = m
  <2>1. CASE AnnounceOf(k + d, j) /\ k + d \in Nat
    <3>1. AnnounceOf(m + d, j) /\ m + d \in Nat
      BY <1>2, <1>8, <1>9, <1>10, <2>1
    <3>2. k + d = m + d
      BY <1>2, <2>1, <3>1
    <3> QED BY <1>9, <3>2
  <2>2. CASE k = Len(deliveries) + 1 /\ RestOf(1, j)
    BY <1>2, <1>8, <1>9, <1>10, <2>2
  <2> QED BY <1>8, <1>9, <1>10, <2>1, <2>2
<1>11. ASSUME NEW k \in Nat, NEW m \in Nat, RestOf(k, j)', AnnounceOf(m, j)' PROVE FALSE
  <2>1. CASE AnnounceOf(m + d, j) /\ m + d \in Nat
    <3>1. status[j] \in Ended
      BY <1>3, <2>1
    <3> QED BY <1>2, <1>4, <1>11, <2>1, <3>1
  <2>2. CASE Rest /\ RestOf(1, j)
    <3>1. calls # <<>> /\ calls' = Tail(calls)
      BY <2>2 DEF Rest
    <3>2. RestOf(k + 1, j) /\ k + 1 # 1 /\ k + 1 \in Nat
      BY <1>11, <3>1, BehindFirst
    <3> QED BY <1>2, <2>2, <3>2
  <2> QED BY <1>8, <1>9, <1>11, <2>1, <2>2
<1>12. ASSUME status[j] \in Ended, \A k \in Nat : ~RestOf(k, j) /\ ~AnnounceOf(k, j)
       PROVE  \A k \in Nat : ~RestOf(k, j)' /\ ~AnnounceOf(k, j)'
  BY <1>4, <1>8, <1>9, <1>12
<1>13. ASSUME AtFirst(j) PROVE status[j] \in Ended /\ \A k \in Nat : ~RestOf(k, j)' /\ ~AnnounceOf(k, j)'
  <2>1. AnnounceOf(1, j) /\ Follow(1)
    BY <1>13 DEF AtFirst
  <2>2. status[j] \in Ended /\ \A k \in Nat : ~RestOf(k, j)
    BY <1>2, <1>3, <2>1
  <2>3. \A k \in Nat : ~AnnounceOf(k, j)'
    BY <1>2, <2>1, AnnouncesBehind
  <2> QED BY <1>4, <2>2, <2>3
<1>14. ASSUME Notes(j)'
       PROVE  AtFirst(j) \/ Notes(j)
  <2>1. ASSUME NEW i \in Jobs, Waits(i) PROVE AtFirst(j)
    BY <1>14, <2>1, OfJobIs DEF Waits, Notes
  <2>2. ASSUME NEW i \in Jobs, Ending(i) \/ Letting(i) PROVE FALSE
    BY <1>14, <2>2, OfJobIs, BareIs DEF Ending, Announces, Terminal, Letting, Nothing, Notes
  <2>3. CASE Rests
    BY <1>14, <2>3, BareIs DEF Rests, Notes
  <2> QED BY <2>1, <2>2, <2>3, RegistryMoves
<1>15. Notes(j)' => \A k \in Nat : ~RestOf(k, j)' /\ ~AnnounceOf(k, j)'
  BY <1>2, <1>3, <1>12, <1>13, <1>14
<1>16. announced'[j] = announced[j] \/ (Ending(j) /\ announced'[j] = announced[j] + 1)
  <2>1. ASSUME NEW i \in Jobs, Ending(i)
        PROVE  announced' = [announced EXCEPT ![i] = @ + 1]
    BY <2>1 DEF Ending, Announces, Terminal
  <2> QED BY <1>0, <2>1, RegistryMoves DEF Rests, Waits, Letting, registry, TypeOK
<1>17. CASE announced[j] > 0
  <2>1. ~Notes(j) /\ (\A k \in Nat : ~RestOf(k, j) /\ ~AnnounceOf(k, j)) /\ status[j] \in Ended
    BY <1>2, <1>3, <1>17
  <2>2. ~AtFirst(j)
    BY <2>1 DEF AtFirst
  <2>3. ~Ending(j)
    BY <2>1, <2>2 DEF Ending
  <2>4. ~Notes(j)' /\ (\A k \in Nat : ~RestOf(k, j)' /\ ~AnnounceOf(k, j)')
    BY <1>12, <1>14, <2>1, <2>2
  <2>5. announced'[j] <= 1
    BY <1>2, <1>16, <2>3
  <2> QED BY <1>5, <1>6, <1>7, <1>10, <1>11, <1>15, <2>4, <2>5
<1>18. CASE ~(announced[j] > 0)
  <2>1. announced[j] = 0 /\ announced'[j] <= 1
    <3>1. announced[j] \in Nat
      BY <1>0 DEF TypeOK
    <3> QED BY <1>16, <1>18, <3>1
  <2>2. ASSUME Ending(j) PROVE ~Notes(j)' /\ \A k \in Nat : ~RestOf(k, j)' /\ ~AnnounceOf(k, j)'
    <3>1. ~Notes(j)'
      BY <2>2, OfJobIs DEF Ending, Announces, Terminal, Notes
    <3>2. CASE Notes(j)
      BY <1>2, <1>3, <1>12, <3>1, <3>2
    <3> QED BY <1>13, <2>2, <3>1, <3>2 DEF Ending
  <2>3. announced'[j] > 0 => Ending(j)
    BY <1>16, <2>1
  <2> QED BY <1>5, <1>6, <1>7, <1>10, <1>11, <1>15, <2>1, <2>2, <2>3
<1> QED BY <1>17, <1>18

\* Who asks for a job finds it until its end was announced, which happens once for a job that is
\* submitted after jobs that do not come after each other.
Known == Order /\ Ends /\ Nested /\ Once

\* At first no job is submitted, so nothing is to be known.
LEMMA KnownInit == Init => Known
<1> SUFFICES ASSUME Init PROVE Known
  OBVIOUS
<1>0. Order
  BY OrderInit
<1>1. DOMAIN calls = {} /\ DOMAIN deliveries = {} /\ at.op = "nothing"
  BY BareIs DEF Init, Nothing
<1>2. \A j \in Jobs : announced[j] = 0 /\ status[j] = "new"
  BY DEF Init
<1>3. Ends
  BY <1>1, <1>2 DEF Ends, RestOf, AnnounceOf
<1>4. Nested
  BY <1>1 DEF Nested, LooksAt
<1>5. Once
  BY <1>1, <1>2 DEF Once, LooksAt, RestOf, AnnounceOf, Notes
<1> QED BY <1>0, <1>3, <1>4, <1>5 DEF Known

\* No step ends what is known of the jobs.
LEMMA KnownStep ==
  ASSUME Known, [Next]_vars
  PROVE  Known'
<1>1. CASE Next
  BY <1>1, OrderStep, EndsStep, NestedStep, OnceStep DEF Known
<1>2. CASE UNCHANGED vars
  <2>1. Order'
    BY <1>2, OrderStep DEF Known
  <2>2. Ends'
    <3>1. UNCHANGED <<calls, deliveries, at, status, announced, ended, jobs, early>>
      BY <1>2 DEF vars, callers, owning, registry, loopState
    <3>2. \A j \in Jobs \ early', k \in Nat : RestOf(k, j)' \/ AnnounceOf(k, j)' => status'[j] \in Ended
      BY <3>1 DEF Known, Ends, RestOf, AnnounceOf
    <3>3. /\ at'.op = "noting" /\ at'.job \notin early' => status'[at'.job] \in Ended
          /\ at'.op = "letting" => announced'[at'.job] > 0
      BY <3>1 DEF Known, Ends
    <3>4. \A j \in Jobs :
            /\ announced'[j] > 0 =>
                 /\ j \in early' \/ status'[j] \in Ended
                 /\ status'[j] # "new" /\ (j \in ToSet(ended') \/ Len(ended') = Remembered)
            /\ status'[j] # "new" => j \in jobs' \/ announced'[j] > 0
      BY <3>1 DEF Known, Ends
    <3> QED BY <3>2, <3>3, <3>4 DEF Ends
  <2>3. Nested' /\ Once'
    <3>1. UNCHANGED <<calls, deliveries, at, after, waiting, announced, early>>
      BY <1>2 DEF vars, callers, owning, registry, loopState
    <3>2. Nested'
      BY <3>1 DEF Known, Nested, LooksAt, Before, Closed
    <3>3. \A j \in Jobs : Plain(j)' => Plain(j)
      BY <3>1 DEF Plain, Before, Closed
    <3>4. Once'
      BY <3>1, <3>3 DEF Known, Once, LooksAt, RestOf, AnnounceOf, Notes
    <3> QED BY <3>2, <3>4
  <2> QED BY <2>1, <2>2, <2>3 DEF Known
<1> QED BY <1>1, <1>2

\* Who asks for a job it submitted finds it, and its end is announced once.
THEOREM KnownUntilAnnouncedHolds == Spec => []KnownUntilAnnounced
<1>1. ASSUME Known PROVE KnownUntilAnnounced
  <2>1. AnnouncedOnce
    BY <1>1 DEF Known, Once, AnnouncedOnce
  <2>2. NeverInNeither
    BY <1>1 DEF Known, Order, Ends, NeverInNeither
  <2> QED BY <2>1, <2>2 DEF KnownUntilAnnounced
<1> QED BY <1>1, KnownInit, KnownStep, PTL DEF Spec

-----------------------------------------------------------------------------
(* What started comes to its end *)

\* What is left to do behind the first call is left when that is done.
LEMMA LeftToDo ==
  ASSUME Order, Next, NEW k \in DOMAIN calls, k > 1
  PROVE  \E m \in DOMAIN calls' : m \in Nat /\ calls'[m] = calls[k]
<1>0. calls \in Seq(CallItems) /\ DOMAIN calls = 1 .. Len(calls) /\ Len(calls) \in Nat /\ calls # <<>>
  <2>1. calls \in Seq(CallItems)
    BY QueuesHold DEF Order
  <2> QED BY <2>1
<1>1. CASE calls' = Tail(calls)
  <2>1. k - 1 \in DOMAIN calls' /\ k - 1 \in Nat /\ calls'[k - 1] = calls[k]
    BY <1>0, <1>1
  <2> QED BY <2>1
<1>2. ASSUME NEW x \in Jobs, NEW how \in Ended, NEW later \in Seq(CallItems), EndsBy(x, how, later)
      PROVE  \E m \in DOMAIN calls' : m \in Nat /\ calls'[m] = calls[k]
  <2>1. PICK n \in DOMAIN calls' :
          /\ n \in Nat /\ \A a \in DOMAIN calls' : a \in Nat
          /\ DOMAIN calls' = 1 .. Len(calls') /\ (calls # <<>> => Len(calls') = n + Len(calls) - 1)
          /\ \A a \in DOMAIN calls' :
               \/ a < n
               \/ a = n
               \/ /\ a > n /\ a - n + 1 \in DOMAIN calls /\ calls'[a] = calls[a - n + 1]
    BY <1>2, EndsLists
  <2> DEFINE m == n + k - 1
  <2>2. m \in DOMAIN calls' /\ m > n /\ m - n + 1 = k
    BY <1>0, <2>1
  <2> HIDE DEF m
  <2>3. calls'[m] = calls[m - n + 1]
    BY <2>1, <2>2
  <2> QED BY <2>1, <2>2, <2>3
<1>3. ASSUME NEW x \in Jobs, WaitsBy(x) PROVE FALSE
  BY <1>0, <1>3 DEF WaitsBy
<1>4. CASE ListsStops
  BY <1>0, <1>4 DEF ListsStops
<1> QED BY CallsMove, <1>0, <1>1, <1>2, <1>3, <1>4

\* The rest of the end of a job is left to do until the announcement waits for its thread.
LEMMA RestGoesOn ==
  ASSUME Order, Next, NEW j \in Jobs, NEW k \in Nat, RestOf(k, j)
  PROVE  \/ \E m \in Nat : RestOf(m, j)'
         \/ \E m \in Nat : m < Len(deliveries') + 1 /\ AnnounceOf(m, j)'
<1>0. calls \in Seq(CallItems) /\ deliveries \in Seq(DeliveryItems)
  BY QueuesHold DEF Order
<1>1. k \in DOMAIN calls /\ calls[k].op = "rest" /\ calls[k].job = j /\ calls # <<>> /\ k > 0
  BY <1>0 DEF RestOf
<1>2. CASE k > 1
  <2>1. PICK m \in DOMAIN calls' : m \in Nat /\ calls'[m] = calls[k]
    BY <1>1, <1>2, LeftToDo
  <2> QED BY <1>1, <2>1 DEF RestOf
<1>3. CASE k = 1
  <2>1. Head(calls).op = "rest" /\ Head(calls).job = j
    BY <1>0, <1>1, <1>3
  <2>2. Rest
    <3>1. ASSUME NEW x \in Jobs, NEW how \in Ended, NEW later \in Seq(CallItems), EndsBy(x, how, later) PROVE FALSE
      BY <1>1, <2>1, <3>1 DEF EndsBy
    <3>2. ASSUME NEW x \in Jobs, StartsBy(x) \/ WaitsBy(x) PROVE FALSE
      BY <1>1, <2>1, <3>2 DEF StartsBy, WaitsBy
    <3>3. CASE SkipsCall \/ TellDetached \/ Takes \/ OnStop \/ OnDetach \/ OnClose \/ Owns
      BY <1>1, <2>1, <3>3 DEF SkipsCall, TellDetached, Takes, OnStop, OnDetach, OnClose, Owns, Hears, LoopFree
    <3> QED BY <1>1, StepIsOfKind, <3>1, <3>2, <3>3 DEF Kinds
  <2>3. deliveries' = Append(deliveries, OfJob("announce", j)) /\ OfJob("announce", j) \in DeliveryItems
    BY <2>1, <2>2, DeliveriesIn DEF Rest, Deliver
  <2>9. PICK m \in Nat : m = Len(deliveries) + 1
    BY <1>0
  <2>4. m \in DOMAIN deliveries' /\ m \in Nat /\ deliveries'[m] = OfJob("announce", j) /\ m < Len(deliveries') + 1
    BY <1>0, <2>3, <2>9, AppendIs
  <2>5. AnnounceOf(m, j)'
    BY <2>4, OfJobIs DEF AnnounceOf
  <2> QED BY <2>4, <2>5
<1> QED BY <1>1, <1>2, <1>3

\* A job is left to be stopped until it neither runs nor waits.
LEMMA StopGoesOn ==
  ASSUME Order, Next, NEW j \in Jobs, NEW k \in Nat, StopOf(k, j)
  PROVE  \/ \E m \in Nat : StopOf(m, j)'
         \/ j \notin active' \cup waiting' \/ j \in early'
<1>0. calls \in Seq(CallItems)
  BY QueuesHold DEF Order
<1>1. k \in DOMAIN calls /\ calls[k].op = "stop" /\ calls[k].job = j /\ calls # <<>> /\ k > 0
  BY <1>0 DEF StopOf
<1>2. CASE k > 1
  <2>1. PICK m \in DOMAIN calls' : m \in Nat /\ calls'[m] = calls[k]
    BY <1>1, <1>2, LeftToDo
  <2> QED BY <1>1, <2>1 DEF StopOf
<1>3. CASE k = 1
  <2>1. Head(calls).op = "stop" /\ Head(calls).job = j
    BY <1>0, <1>1, <1>3
  <2>2. ASSUME NEW x \in Jobs, NEW how \in Ended, NEW later \in Seq(CallItems), EndsBy(x, how, later)
        PROVE  j \notin active' \cup waiting'
    BY <1>1, <2>1, <2>2 DEF EndsBy, Finishes
  <2>3. CASE SkipsCall
    <3>1. status[j] \notin Alive /\ UNCHANGED <<active, waiting, early>>
      BY <2>1, <2>3 DEF SkipsCall, loopState
    <3> QED BY <3>1 DEF Order, Places, Alive
  <2>4. ASSUME NEW x \in Jobs, StartsBy(x) \/ WaitsBy(x) PROVE FALSE
    BY <1>1, <2>1, <2>4 DEF StartsBy, WaitsBy
  <2>5. CASE Rest \/ TellDetached \/ Takes \/ OnStop \/ OnDetach \/ OnClose \/ Owns
    BY <1>1, <2>1, <2>5 DEF Rest, TellDetached, Takes, OnStop, OnDetach, OnClose, Owns, Hears, LoopFree
  <2> QED BY <1>1, StepIsOfKind, <2>2, <2>3, <2>4, <2>5 DEF Kinds
<1> QED BY <1>1, <1>2, <1>3

\* What is on its way stays that, before what it was before, until it is there.
LEMMA WayGoesOn ==
  ASSUME Order, Next
  PROVE  \E d \in {0, 1} :
           /\ Follow(d) /\ Len(deliveries) <= Len(deliveries') + d
           /\ d = 1 => calls = <<>> /\ (Told \/ Leaves \/ RunFinish \/ Announce)
           /\ \A j \in Jobs, k, e \in Nat :
                OnItsWay(j, k) /\ k <= e + d => j \in finished' \/ OnItsWay(j, e)'
<1>0. deliveries \in Seq(DeliveryItems) /\ deliveries' \in Seq(DeliveryItems)
  <2>1. TypeOK'
    BY TypeStep
  <2>2. deliveries \in Seq(DeliveryItems)
    BY QueuesHold DEF Order
  <2> QED BY <2>1, <2>2 DEF TypeOK, DeliveryItems
<1>1. PICK d \in {0, 1} :
        /\ Follow(d) /\ Len(deliveries) <= Len(deliveries') + d
        /\ d = 1 => calls = <<>> /\ (Told \/ Leaves \/ RunFinish \/ Announce)
  <2>1. Len(deliveries) \in Nat /\ Len(deliveries') \in Nat
    BY <1>0
  <2>2. CASE Follow(0) /\ (Len(deliveries') = Len(deliveries) \/ Len(deliveries') = Len(deliveries) + 1)
    <3>1. Len(deliveries) <= Len(deliveries') + 0
      BY <2>1, <2>2
    <3> QED BY <2>2, <3>1
  <2>3. CASE Follow(1) /\ calls = <<>> /\ (Told \/ Leaves \/ RunFinish \/ Announce) /\ Len(deliveries') = Len(deliveries) - 1
    <3>1. Len(deliveries) <= Len(deliveries') + 1
      BY <2>1, <2>3
    <3> QED BY <2>3, <3>1
  <2> QED BY <2>2, <2>3, DeliveriesMove
<1>2. ASSUME NEW j \in Jobs, NEW k \in Nat, NEW e \in Nat, OnItsWay(j, k), k <= e + d
      PROVE  j \in finished' \/ OnItsWay(j, e)'
  <2>1. CASE at.op \in {"noting", "letting"} /\ at.job = j
    <3>0. at # Nothing
      BY <2>1, BareIs DEF Nothing
    <3>1. ASSUME NEW i \in Jobs, Ending(i) PROVE OnItsWay(j, e)'
      <4>1. i = j /\ at' = OfJob("letting", j)
        BY <2>1, <3>0, <3>1 DEF Ending, AtFirst, Notes, Announces, Terminal
      <4> QED BY <4>1, OfJobIs DEF OnItsWay
    <3>2. ASSUME NEW i \in Jobs, Letting(i) PROVE j \in finished'
      BY <2>1, <3>2 DEF Letting
    <3>3. ASSUME NEW i \in Jobs, Waits(i) PROVE FALSE
      BY <3>0, <3>3 DEF Waits, AtFirst
    <3>4. CASE Rests
      BY <2>1, <3>0, <3>4 DEF Rests, OnItsWay
    <3> QED BY <3>1, <3>2, <3>3, <3>4, RegistryMoves
  <2>2. ASSUME NEW m \in Nat, m < k, AnnounceOf(m, j) PROVE OnItsWay(j, e)'
    <3>0. m \in DOMAIN deliveries /\ deliveries[m].op = "announce" /\ deliveries[m].job = j /\ m > 0
      BY <1>0, <2>2 DEF AnnounceOf
    <3>1. CASE m > d
      <4>1. m - d \in Nat /\ m - d \in DOMAIN deliveries' /\ deliveries'[m - d] = deliveries[m]
        BY <1>1, <3>0, <3>1 DEF Follow
      <4>2. m - d < e
        BY <1>2, <2>2
      <4> DEFINE a == m - d
      <4>3. a \in Nat /\ a < e /\ AnnounceOf(a, j)'
        BY <3>0, <4>1, <4>2 DEF AnnounceOf
      <4> HIDE DEF a
      <4> QED BY <4>3 DEF OnItsWay
    <3>2. CASE m = 1 /\ d = 1
      <4>1. Head(deliveries) = deliveries[1] /\ Head(deliveries).op = "announce" /\ Head(deliveries).job = j
        BY <1>0, <3>0, <3>2
      <4>2. Announce
        BY <1>1, <3>2, <4>1 DEF Told, Leaves, RunFinish, Gets
      <4>3. at' = OfJob("noting", j) \/ at' = OfJob("letting", j)
        BY <4>1, <4>2 DEF Announce, Announces, Terminal
      <4> QED BY <4>3, OfJobIs DEF OnItsWay
    <3> QED BY <1>1, <3>0, <3>1, <3>2
  <2> QED BY <1>2, <2>1, <2>2 DEF OnItsWay
<1> QED BY <1>1, <1>2

\* What ended is not let go of again.
LEMMA FinishedStays ==
  ASSUME Order, Next
  PROVE  finished \subseteq finished'
BY RegistryMoves DEF Rests, Waits, Ending, Announces, Letting, registry

\* Whatever started is followed to its end.
LEMMA FollowedStep ==
  ASSUME Order, Followed, Next
  PROVE  Followed'
<1>0. deliveries \in Seq(DeliveryItems) /\ deliveries' \in Seq(DeliveryItems) /\ TypeOK
  <2>1. TypeOK'
    BY TypeStep
  <2>2. deliveries \in Seq(DeliveryItems)
    BY QueuesHold DEF Order
  <2> QED BY <2>1, <2>2 DEF TypeOK, DeliveryItems, Order
<1>1. ASSUME NEW i \in Jobs, NEW how \in Ended, NEW later \in Seq(CallItems), EndsBy(i, how, later)
      PROVE  \E k \in Nat : RestOf(k, i)'
  <2>1. PICK n \in DOMAIN calls' :
          /\ n \in Nat
          /\ \A a \in DOMAIN calls' :
               \/ a < n
               \/ a = n /\ calls'[a].op = "rest" /\ calls'[a].job = i
               \/ a > n
    BY <1>1, EndsLists
  <2>2. RestOf(n, i)'
    BY <2>1 DEF RestOf
  <2> QED BY <2>1, <2>2
<1>4. ASSUME NEW j \in early' \ early
      PROVE  j \in Jobs /\ \E k \in Nat : RestOf(k, j)'
  <2>1. j \in Jobs
    <3>1. TypeOK'
      BY TypeStep
    <3> QED BY <3>1 DEF TypeOK
  <2> QED BY <1>1, <2>1, EarlyGrows
<1>2. ASSUME NEW j \in started \cup early
      PROVE  \/ j \in (active' \ early') \cup finished'
             \/ OnItsWay(j, Len(deliveries) + 1)' \/ \E k \in Nat : RestOf(k, j)'
  <2>0. j \in Jobs
    BY <1>0 DEF TypeOK
  <2>1. CASE j \in active \ early
    <3>1. ASSUME NEW i \in Jobs, Registers(i) \/ StartsBy(i) \/ WaitsBy(i) PROVE j \in active'
      BY <2>1, <3>1 DEF Registers, StartsBy, WaitsBy, Starts, loopState
    <3>2. ASSUME NEW i \in Jobs, NEW how \in Ended, NEW later \in Seq(CallItems), EndsBy(i, how, later)
          PROVE  j \in active' \/ \E k \in Nat : RestOf(k, j)'
      <4>1. CASE i = j
        BY <1>1, <3>2, <4>1
      <4>2. CASE i # j
        BY <2>1, <3>2, <4>2 DEF EndsBy, Finishes
      <4> QED BY <4>1, <4>2
    <3>3. j \in active' \/ \E k \in Nat : RestOf(k, j)'
      BY <2>1, <3>1, <3>2, MovesOrStays DEF Stays
    <3> QED BY <1>4, <2>1, <3>3
  <2>2. CASE j \in finished
    BY <2>2, FinishedStays
  <2>3. CASE OnItsWay(j, Len(deliveries) + 1)
    <3>1. PICK d \in {0, 1} :
            /\ Len(deliveries) <= Len(deliveries') + d
            /\ \A i \in Jobs, k, e \in Nat :
                 OnItsWay(i, k) /\ k <= e + d => i \in finished' \/ OnItsWay(i, e)'
      BY WayGoesOn
    <3> DEFINE k == Len(deliveries) + 1
               e == Len(deliveries') + 1
    <3>2. k \in Nat /\ e \in Nat /\ k <= e + d
      BY <1>0, <3>1
    <3>3. OnItsWay(j, k)
      BY <2>3
    <3> HIDE DEF k
    <3> QED BY <2>0, <3>1, <3>2, <3>3
  <2>4. CASE \E k \in Nat : RestOf(k, j)
    <3>1. \/ \E m \in Nat : RestOf(m, j)'
          \/ \E m \in Nat : m < Len(deliveries') + 1 /\ AnnounceOf(m, j)'
      BY <2>0, <2>4, RestGoesOn
    <3> QED BY <3>1 DEF OnItsWay
  <2> QED BY <2>1, <2>2, <2>3, <2>4 DEF Followed
<1>3. ASSUME NEW j \in started', j \notin started PROVE j \in active'
  <2>1. ASSUME NEW i \in Jobs, Registers(i) \/ WaitsBy(i) PROVE FALSE
    BY <1>3, <2>1 DEF Registers, WaitsBy, loopState
  <2>2. ASSUME NEW i \in Jobs, NEW how \in Ended, NEW later \in Seq(CallItems), EndsBy(i, how, later) PROVE FALSE
    BY <1>3, <2>2 DEF EndsBy, Finishes
  <2>3. ASSUME NEW i \in Jobs, StartsBy(i) PROVE j \in active'
    BY <1>3, <2>3 DEF StartsBy, Starts
  <2> QED BY <1>3, <2>1, <2>2, <2>3, MovesOrStays DEF Stays
<1> QED BY <1>2, <1>3, <1>4 DEF Followed

-----------------------------------------------------------------------------
(* What `detach` does *)

\* Where the owner is, and what it detached and closed, is changed by its own steps alone.
LEMMA OwnerMoves ==
  ASSUME Order, Next
  PROVE  \/ UNCHANGED <<attached, closed, owner>>
         \/ calls = <<>> /\ Owns /\ DetachBegins
         \/ calls = <<>> /\ Owns /\ DetachSettles
         \/ /\ calls = <<>> /\ Owns
            /\ owner # "detaching" /\ owner' \notin {"idle", "detaching"} /\ UNCHANGED <<attached, told>>
<1>1. ASSUME NEW j \in Jobs, SubmitBegins(j) \/ Registers(j) \/ Submits(j) \/ Records(j) \/ Cancel(j) \/ CallsBack(j)
      PROVE  UNCHANGED owning
  BY <1>1 DEF SubmitBegins, Registers, Submits, Records, Cancel, CallsBack, callers
<1>2. ASSUME NEW j \in Jobs, NEW how \in Ended, NEW later \in Seq(CallItems), EndsBy(j, how, later)
      PROVE  UNCHANGED owning
  BY <1>2 DEF EndsBy, beside
<1>3. ASSUME NEW j \in Jobs, StartsBy(j) \/ WaitsBy(j) PROVE UNCHANGED owning
  BY <1>3 DEF StartsBy, WaitsBy, beside
<1>4. ASSUME SkipsCall \/ Takes PROVE UNCHANGED owning
  BY <1>4 DEF SkipsCall, Takes, beside
<1>6. ASSUME Rest \/ TellDetached \/ OnStop \/ OnDetach \/ OnClose PROVE UNCHANGED owning
  BY <1>6 DEF Rest, TellDetached, OnStop, OnDetach, OnClose, notLoop
<1>7. ASSUME Delivery PROVE UNCHANGED owning
  BY <1>7 DEF Delivery, Told, Leaves, RunFinish, Announce, Noted, LetsGo, notDelivery
<1>5. CASE Owns
  <2>1. CASE DetachBegins \/ DetachSettles
    BY <1>5, <2>1 DEF Owns
  <2>2. CASE DetachEnds \/ CloseBegins \/ CloseEndsLoop \/ CloseEndsDelivery \/ CloseEnds
    BY <1>5, <2>2 DEF Owns, DetachEnds, CloseBegins, CloseEndsLoop, CloseEndsDelivery, CloseEnds
  <2> QED BY <1>5, <2>1, <2>2 DEF Owns, Owner
<1> QED BY <1>1, <1>2, <1>3, <1>4, <1>5, <1>6, <1>7, StepIsOfKind DEF Kinds, owning

\* Who sets and clears what `detach` waits for.
LEMMA ToldMoves ==
  ASSUME Order, Next
  PROVE  \/ UNCHANGED told
         \/ calls = <<>> /\ DetachSettles /\ told' = FALSE
         \/ calls = <<>> /\ Told
         \/ calls = <<>> /\ events # <<>> /\ Head(events).op = "told"
<1>1. ASSUME NEW j \in Jobs, SubmitBegins(j) \/ Registers(j) \/ Submits(j) \/ Records(j) \/ Cancel(j) \/ CallsBack(j)
      PROVE  UNCHANGED told
  BY <1>1 DEF SubmitBegins, Registers, Submits, Records, Cancel, CallsBack
<1>2. ASSUME NEW j \in Jobs, NEW how \in Ended, NEW later \in Seq(CallItems), EndsBy(j, how, later)
      PROVE  UNCHANGED told
  BY <1>2 DEF EndsBy, beside
<1>3. ASSUME NEW j \in Jobs, StartsBy(j) \/ WaitsBy(j) PROVE UNCHANGED told
  BY <1>3 DEF StartsBy, WaitsBy, beside
<1>4. CASE SkipsCall \/ Rest \/ TellDetached \/ OnStop \/ OnDetach \/ OnClose
  BY <1>4 DEF SkipsCall, Rest, TellDetached, OnStop, OnDetach, OnClose, beside
<1>5. CASE Takes
  BY <1>5 DEF Takes
<1>6. CASE Owns
  BY <1>6 DEF Owns, Owner, DetachBegins, DetachSettles, DetachEnds, CloseBegins, CloseEndsLoop,
              CloseEndsDelivery, CloseEnds
<1>7. CASE calls = <<>> /\ Delivery
  BY <1>7 DEF Delivery, Leaves, RunFinish, Announce, Noted, LetsGo
<1> QED BY <1>1, <1>2, <1>3, <1>4, <1>5, <1>6, <1>7, StepIsOfKind DEF Kinds

\* Without the journal no job of it begins to run or to wait.
LEMMA NothingStarts ==
  ASSUME Order, Next, ~attached
  PROVE  /\ Journaled \cap (active' \cup waiting') \subseteq active \cup waiting
         /\ Journaled \cap started' \subseteq started \cup waiting
<1>1. ASSUME NEW j \in Jobs, Registers(j) PROVE UNCHANGED <<active, waiting, started>>
  BY <1>1 DEF Registers, loopState
<1>2. ASSUME NEW j \in Jobs, NEW how \in Ended, NEW later \in Seq(CallItems), EndsBy(j, how, later)
      PROVE  active' \subseteq active /\ waiting' \subseteq waiting /\ started' = started
  BY <1>2 DEF EndsBy, Finishes
<1>3. ASSUME NEW j \in Jobs, StartsBy(j)
      PROVE  /\ active' = active \cup {j} /\ waiting' = waiting \ {j} /\ started' = started \cup {j}
             /\ j \in waiting \/ j \notin Journaled
  BY <1>3 DEF StartsBy, Starts, DetachedBefore
<1>4. ASSUME NEW j \in Jobs, WaitsBy(j)
      PROVE  active' = active /\ waiting' = waiting \cup {j} /\ started' = started /\ j \notin Journaled
  BY <1>4 DEF WaitsBy, DetachedBefore
<1> QED BY <1>1, <1>2, <1>3, <1>4, MovesOrStays DEF Stays

\* So what is quiet stays quiet.
LEMMA QuietStays ==
  ASSUME Order, Next, ~attached, Quiet
  PROVE  Quiet'
<1>1. Journaled \cap (active' \cup waiting') \subseteq active \cup waiting
  BY NothingStarts
<1>2. Journaled \cap started' \subseteq started \cup waiting
  BY NothingStarts
<1>3. finished \subseteq finished' /\ early \subseteq early'
  BY FinishedStays, EarlyGrows
<1>4. active \subseteq started
  BY DEF Order, TypeOK
<1> QED BY <1>1, <1>2, <1>3, <1>4 DEF Quiet

\* The events of the owner wait for the loop until it takes them.
LEMMA OwnersEvents ==
  ASSUME Order, Next
  PROVE  \E d \in {0, 1} :
           \A k \in DOMAIN events' : k \in Nat /\
             (events'[k].op \in {"detach", "told"} =>
                \/ k + d \in DOMAIN events /\ events'[k] = events[k + d]
                \/ k = Len(events) + 1 /\ d = 0 /\ events'[k].op = "detach" /\ DetachBegins
                \/ k = Len(events) + 1 /\ d = 0 /\ events'[k].op = "told" /\ DetachSettles)
<1>1. PICK d \in {0, 1} : From(d)
  BY EventsMove
<1>2. ASSUME NEW e, e.op \in {"detach", "told"}, IsPut(e)
      PROVE  (e.op = "detach" /\ DetachBegins) \/ (e.op = "told" /\ DetachSettles)
  <2>1. ASSUME NEW j \in Jobs, NEW how,
               e = OfJob("submit", j) \/ e = Item("stop", j, "canceled") \/ e = Item("finished", j, how)
        PROVE  FALSE
    BY <1>2, <2>1, OfJobIs, ItemIs
  <2>2. ASSUME NEW op, e = Bare(op), op = "detach" => DetachBegins, op = "told" => DetachSettles
        PROVE  (e.op = "detach" /\ DetachBegins) \/ (e.op = "told" /\ DetachSettles)
    <3>1. e.op = op
      BY <2>2, BareIs
    <3> QED BY <1>2, <2>2, <3>1
  <2> QED BY <1>2, <2>1, <2>2 DEF IsPut
<1>3. ASSUME NEW k \in DOMAIN events', events'[k].op \in {"detach", "told"}
      PROVE  \/ k + d \in DOMAIN events /\ events'[k] = events[k + d]
             \/ k = Len(events) + 1 /\ d = 0 /\ events'[k].op = "detach" /\ DetachBegins
             \/ k = Len(events) + 1 /\ d = 0 /\ events'[k].op = "told" /\ DetachSettles
  <2>1. CASE k = Len(events) + 1 /\ d = 0 /\ IsPut(events'[k])
    <3>1. PICK e : e = events'[k]
      OBVIOUS
    <3> QED BY <1>2, <1>3, <2>1, <3>1
  <2> QED BY <1>1, <2>1 DEF From
<1>4. \A k \in DOMAIN events' : k \in Nat
  BY <1>1 DEF From
<1> QED BY <1>3, <1>4

\* What waits for the loop and is not the first of what it takes still waits.
LEMMA StillHeeded ==
  ASSUME Order, Next, ~Heeded
  PROVE  OnDetach \/ ~Heeded'
<1>0. events \in Seq(EventItems) /\ events # <<>>
  <2>1. events \in Seq(EventItems)
    BY QueuesHold DEF Order
  <2> QED BY <2>1 DEF Heeded
<1>1. PICK k \in DOMAIN events : k \in Nat /\ events[k].op = "detach"
  BY <1>0 DEF Heeded
<1>2. ASSUME events' = events PROVE ~Heeded'
  BY <1>1, <1>2 DEF Heeded
<1>3. ASSUME NEW e \in EventItems, events' = Append(events, e) PROVE ~Heeded'
  <2>1. k \in DOMAIN events' /\ events'[k] = events[k]
    BY <1>0, <1>1, <1>3
  <2> QED BY <1>1, <2>1 DEF Heeded
<1>4. ASSUME events' = Tail(events), Head(events).op # "detach" PROVE ~Heeded'
  <2>1. k > 1
    BY <1>0, <1>1, <1>4
  <2>2. PICK m \in Nat : m = k - 1
    BY <1>1, <2>1
  <2>3. m \in DOMAIN events' /\ events'[m] = events[k]
    BY <1>0, <1>1, <1>4, <2>1, <2>2
  <2> QED BY <1>1, <2>3 DEF Heeded
<1>5. ASSUME NEW j \in Jobs, SubmitBegins(j) \/ Registers(j) \/ Submits(j) \/ Records(j) \/ Cancel(j) \/ CallsBack(j)
      PROVE  ~Heeded'
  <2>1. OfJob("submit", j) \in EventItems /\ Item("stop", j, "canceled") \in EventItems
    BY EventsIn
  <2> QED BY <1>2, <1>3, <1>5, <2>1 DEF SubmitBegins, Registers, Submits, Records, Cancel, CallsBack, Tell
<1>6. ASSUME NEW j \in Jobs, NEW how \in Ended, NEW later \in Seq(CallItems), EndsBy(j, how, later)
      PROVE  ~Heeded'
  BY <1>2, <1>4, <1>6 DEF EndsBy, Drains
<1>7. ASSUME NEW j \in Jobs, StartsBy(j) \/ WaitsBy(j) PROVE ~Heeded'
  BY <1>2, <1>4, <1>7 DEF StartsBy, WaitsBy
<1>8. CASE SkipsCall \/ Rest \/ TellDetached
  BY <1>2, <1>8 DEF SkipsCall, Rest, TellDetached
<1>9. CASE Takes \/ OnStop \/ OnClose
  BY <1>4, <1>9 DEF Takes, OnStop, OnClose, Hears
<1>10. CASE Owns
  <2>1. events' = events \/ \E op \in {"detach", "told", "close", "end"} : events' = Append(events, Bare(op))
    BY <1>10 DEF Owns
  <2>2. \A op \in {"detach", "told", "close", "end"} : Bare(op) \in EventItems
    BY BareIn
  <2> QED BY <1>2, <1>3, <2>1, <2>2
<1>11. CASE Delivery
  <2>1. CASE RunFinish
    <3>1. Head(deliveries).job \in Jobs
      BY <2>1, FirstDelivery DEF RunFinish
    <3>2. PICK j \in Jobs : j = Head(deliveries).job
      BY <3>1
    <3>3. \A how \in {"ok", "raised"} : Item("finished", j, how) \in EventItems
      BY EventsIn
    <3> QED BY <1>3, <2>1, <3>2, <3>3 DEF RunFinish, Tell
  <2>2. CASE Announce
    <3>1. Bare("noted") \in EventItems
      BY BareIn
    <3> QED BY <1>2, <1>3, <2>2, <3>1 DEF Announce, Tell
  <2>3. CASE Told \/ Leaves \/ Noted \/ LetsGo
    BY <1>2, <2>3 DEF Told, Leaves, Noted, LetsGo
  <2> QED BY <1>11, <2>1, <2>2, <2>3 DEF Delivery
<1> QED BY <1>5, <1>6, <1>7, <1>8, <1>9, <1>10, <1>11, StepIsOfKind DEF Kinds
\* The call that tells the owner is put behind all others, and stays that.
LEMMA TellsMove ==
  ASSUME Order, Next, NEW k \in DOMAIN calls', calls'[k].op = "tell"
  PROVE  \/ OnDetach /\ k = Len(calls')
         \/ /\ calls # <<>>
            /\ \E m \in DOMAIN calls :
                 m > 1 /\ calls[m].op = "tell" /\ (m = Len(calls) => k = Len(calls'))
<1>0. calls \in Seq(CallItems) /\ TypeOK /\ Places
  BY QueuesHold DEF Order
<1>1. ASSUME calls = <<>>, calls' = calls PROVE FALSE
  BY <1>1
<1>2. ASSUME calls # <<>>, calls' = Tail(calls)
      PROVE  \E m \in DOMAIN calls : m > 1 /\ calls[m].op = "tell" /\ (m = Len(calls) => k = Len(calls'))
  <2>1. /\ k \in Nat /\ k > 0 /\ k + 1 \in DOMAIN calls /\ calls'[k] = calls[k + 1]
        /\ Len(calls') = Len(calls) - 1 /\ Len(calls) \in Nat
    BY <1>0, <1>2
  <2> QED BY <2>1
<1>3. ASSUME NEW x \in Jobs, NEW how \in Ended, NEW later \in Seq(CallItems), EndsBy(x, how, later)
      PROVE  /\ calls # <<>>
             /\ \E m \in DOMAIN calls : m > 1 /\ calls[m].op = "tell" /\ (m = Len(calls) => k = Len(calls'))
  <2>1. PICK n \in DOMAIN calls' :
          /\ n \in Nat /\ \A a \in DOMAIN calls' : a \in Nat
          /\ DOMAIN calls' = 1 .. Len(calls') /\ (calls # <<>> => Len(calls') = n + Len(calls) - 1)
          /\ \A a \in DOMAIN calls' :
               \/ a < n /\ calls'[a].op = "look"
               \/ a = n /\ calls'[a].op = "rest"
               \/ a > n /\ a - n + 1 \in DOMAIN calls /\ calls'[a] = calls[a - n + 1] /\ calls # <<>>
    BY <1>3, EndsLists
  <2>2. k > n /\ k - n + 1 \in DOMAIN calls /\ calls'[k] = calls[k - n + 1] /\ calls # <<>>
    BY <2>1
  <2>3. PICK m \in DOMAIN calls : m = k - n + 1
    BY <2>2
  <2>4. m > 1 /\ calls[m].op = "tell"
    BY <2>1, <2>2, <2>3
  <2>5. m = Len(calls) => k = Len(calls')
    BY <1>0, <2>1, <2>2, <2>3
  <2> QED BY <2>2, <2>4, <2>5
<1>4. ASSUME NEW x \in Jobs, WaitsBy(x) PROVE FALSE
  <2>1. calls' = <<OfJob("look", x)>>
    BY <1>4 DEF WaitsBy
  <2>2. k = 1 /\ calls'[k] = OfJob("look", x)
    BY <2>1
  <2> QED BY <2>2, OfJobIs
<1>5. CASE OnStop
  <2>1. Head(events) \in EventItems /\ calls' = <<[Head(events) EXCEPT !.op = "stop"]>>
    <3>1. events \in Seq(EventItems)
      BY QueuesHold DEF Order
    <3> QED BY <1>5, <3>1 DEF OnStop, Hears
  <2>2. PICK e : e = [Head(events) EXCEPT !.op = "stop"]
    OBVIOUS
  <2>3. e.op = "stop"
    BY <2>1, <2>2 DEF EventItems, Items
  <2>4. calls'[k] = e
    BY <2>1, <2>2
  <2> QED BY <2>3, <2>4
<1>6. CASE OnClose
  <2>1. StopAll(Jobs, <<>>)
    BY <1>6 DEF OnClose
  <2>2. <<>> \in Seq(CallItems) /\ Jobs \in SUBSET Jobs /\ DOMAIN <<>> = {}
    OBVIOUS
  <2>3. PICK n \in Nat :
          \A a \in DOMAIN calls' :
               \/ a <= n /\ calls'[a].op = "stop"
               \/ a > n /\ a - n \in DOMAIN <<>>
    BY <1>0, <2>1, <2>2, StopAllDoes
  <2> QED BY <2>2, <2>3
<1>7. CASE OnDetach
  <2>1. StopAll(Journaled, <<Bare("tell")>>) /\ Journaled \in SUBSET Jobs
    BY <1>7, JobsAssumption DEF OnDetach, JobsAssumption
  <2>2. PICK last : last = <<Bare("tell")>>
    OBVIOUS
  <2>3. last \in Seq(CallItems) /\ DOMAIN last = {1} /\ Len(last) = 1
    BY <2>2, BareIn
  <2>4. PICK n \in Nat :
          /\ Len(calls') = n + Len(last)
          /\ \A a \in DOMAIN calls' :
               \/ a <= n /\ calls'[a].op = "stop"
               \/ a > n /\ a - n \in DOMAIN last
    BY <1>0, <2>1, <2>2, <2>3, StopAllDoes
  <2>5. k > n /\ k - n = 1
    BY <2>3, <2>4
  <2>6. k \in Nat
    <3>1. calls' \in Seq(CallItems)
      BY <1>0, <2>1, <2>2, <2>3, StopAllDoes
    <3> QED BY <3>1
  <2> QED BY <1>7, <2>3, <2>4, <2>5, <2>6
<1>8. ASSUME NEW j \in Jobs, calls = <<>>,
             SubmitBegins(j) \/ Registers(j) \/ Submits(j) \/ Records(j) \/ Cancel(j) \/ CallsBack(j)
      PROVE  FALSE
  BY <1>1, <1>8 DEF SubmitBegins, Registers, Submits, Records, Cancel, CallsBack
<1>9. ASSUME NEW j \in Jobs, StartsBy(j)
      PROVE  calls # <<>> /\ calls' = Tail(calls)
  BY <1>1, <1>9 DEF StartsBy
<1>10. ASSUME SkipsCall \/ Rest \/ TellDetached PROVE calls # <<>> /\ calls' = Tail(calls)
  BY <1>10 DEF SkipsCall, Rest, TellDetached
<1>11. CASE Takes
  BY <1>1, <1>11 DEF Takes
<1>12. CASE Owns
  BY <1>1, <1>12 DEF Owns, ofOthers
<1>13. ASSUME calls = <<>>, Delivery PROVE FALSE
  BY <1>1, <1>13 DEF Delivery, Told, Leaves, RunFinish, Announce, Noted, LetsGo, notDelivery
<1> QED BY <1>2, <1>3, <1>4, <1>5, <1>6, <1>7, <1>8, <1>9, <1>10, <1>11, <1>12, <1>13, StepIsOfKind DEF Kinds

\* What stands behind the callbacks was put there when there was nothing more to stop.
LEMMA ToldsMove ==
  ASSUME Order, NEW d \in {0, 1}, Follow(d), NEW k \in DOMAIN deliveries', deliveries'[k].op = "told"
  PROVE  \/ k + d \in DOMAIN deliveries /\ deliveries[k + d].op = "told"
         \/ k = Len(deliveries) + 1 /\ d = 0 /\ TellDetached
<1>1. ASSUME NEW e, e.op = "told", IsDelivered(e) PROVE TellDetached
  BY <1>1, OfJobIs, BareIs DEF IsDelivered
<1>2. CASE k = Len(deliveries) + 1 /\ d = 0 /\ IsDelivered(deliveries'[k])
  <2>1. PICK e : e = deliveries'[k]
    OBVIOUS
  <2> QED BY <1>1, <1>2, <2>1
<1> QED BY <1>2 DEF Follow

\* When the owner is told, what there was to stop is stopped, and all that started is ahead.
LEMMA TellDetachedDoes ==
  ASSUME Order, Followed, Detach, TellDetached
  PROVE  /\ owner = "detaching" /\ Untold /\ ~attached
         /\ Journaled \cap (active \cup waiting) \subseteq early
         /\ \A j \in Journaled \cap (started \cup waiting) : j \in finished \/ OnItsWay(j, Len(deliveries) + 1)
         /\ UNCHANGED <<owner, told, active, waiting, started, early>>
<1>0. calls \in Seq(CallItems)
  BY QueuesHold DEF Order
<1>1. calls # <<>> /\ Head(calls).op = "tell" /\ UNCHANGED <<owner, told, active, waiting, started, early>>
  BY DEF TellDetached, notLoop, owning, loopState
<1>2. 1 \in DOMAIN calls /\ calls[1].op = "tell"
  BY <1>0, <1>1
<1>3. Len(calls) = 1 /\ owner = "detaching" /\ Untold
  BY <1>2 DEF Detach, Stopping
<1>4. ~attached /\ Heeded
  BY <1>2 DEF Detach, Asked, Untelling
<1>5. ASSUME NEW k \in DOMAIN calls PROVE calls[k].op = "tell"
  <2>1. k = 1
    BY <1>0, <1>3
  <2> QED BY <1>2, <2>1
<1>6. \A j \in Jobs, k \in Nat : ~StopOf(k, j) /\ ~RestOf(k, j)
  BY <1>5 DEF StopOf, RestOf
<1>7. active \subseteq Jobs /\ waiting \subseteq Jobs /\ started \subseteq Jobs
  BY DEF Order, TypeOK
<1>8. Journaled \cap (active \cup waiting) \subseteq early
  BY <1>4, <1>6, <1>7 DEF Detach, Stopping
<1>9. ASSUME NEW j \in Journaled \cap (started \cup waiting)
      PROVE  j \in finished \/ OnItsWay(j, Len(deliveries) + 1)
  <2>1. j \notin active \ early /\ j \in started \cup early /\ \A k \in Nat : ~RestOf(k, j)
    BY <1>6, <1>7, <1>8
  <2> QED BY <2>1 DEF Followed
<1> QED BY <1>1, <1>3, <1>4, <1>8, <1>9

\* The owner is told by nothing before it is its turn.
LEMMA UntoldStays ==
  ASSUME Order, Detach, Next, Untold, Untelling, attached \/ owner = "detaching"
  PROVE  Untold'
<1>0. deliveries \in Seq(DeliveryItems) /\ events \in Seq(EventItems)
  BY QueuesHold DEF Order
<1>1. UNCHANGED told
  <2>1. CASE DetachSettles
    BY <2>1 DEF DetachSettles, Untold
  <2>2. CASE Told
    <3>1. 1 \in DOMAIN deliveries /\ deliveries[1].op = "told"
      BY <2>2, FirstDelivery DEF Told
    <3> QED BY <3>1 DEF Untold
  <2>3. CASE events # <<>> /\ Head(events).op = "told"
    <3>1. 1 \in DOMAIN events /\ events[1].op = "told"
      BY <1>0, <2>3
    <3> QED BY <3>1 DEF Detach, DetachHeardOnce
  <2> QED BY <2>1, <2>2, <2>3, ToldMoves
<1>2. PICK d \in {0, 1} : Follow(d)
  BY WayGoesOn
<1>3. ~TellDetached
  <2>1. calls \in Seq(CallItems)
    BY QueuesHold DEF Order
  <2> QED BY <2>1 DEF TellDetached, Untelling
<1>4. ASSUME NEW k \in DOMAIN deliveries', deliveries'[k].op = "told" PROVE FALSE
  BY <1>2, <1>3, <1>4, ToldsMove DEF Untold
<1> QED BY <1>1, <1>4 DEF Untold
\* `detach` is heard once, ...
LEMMA HeardOnceStep ==
  ASSUME Order, Detach, Next
  PROVE  DetachHeardOnce'
<1>0. PICK d \in {0, 1} :
        \A k \in DOMAIN events' : k \in Nat /\
          (events'[k].op \in {"detach", "told"} =>
             \/ k + d \in DOMAIN events /\ events'[k] = events[k + d]
             \/ k = Len(events) + 1 /\ d = 0 /\ events'[k].op = "detach" /\ DetachBegins
             \/ k = Len(events) + 1 /\ d = 0 /\ events'[k].op = "told" /\ DetachSettles)
  BY OwnersEvents
<1>1. ASSUME NEW k \in DOMAIN events', NEW m \in DOMAIN events', events'[k].op = "detach", events'[m].op = "detach"
      PROVE  k = m
  <2>1. CASE DetachBegins
    <3>1. \A n \in DOMAIN events : events[n].op # "detach"
      BY <2>1 DEF DetachBegins, Detach, Asked, Heeded
    <3> QED BY <1>0, <1>1, <3>1
  <2>2. CASE ~DetachBegins
    <3>1. /\ k \in Nat /\ m \in Nat
          /\ k + d \in DOMAIN events /\ events[k + d].op = "detach"
          /\ m + d \in DOMAIN events /\ events[m + d].op = "detach"
      BY <1>0, <1>1, <2>2
    <3>2. k + d = m + d
      BY <3>1 DEF Detach, DetachHeardOnce
    <3> QED BY <3>1, <3>2
  <2> QED BY <2>1, <2>2
<1>2. ASSUME NEW k \in DOMAIN events', events'[k].op = "told"
      PROVE  ~attached' /\ owner' \notin {"idle", "detaching"}
  <2>1. CASE DetachSettles
    <3>1. ~attached
      BY <2>1 DEF DetachSettles, Detach, Asked, Untold
    <3> QED BY <2>1, <3>1 DEF DetachSettles
  <2>2. CASE ~DetachSettles
    <3>1. k + d \in DOMAIN events /\ events[k + d].op = "told"
      BY <1>0, <1>2, <2>2
    <3>2. ~attached /\ owner \notin {"idle", "detaching"}
      BY <3>1 DEF Detach, DetachHeardOnce
    <3>3. ~DetachBegins
      BY <3>2 DEF DetachBegins
    <3> QED BY <2>2, <3>2, <3>3, OwnerMoves
  <2> QED BY <2>1, <2>2
<1> QED BY <1>1, <1>2 DEF DetachHeardOnce

\* ... until then nothing of it is done, ...
LEMMA AskedStep ==
  ASSUME Order, Detach, Next
  PROVE  Asked'
<1>0. PICK d \in {0, 1} :
        \A k \in DOMAIN events' : k \in Nat /\
          (events'[k].op \in {"detach", "told"} =>
             \/ k + d \in DOMAIN events /\ events'[k] = events[k + d]
             \/ k = Len(events) + 1 /\ d = 0 /\ events'[k].op = "detach" /\ DetachBegins
             \/ k = Len(events) + 1 /\ d = 0 /\ events'[k].op = "told" /\ DetachSettles)
  BY OwnersEvents
<1>1. owner' = "idle" => attached'
  BY OwnerMoves DEF Detach, Asked, DetachBegins, DetachSettles
<1>2. attached' => attached /\ ~DetachBegins
  BY OwnerMoves DEF DetachBegins, DetachSettles
<1>3. ASSUME Untelling PROVE Untelling' \/ OnDetach
  BY <1>3, TellsMove DEF Untelling
<1>4. ASSUME attached' PROVE Heeded' /\ Untold' /\ Untelling'
  <2>1. attached /\ ~DetachBegins /\ Heeded /\ Untold /\ Untelling
    BY <1>2, <1>4 DEF Detach, Asked
  <2>2. Heeded'
    BY <1>0, <2>1 DEF Heeded
  <2>3. Untold'
    BY <2>1, UntoldStays
  <2>4. ~OnDetach
    <3>1. events \in Seq(EventItems)
      BY QueuesHold DEF Order
    <3> QED BY <2>1, <3>1 DEF OnDetach, Hears, Heeded
  <2> QED BY <1>3, <2>1, <2>2, <2>3, <2>4
<1>5. ASSUME ~Heeded' PROVE owner' = "detaching" /\ Untold' /\ Untelling'
  <2>1. PICK k \in DOMAIN events' : events'[k].op = "detach"
    BY <1>5 DEF Heeded
  <2>2. CASE DetachBegins
    <3>1. attached /\ Untold /\ Untelling /\ owner' = "detaching" /\ calls' = calls
      BY <2>2 DEF DetachBegins, Detach, Asked, ofOthers
    <3>2. Untold'
      BY <3>1, UntoldStays
    <3> QED BY <3>1, <3>2 DEF Untelling
  <2>3. CASE ~DetachBegins
    <3>1. k \in Nat /\ k + d \in DOMAIN events /\ events[k + d].op = "detach" /\ events'[k] = events[k + d]
      BY <1>0, <2>1, <2>3
    <3>2. owner = "detaching" /\ Untold /\ Untelling
      BY <3>1 DEF Detach, Asked, Heeded
    <3>3. Untold'
      BY <3>2, UntoldStays
    <3>4. owner' = "detaching"
      <4>1. ~DetachSettles
        BY <3>2 DEF DetachSettles, Untold
      <4> QED BY <2>3, <3>2, <4>1, OwnerMoves
    <3>5. ~OnDetach
      <4>1. events \in Seq(EventItems)
        BY QueuesHold DEF Order
      <4>2. ASSUME OnDetach PROVE FALSE
        <5>1. 1 \in DOMAIN events /\ events[1].op = "detach" /\ events' = Tail(events)
          BY <4>1, <4>2 DEF OnDetach, Hears
        <5>2. k + 1 \in DOMAIN events /\ events'[k] = events[k + 1] /\ k > 0
          BY <4>1, <2>1, <5>1
        <5>3. k + 1 = 1
          BY <2>1, <5>1, <5>2 DEF Detach, DetachHeardOnce
        <5> QED BY <3>1, <5>2, <5>3
      <4> QED BY <4>2
    <3> QED BY <1>3, <3>2, <3>3, <3>4, <3>5
  <2> QED BY <2>2, <2>3
<1> QED BY <1>1, <1>4, <1>5 DEF Asked

\* ... then every job of the journal is stopped, ...
LEMMA StoppingStep ==
  ASSUME Order, Detach, Next
  PROVE  Stopping'
<1>0. TypeOK /\ Places /\ calls \in Seq(CallItems) /\ deliveries \in Seq(DeliveryItems)
  BY QueuesHold DEF Order
<1>1. ASSUME ~attached', Heeded', NEW j \in Journaled \cap (active' \cup waiting')
      PROVE  j \in early' \/ \E k \in Nat : StopOf(k, j)'
  <2>1. CASE attached
    <3>1. DetachBegins
      BY <1>1, <2>1, OwnerMoves DEF DetachSettles
    <3>2. events \in Seq(EventItems) /\ Bare("detach") \in EventItems /\ Bare("detach").op = "detach"
      <4>1. events \in Seq(EventItems)
        BY QueuesHold DEF Order
      <4> QED BY <4>1, BareIn, BareIs
    <3>3. \E k \in DOMAIN events' : events'[k].op = "detach"
      <4>1. events' = Append(events, Bare("detach"))
        BY <3>1 DEF DetachBegins, Tell
      <4>2. PICK k : k = Len(events) + 1
        OBVIOUS
      <4>3. k \in DOMAIN events' /\ events'[k] = Bare("detach")
        BY <3>2, <4>1, <4>2
      <4> QED BY <3>2, <4>3
    <3> QED BY <1>1, <3>3 DEF Heeded
  <2>2. CASE ~attached
    <3>1. j \in Journaled \cap (active \cup waiting) /\ j \in Jobs
      <4>1. Journaled \cap (active' \cup waiting') \subseteq active \cup waiting
        BY <2>2, NothingStarts
      <4> QED BY <1>0, <1>1, <4>1 DEF TypeOK
    <3>2. CASE Heeded
      <4>1. j \in early \/ \E k \in Nat : StopOf(k, j)
        BY <2>2, <3>1, <3>2 DEF Detach, Stopping
      <4>2. ASSUME NEW k \in Nat, StopOf(k, j) PROVE j \in early' \/ \E m \in Nat : StopOf(m, j)'
        BY <1>1, <3>1, <4>2, StopGoesOn
      <4> QED BY <4>1, <4>2, EarlyGrows
    <3>3. CASE ~Heeded
      <4>1. OnDetach
        BY <1>1, <3>3, StillHeeded
      <4>2. StopAll(Journaled, <<Bare("tell")>>) /\ Journaled \in SUBSET Jobs
        BY <4>1, JobsAssumption DEF OnDetach, JobsAssumption
      <4>6. PICK last : last = <<Bare("tell")>>
        OBVIOUS
      <4>3. last = <<Bare("tell")>> /\ last \in Seq(CallItems)
        BY <4>6, BareIn
      <4>4. calls' \in Seq(CallItems) /\ \E k \in DOMAIN calls' : calls'[k].op = "stop" /\ calls'[k].job = j
        BY <1>0, <3>1, <4>2, <4>3, StopAllDoes
      <4>5. PICK k \in DOMAIN calls' : calls'[k].op = "stop" /\ calls'[k].job = j /\ k \in Nat
        BY <4>4
      <4> QED BY <4>5 DEF StopOf
    <3> QED BY <3>2, <3>3
  <2> QED BY <2>1, <2>2
<1>2. ASSUME NEW k \in DOMAIN calls', calls'[k].op = "tell"
      PROVE  k = Len(calls') /\ owner' = "detaching" /\ Untold'
  <2>1. CASE OnDetach /\ k = Len(calls')
    <3>1. UNCHANGED <<owner, told, deliveries>> /\ ~Heeded
      <4>1. events \in Seq(EventItems)
        BY QueuesHold DEF Order
      <4> QED BY <2>1, <4>1 DEF OnDetach, notLoop, owning, Hears, Heeded
    <3>2. owner = "detaching" /\ Untold
      BY <3>1 DEF Detach, Asked
    <3> QED BY <2>1, <3>1, <3>2 DEF Untold
  <2>2. ASSUME calls # <<>>, NEW m \in DOMAIN calls,
               m > 1, calls[m].op = "tell", m = Len(calls) => k = Len(calls')
        PROVE  k = Len(calls') /\ owner' = "detaching" /\ Untold'
    <3>1. m = Len(calls) /\ owner = "detaching" /\ Untold
      BY <2>2 DEF Detach, Stopping
    <3>2. owner' = owner
      BY <2>2, OwnerMoves
    <3>3. UNCHANGED told
      BY <2>2, ToldMoves
    <3>4. ~TellDetached
      <4>1. ASSUME TellDetached PROVE FALSE
        <5>1. 1 \in DOMAIN calls /\ calls[1].op = "tell"
          BY <1>0, <4>1 DEF TellDetached
        <5>2. 1 = Len(calls)
          BY <5>1 DEF Detach, Stopping
        <5>3. m \in Nat /\ Len(calls) \in Nat
          BY <1>0
        <5>4. m = 1
          BY <3>1, <5>2
        <5> QED BY <2>2, <5>3, <5>4
      <4> QED BY <4>1
    <3>5. Untold'
      <4>1. PICK d \in {0, 1} : Follow(d)
        BY WayGoesOn
      <4>2. ASSUME NEW a \in DOMAIN deliveries', deliveries'[a].op = "told" PROVE FALSE
        BY <3>1, <3>4, <4>1, <4>2, ToldsMove DEF Untold
      <4> QED BY <3>1, <3>3, <4>2 DEF Untold
    <3> QED BY <2>2, <3>1, <3>2, <3>5
  <2> QED BY <1>2, <2>1, <2>2, TellsMove
<1> QED BY <1>1, <1>2 DEF Stopping
\* ... the owner is told behind the callbacks of all that ran, ...
LEMMA TellingStep ==
  ASSUME Order, Followed, Detach, Next
  PROVE  Telling'
<1>0. deliveries \in Seq(DeliveryItems) /\ deliveries' \in Seq(DeliveryItems) /\ TypeOK
  <2>1. TypeOK'
    BY TypeStep
  <2>2. deliveries \in Seq(DeliveryItems)
    BY QueuesHold DEF Order
  <2> QED BY <2>1, <2>2 DEF TypeOK, DeliveryItems, Order
<1>1. PICK d \in {0, 1} :
        /\ Follow(d) /\ Len(deliveries) <= Len(deliveries') + d
        /\ \A j \in Jobs, k, e \in Nat :
             OnItsWay(j, k) /\ k <= e + d => j \in finished' \/ OnItsWay(j, e)'
  BY WayGoesOn
<1>2. finished \subseteq finished'
  BY FinishedStays
<1>3. ASSUME NEW k \in DOMAIN deliveries', deliveries'[k].op = "told"
      PROVE  /\ owner' = "detaching" /\ ~told'
             /\ Journaled \cap (active' \cup waiting') \subseteq early'
             /\ \A j \in Journaled \cap (started' \cup waiting') : j \in finished' \/ OnItsWay(j, k)'
  <2>0. k \in Nat /\ k > 0
    BY <1>0
  <2>1. CASE k = Len(deliveries) + 1 /\ d = 0 /\ TellDetached
    <3>1. /\ owner' = "detaching" /\ ~told' /\ Journaled \cap (active' \cup waiting') \subseteq early'
          /\ started' = started /\ waiting' = waiting
      BY <2>1, TellDetachedDoes DEF Untold
    <3>2. ASSUME NEW j \in Journaled \cap (started \cup waiting) PROVE j \in finished' \/ OnItsWay(j, k)'
      <4>1. j \in Jobs /\ (j \in finished \/ OnItsWay(j, k))
        BY <1>0, <2>1, TellDetachedDoes DEF TypeOK
      <4>2. k <= k + d
        BY <2>0, <2>1
      <4> QED BY <1>1, <1>2, <2>0, <4>1, <4>2
    <3> QED BY <3>1, <3>2
  <2>2. CASE k + d \in DOMAIN deliveries /\ deliveries[k + d].op = "told"
    <3>0. PICK m \in Nat : m = k + d
      BY <2>0
    <3>1. /\ owner = "detaching" /\ ~told /\ Journaled \cap (active \cup waiting) \subseteq early
          /\ \A j \in Journaled \cap (started \cup waiting) : j \in finished \/ OnItsWay(j, m)
      BY <2>2, <3>0 DEF Detach, Telling
    <3>2. ~attached
      BY <2>2 DEF Detach, Asked, Untold
    <3>3. owner' = "detaching"
      BY <3>1, <3>2, OwnerMoves DEF DetachBegins, DetachSettles
    <3>4. ~told'
      <4>1. ~Told
        <5>1. ASSUME Told PROVE FALSE
          <6>1. /\ 1 \in DOMAIN deliveries /\ deliveries[1].op = "told"
                /\ Len(deliveries') = Len(deliveries) - 1
            BY <5>1, FirstDelivery, GetsFollow DEF Told
          <6>2. k + d = 1
            BY <2>2, <6>1 DEF Detach, Telling
          <6>3. d = 1
            BY <1>0, <1>1, <6>1
          <6> QED BY <2>0, <6>2, <6>3
        <5> QED BY <5>1
      <4>2. ~(events # <<>> /\ Head(events).op = "told")
        <5>1. events \in Seq(EventItems)
          BY QueuesHold DEF Order
        <5>2. ASSUME events # <<>>, Head(events).op = "told" PROVE FALSE
          <6>1. 1 \in DOMAIN events /\ events[1].op = "told"
            BY <5>1, <5>2
          <6> QED BY <3>1, <6>1 DEF Detach, DetachHeardOnce
        <5> QED BY <5>2
      <4> QED BY <3>1, <4>1, <4>2, ToldMoves
    <3>5. /\ Journaled \cap (active' \cup waiting') \subseteq active \cup waiting
          /\ Journaled \cap started' \subseteq started \cup waiting
          /\ active \subseteq started /\ early \subseteq early'
      BY <1>0, <3>2, NothingStarts, EarlyGrows DEF TypeOK
    <3>6. ASSUME NEW j \in Journaled \cap (started' \cup waiting') PROVE j \in finished' \/ OnItsWay(j, k)'
      <4>1. j \in Jobs /\ (j \in finished \/ OnItsWay(j, m))
        BY <1>0, <3>1, <3>5, <3>6 DEF TypeOK
      <4>2. m <= k + d
        BY <2>0, <3>0
      <4> QED BY <1>1, <1>2, <2>0, <4>1, <4>2
    <3> QED BY <3>1, <3>3, <3>4, <3>5, <3>6
  <2> QED BY <1>1, <1>3, <2>1, <2>2, ToldsMove
<1>4. ASSUME NEW k \in DOMAIN deliveries', NEW m \in DOMAIN deliveries',
             deliveries'[k].op = "told", deliveries'[m].op = "told"
      PROVE  k = m
  <2>0. k \in Nat /\ m \in Nat
    BY <1>0
  <2>1. CASE TellDetached
    <3>1. \A n \in DOMAIN deliveries : deliveries[n].op # "told"
      BY <2>1, TellDetachedDoes DEF Untold
    <3> QED BY <1>1, <1>4, <3>1, ToldsMove
  <2>2. CASE ~TellDetached
    <3>1. /\ k + d \in DOMAIN deliveries /\ deliveries[k + d].op = "told"
          /\ m + d \in DOMAIN deliveries /\ deliveries[m + d].op = "told"
      BY <1>1, <1>4, <2>2, ToldsMove
    <3>2. k + d = m + d
      BY <3>1 DEF Detach, Telling
    <3> QED BY <2>0, <3>2
  <2> QED BY <2>1, <2>2
<1> QED BY <1>3, <1>4 DEF Telling

\* ... and goes on when nothing is left.
LEMMA DetachedStep ==
  ASSUME Order, Detach, Next
  PROVE  Detached'
<1>0. deliveries \in Seq(DeliveryItems) /\ events \in Seq(EventItems) /\ TypeOK
  BY QueuesHold DEF Order
<1>1. ASSUME owner' = "detaching", told' PROVE Quiet'
  <2>1. CASE DetachBegins
    BY <1>1, <2>1 DEF DetachBegins, Detach, Asked, Untold
  <2>2. CASE ~DetachBegins
    <3>1. owner = "detaching"
      BY <1>1, <2>2, OwnerMoves DEF DetachSettles
    <3>2. CASE told
      <4>1. Quiet /\ ~attached
        BY <3>1, <3>2 DEF Detach, Detached, Asked, Untold
      <4> QED BY <4>1, QuietStays
    <3>3. CASE ~told
      <4>1. Told
        <5>1. ~(events # <<>> /\ Head(events).op = "told")
          <6>1. ASSUME events # <<>>, Head(events).op = "told" PROVE FALSE
            <7>1. 1 \in DOMAIN events /\ events[1].op = "told"
              BY <1>0, <6>1
            <7> QED BY <3>1, <7>1 DEF Detach, DetachHeardOnce
          <6> QED BY <6>1
        <5> QED BY <1>1, <3>3, <5>1, ToldMoves
      <4>2. 1 \in DOMAIN deliveries /\ deliveries[1].op = "told" /\ at = Nothing
        BY <4>1, FirstDelivery DEF Told
      <4>3. at.op = "nothing"
        BY <4>2, BareIs DEF Nothing
      <4>4. /\ Journaled \cap (active \cup waiting) \subseteq early
            /\ \A j \in Journaled \cap (started \cup waiting) : j \in finished \/ OnItsWay(j, 1)
        BY <4>2 DEF Detach, Telling
      <4>5. ASSUME NEW j, OnItsWay(j, 1) PROVE FALSE
        <5>1. PICK m \in Nat : m < 1 /\ AnnounceOf(m, j)
          BY <4>3, <4>5 DEF OnItsWay
        <5>2. m \in DOMAIN deliveries
          BY <5>1 DEF AnnounceOf
        <5> QED BY <1>0, <5>1, <5>2
      <4>6. Quiet
        BY <4>4, <4>5 DEF Quiet
      <4>7. ~attached
        BY <4>2 DEF Detach, Asked, Untold
      <4> QED BY <4>6, <4>7, QuietStays
    <3> QED BY <3>2, <3>3
  <2> QED BY <2>1, <2>2
<1>2. ASSUME owner' \notin {"idle", "detaching"}, ~attached' PROVE Quiet'
  <2>1. CASE owner = "idle"
    <3>1. attached
      BY <2>1 DEF Detach, Asked
    <3> QED BY <1>2, <2>1, <3>1, OwnerMoves DEF DetachBegins, DetachSettles
  <2>2. CASE owner = "detaching"
    <3>1. DetachSettles
      BY <1>2, <2>2, OwnerMoves DEF DetachBegins
    <3>2. Quiet /\ ~attached
      BY <2>2, <3>1 DEF DetachSettles, Detach, Detached, Asked, Untold
    <3> QED BY <3>2, QuietStays
  <2>3. CASE owner \notin {"idle", "detaching"}
    <3>1. ~attached
      BY <1>2, <2>3, OwnerMoves DEF DetachBegins, DetachSettles
    <3>2. Quiet
      BY <2>3, <3>1 DEF Detach, Detached
    <3> QED BY <3>1, <3>2, QuietStays
  <2> QED BY <2>1, <2>2, <2>3
<1> QED BY <1>1, <1>2 DEF Detached

\* At first nothing is asked for.
LEMMA DetachInit == Init => Followed /\ Detach
<1> SUFFICES ASSUME Init PROVE Followed /\ Detach
  OBVIOUS
<1>1. /\ calls = <<>> /\ events = <<>> /\ deliveries = <<>> /\ started = {} /\ early = {}
      /\ attached = TRUE /\ owner = "idle" /\ told = FALSE
  BY DEF Init
<1>2. DOMAIN calls = {} /\ DOMAIN events = {} /\ DOMAIN deliveries = {}
  BY <1>1
<1>3. Followed /\ DetachHeardOnce /\ Asked
  BY <1>1, <1>2 DEF Followed, DetachHeardOnce, Asked, Heeded, Untold, Untelling
<1>4. Stopping /\ Telling /\ Detached
  BY <1>1, <1>2 DEF Stopping, Telling, Detached
<1> QED BY <1>3, <1>4 DEF Detach

\* A step of nobody changes nothing of it.
LEMMA DetachStands ==
  ASSUME Followed, Detach, UNCHANGED vars
  PROVE  Followed' /\ Detach'
<1>1. UNCHANGED <<calls, events, deliveries, started, active, waiting, early, finished, at, attached, owner, told>>
  BY DEF vars, owning, registry, loopState
<1>2. Followed'
  BY <1>1 DEF Followed, OnItsWay, AnnounceOf, RestOf
<1>3. DetachHeardOnce'
  BY <1>1 DEF Detach, DetachHeardOnce
<1>4. Asked'
  BY <1>1 DEF Detach, Asked, Heeded, Untold, Untelling
<1>5. Stopping'
  BY <1>1 DEF Detach, Stopping, Heeded, Untold, StopOf
<1>6. Telling'
  BY <1>1 DEF Detach, Telling, OnItsWay, AnnounceOf
<1>7. Detached'
  BY <1>1 DEF Detach, Detached, Quiet
<1> QED BY <1>2, <1>3, <1>4, <1>5, <1>6, <1>7 DEF Detach

\* Once `detach` returned, no job of the journal runs or waits, also not one whose `submit` was
\* under way, and the end of all that ran is known.
THEOREM DetachedQuietHolds == Spec => []DetachedQuiet
<1> DEFINE IInv == Order /\ Followed /\ Detach
<1>1. Init => IInv
  BY OrderInit, DetachInit
<1>2. ASSUME IInv, [Next]_vars PROVE IInv'
  <2>1. Order'
    BY <1>2, OrderStep
  <2>2. CASE Next
    <3>1. Followed'
      BY <1>2, <2>2, FollowedStep
    <3>2. Detach'
      BY <1>2, <2>2, HeardOnceStep, AskedStep, StoppingStep, TellingStep, DetachedStep DEF Detach
    <3> QED BY <2>1, <3>1, <3>2
  <2>3. CASE UNCHANGED vars
    BY <1>2, <2>1, <2>3, DetachStands
  <2> QED BY <1>2, <2>2, <2>3
<1>3. IInv => DetachedQuiet
  BY DEF Detach, Detached, Quiet, DetachedQuiet
<1> QED BY <1>1, <1>2, <1>3, PTL DEF Spec
=============================================================================
