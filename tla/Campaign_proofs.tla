--------------------------- MODULE Campaign_proofs ---------------------------
(***************************************************************************)
(* Of a campaign, that one attempt at most is in the queue and none of one *)
(* that was canceled, that a runner goes on where there are stages left,   *)
(* and that a job that completed was given all there is.                   *)
(*                                                                         *)
(* All three rest on Typed, what the variables are, and Shape, how far a   *)
(* directory and its runner can be.  Single adds whose turn it is between  *)
(* the attempts; Marked, that what is over is marked done, unless a runner *)
(* was stopped between the two; Sound, that the parts, the errors and the  *)
(* journal of a stage tell of the same elements; and InStep, that the job  *)
(* was given what the thread counted.                                      *)
(***************************************************************************)
EXTENDS Campaign, FiniteSetTheorems, SequenceTheorems, WellFoundedInduction, TLAPS

-----------------------------------------------------------------------------
(* What the variables are *)

Journals == {j \in [Stages -> SUBSET Nat] : \A s \in Stages : j[s] \subseteq Elements(s)}
Counts == [parts : Nat, errors : Nat]
Tellings == [status : {"none", "running", "interrupted", "completed", "failed"},
             stages : Nat, done : Nat, left : [Stages -> Counts]]
Dirs == [there : BOOLEAN, place : {"out", "queued", "running"}, cancelled : BOOLEAN, lost : BOOLEAN, byQueue : BOOLEAN,
         journal : Journals, over : SUBSET Stages, open : Journals,
         parts : [Stages -> Seq(SUBSET Nat)], errors : [Stages -> Seq(Nat)],
         reduced : SUBSET Stages, done : SUBSET Stages, left : [Stages -> Counts], told : Tellings,
         cut : BOOLEAN, taken : [Stages -> SUBSET Nat]]
Runners == [s : 0 .. Final + 1, step : {"none", "job", "reduce", "mark", "end"}, failed : SUBSET Nat]
Followers == [n : Attempts, dir : BOOLEAN, stop : BOOLEAN, first : BOOLEAN,
              parts : [Stages -> Nat], errors : [Stages -> Nat], reduced : SUBSET Reduced,
              ending : BOOLEAN, was : {<<>>} \cup (Nat \X Nat), again : BOOLEAN]
Results == [results : [Stages -> SUBSET Nat], errors : [Stages -> SUBSET Nat], reduced : SUBSET Stages,
            taken : [Stages -> SUBSET Nat]]

TypedThere == dir \in [Attempts -> Dirs] /\ run \in [Attempts -> Runners]
TypedHere ==
  /\ pc \in {"off", "place", "upload", "fill", "submit", "follow", "read", "again", "state"}
  /\ here \in Followers /\ told \in Tellings /\ got \in Results
  /\ job \in {"none", "running", "canceled", "interrupted", "completed", "failed"}
  /\ heard \in BOOLEAN /\ slipped \in BOOLEAN
Typed == TypedThere /\ TypedHere

\* What is the same in two directories, or changes as a part is closed.
SameFlags(d, e) == /\ e.there = d.there /\ e.cancelled = d.cancelled /\ e.lost = d.lost /\ e.byQueue = d.byQueue
                   /\ e.cut = d.cut
SameRecord(d, e) == e.journal = d.journal /\ e.over = d.over /\ e.done = d.done /\ e.left = d.left /\ e.reduced = d.reduced
SameParts(d, e) == e.open = d.open /\ e.parts = d.parts /\ e.taken = d.taken
Closed(d, e, s) ==
  \/ d.open[s] = {} /\ SameParts(d, e)
  \/ /\ d.open[s] # {}
     /\ e.open = [d.open EXCEPT ![s] = {}]
     /\ e.parts = [d.parts EXCEPT ![s] = Append(@, d.open[s])]
     /\ e.taken = d.taken
\* One that is stopped between the end of a stage and its mark.
CutBy(d, e, r) == e.cut = (d.cut \/ (d.there /\ r.step \in {"reduce", "mark"}))
\* One that was not there is out of the queue, and no more.
OutOnly(d, e) == \/ e = [d EXCEPT !.place = "out", !.lost = FALSE]
                 \/ e = [d EXCEPT !.place = "out", !.cancelled = FALSE]
LastPurged(q) == Len(q) > 0 /\ q[Len(q)] = {}
Others(a) == \A b \in Attempts : b # a => dir'[b] = dir[b] /\ run'[b] = run[b]
\* What an element does that fails, and one that does not.
FailsAt(d, e, r, q, s, x) ==
  /\ <<s, x>> \in Failing
  /\ e.errors = [d.errors EXCEPT ![s] = Append(@, x)] /\ q.failed = r.failed \cup {x}
  /\ e.journal = d.journal /\ e.open = d.open
WorksAt(d, e, r, q, s, x) ==
  /\ <<s, x>> \notin Failing
  /\ e.open = [d.open EXCEPT ![s] = @ \cup {x}]
  /\ e.journal = [d.journal EXCEPT ![s] = @ \cup {x}]
  /\ e.errors = d.errors /\ q = r
\* What a purge takes of a stage.
TakenAt(d, e, s) ==
  \/ e.parts = d.parts /\ e.taken = d.taken /\ e.errors = [d.errors EXCEPT ![s] = <<>>]
  \/ /\ e.errors = d.errors
     /\ \A t \in Stages : t # s => e.parts[t] = d.parts[t] /\ e.taken[t] = d.taken[t]
     /\ Len(e.parts[s]) = Len(d.parts[s])
     /\ Len(d.parts[s]) > 0
     /\ d.taken[s] \subseteq e.taken[s]
     /\ \A i \in DOMAIN d.parts[s] : \/ e.parts[s][i] = d.parts[s][i]
                                     \/ /\ e.parts[s][i] = {}
                                        /\ LastPurged(e.parts[s]) \/ d.parts[s][i] \subseteq e.taken[s]

-----------------------------------------------------------------------------
(* Lemmas about numbers and directories *)

\* A set of natural numbers that is not empty has a least one.
LEMMA Least ==
  ASSUME NEW T \in SUBSET Nat, T # {}
  PROVE  \E n \in T : \A m \in T : n <= m
<1> DEFINE I == {0 .. n : n \in T}
<1>1. \A n \in Nat : IsFiniteSet(0 .. n)
  BY FS_Interval
<1>2. I \subseteq FiniteSubsetsOf(Nat)
  <2> SUFFICES ASSUME NEW n \in T PROVE 0 .. n \in FiniteSubsetsOf(Nat)
    OBVIOUS
  <2>1. 0 .. n \in SUBSET Nat
    OBVIOUS
  <2> QED BY <1>1, <2>1 DEF FiniteSubsetsOf
<1>3. I # {}
  OBVIOUS
<1> HIDE DEF I
<1>4. PICK J \in I : \A K \in I : ~(<<K, J>> \in StrictSubsetOrdering(Nat))
  BY <1>2, <1>3, FS_StrictSubsetOrderingWellFounded, WFMin
<1>5. PICK n \in T : J = 0 .. n
  BY DEF I
<1>6. ASSUME NEW m \in T PROVE n <= m
  <2>1. SUFFICES ASSUME m < n PROVE FALSE
    BY <1>6
  <2>2. 0 .. m \in I
    BY <1>6 DEF I
  <2>3. 0 .. m \subseteq 0 .. n /\ 0 .. m # 0 .. n
    BY <2>1, <1>6
  <2>4. <<0 .. m, 0 .. n>> \in StrictSubsetOrdering(Nat)
    BY <2>3 DEF StrictSubsetOrdering
  <2> QED BY <1>4, <1>5, <2>2, <2>4
<1> QED BY <1>6

\* And a greatest one, if all of them are below some number.
LEMMA Greatest ==
  ASSUME NEW T \in SUBSET Nat, T # {}, NEW N \in Nat, \A n \in T : n <= N
  PROVE  \E n \in T : \A m \in T : n >= m
<1> DEFINE U == {N - n : n \in T}
<1>1. U \in SUBSET Nat /\ U # {}
  <2>1. \A n \in T : N - n \in Nat
    OBVIOUS
  <2> QED BY <2>1
<1> HIDE DEF U
<1>2. PICK u \in U : \A w \in U : u <= w
  BY <1>1, Least
<1>3. PICK n \in T : u = N - n
  BY DEF U
<1>4. ASSUME NEW m \in T PROVE n >= m
  <2>1. N - m \in U
    BY DEF U
  <2>2. N - n <= N - m
    BY <1>2, <1>3, <2>1
  <2> QED BY <2>2
<1> QED BY <1>4

LEMMA MaxIs ==
  ASSUME NEW T \in SUBSET Nat, T # {}, NEW N \in Nat, \A n \in T : n <= N
  PROVE  Max(T) \in T /\ \A m \in T : Max(T) >= m
BY Greatest DEF Max

\* The stage a runner starts with is the first that is not done.
LEMMA CurrentIs ==
  ASSUME NEW d \in Dirs
  PROVE  /\ Current(d) \in 1 .. Final + 1
         /\ Current(d) <= Final => Current(d) \in Stages /\ Current(d) \notin d.done
         /\ \A s \in Stages \ d.done : Current(d) <= s
<1> DEFINE T == (Stages \ d.done) \cup {Final + 1}
<1>1. Final \in Nat
  BY CampaignAssumption
<1>2. T \in SUBSET Nat /\ T # {}
  BY <1>1 DEF Stages
<1>3. \E n \in T : \A m \in T : n <= m
  BY <1>2, Least
<1>4. Min(T) \in T /\ \A m \in T : Min(T) <= m
  BY <1>3 DEF Min
<1>5. Current(d) = Min(T)
  BY DEF Current
<1> HIDE DEF T
<1>6. Current(d) \in T /\ \A m \in T : Current(d) <= m
  BY <1>4, <1>5
<1> QED BY <1>1, <1>6 DEF T, Stages

LEMMA RolledIs ==
  ASSUME NEW d \in Dirs, NEW s \in Stages, NEW e, e = Rolled(d, s)
  PROVE  /\ e \in Dirs
         /\ SameFlags(d, e) /\ SameRecord(d, e) /\ Closed(d, e, s)
         /\ e.place = d.place /\ e.errors = d.errors /\ e.told = d.told
<1>1. CASE d.open[s] = {}
  BY <1>1 DEF Rolled, SameFlags, SameRecord, SameParts, Closed
<1>2. CASE d.open[s] # {}
  <2> DEFINE P == [d.parts EXCEPT ![s] = Append(@, d.open[s])]
             O == [d.open EXCEPT ![s] = {}]
  <2>1. e = [d EXCEPT !.parts = P, !.open = O]
    <3>1. e = [d EXCEPT !.parts[s] = Append(@, d.open[s]), !.open[s] = {}]
      BY <1>2 DEF Rolled
    <3> QED BY <3>1 DEF Dirs
  <2>2. d.open \in Journals /\ d.parts \in [Stages -> Seq(SUBSET Nat)]
    BY DEF Dirs
  <2>3. d.open[s] \in SUBSET Nat
    BY <2>2 DEF Journals
  <2>4. Append(d.parts[s], d.open[s]) \in Seq(SUBSET Nat)
    BY <2>2, <2>3, AppendProperties
  <2>5. P \in [Stages -> Seq(SUBSET Nat)]
    BY <2>2, <2>4
  <2>6. O \in Journals
    BY <2>2 DEF Journals
  <2>7. Closed(d, [d EXCEPT !.parts = P, !.open = O], s)
    BY <1>2, <2>2 DEF Closed, Dirs
  <2> HIDE DEF P, O
  <2> QED BY <2>1, <2>5, <2>6, <2>7 DEF Dirs, SameFlags, SameRecord
<1> QED BY <1>1, <1>2

LEMMA SaysIs ==
  ASSUME NEW d \in Dirs, NEW s \in Stages, NEW status \in {"running", "interrupted", "completed"},
         NEW e, e = Says(d, status, s)
  PROVE  /\ e \in Dirs
         /\ SameFlags(d, e) /\ SameRecord(d, e) /\ SameParts(d, e)
         /\ e.place = d.place /\ e.errors = d.errors
         /\ e.told.status = status /\ e.told.stages = s - 1
<1>1. d.journal[s] \subseteq Elements(s) /\ Size[s] \in Nat
  BY CampaignAssumption DEF Dirs, Journals
<1>2. IsFiniteSet(Elements(s))
  BY <1>1, FS_Interval DEF Elements
<1>3. Cardinality(d.journal[s]) \in Nat
  BY <1>1, <1>2, FS_Subset, FS_CardinalityType
<1>4. s - 1 \in Nat
  BY CampaignAssumption DEF Stages
<1> DEFINE t == [Untold EXCEPT !.status = status, !.stages = s - 1, !.done = Cardinality(d.journal[s])]
<1>5. Untold \in Tellings
  BY DEF Untold, Tellings, Counts, NotDone
<1>6. t \in Tellings /\ t.status = status /\ t.stages = s - 1
  BY <1>3, <1>4, <1>5 DEF Tellings
<1>7. e = [d EXCEPT !.told = t]
  BY DEF Says
<1> HIDE DEF t
<1> QED BY <1>6, <1>7 DEF Dirs, SameFlags, SameRecord, SameParts

-----------------------------------------------------------------------------
(* What each step of a runner does *)

LEMMA DoesStarts ==
  ASSUME TypedThere, NEW a \in Attempts, Starts(a),
         NEW d, d = dir[a], NEW e, e = dir'[a], NEW q, q = run'[a]
  PROVE  /\ TypedThere' /\ Others(a) /\ OfRunner
         /\ d \in Dirs /\ e \in Dirs /\ q \in Runners
         /\ d.there /\ d.place = "queued"
         /\ SameFlags(d, e) /\ SameRecord(d, e) /\ e.errors = d.errors
         /\ \/ /\ NothingToDo(d)
               /\ e.place = "out" /\ q = NoRun /\ SameParts(d, e) /\ e.told = d.told
            \/ /\ ~NothingToDo(d) /\ Refused(d)
               /\ e.place = "out" /\ q = run[a] /\ Closed(d, e, Current(d))
               /\ e.told.status = "failed" /\ e.told.stages = 0
            \/ /\ ~NothingToDo(d) /\ ~Refused(d)
               /\ e.place = "running" /\ e.told = d.told
               /\ q.s = Current(d) /\ q.failed = {}
               /\ \/ Current(d) <= Final /\ q.step = "job" /\ Closed(d, e, Current(d))
                  \/ Current(d) = Final + 1 /\ q.step = "end" /\ SameParts(d, e)
<1>1. d \in Dirs /\ d.there /\ d.place = "queued" /\ OfRunner
  BY DEF Starts, TypedThere
<1>2. PICK s \in 1 .. Final + 1 : s = Current(d) /\ (s <= Final => s \in Stages)
  BY <1>1, CurrentIs
<1> DEFINE R == Rolled(d, s)
<1>3. Untold \in Tellings /\ [Untold EXCEPT !.status = "failed"] \in Tellings
      /\ [Untold EXCEPT !.status = "failed"].status = "failed" /\ [Untold EXCEPT !.status = "failed"].stages = 0
  BY DEF Untold, Tellings, Counts, NotDone
<1>4. ASSUME s <= Final
      PROVE  /\ R \in Dirs
             /\ SameFlags(d, R) /\ SameRecord(d, R) /\ Closed(d, R, s)
             /\ R.place = d.place /\ R.errors = d.errors /\ R.told = d.told
  BY <1>1, <1>2, <1>4, RolledIs
<1>5. NoRun \in Runners
  BY CampaignAssumption DEF NoRun, Runners
<1> HIDE DEF R
<1>6. CASE NothingToDo(d)
  <2>1. /\ dir' = [dir EXCEPT ![a].place = "out"]
        /\ run' = [run EXCEPT ![a] = NoRun]
    BY <1>6 DEF Starts, Out
  <2>2. e = [d EXCEPT !.place = "out"]
    BY <2>1 DEF TypedThere
  <2>6. q = NoRun
    BY <2>1 DEF TypedThere
  <2>7. d \in Dirs
    BY <1>1
  <2>8. e \in Dirs
    BY ONLY <2>7, <2>2 DEF Dirs
  <2>3. e \in Dirs /\ q \in Runners
    BY <1>5, <2>6, <2>8
  <2>4. TypedThere' /\ Others(a)
    BY <2>1, <2>2, <2>3 DEF TypedThere, Others
  <2>5. SameFlags(d, e) /\ SameRecord(d, e) /\ SameParts(d, e) /\ e.errors = d.errors /\ e.place = "out" /\ e.told = d.told
    BY ONLY <2>7, <2>2 DEF Dirs, SameFlags, SameRecord, SameParts
  <2> QED BY <1>1, <1>6, <2>6, <2>3, <2>4, <2>5
<1>7. CASE ~NothingToDo(d) /\ Refused(d)
  <2>1. /\ dir' = [dir EXCEPT ![a] = [R EXCEPT !.place = "out", !.told = [Untold EXCEPT !.status = "failed"]]]
        /\ run' = run
    BY <1>2, <1>7 DEF Starts, R
  <2>2. s <= Final
    BY <1>2, <1>7 DEF Refused
  <2> DEFINE t == [Untold EXCEPT !.status = "failed"]
  <2>3. e = [R EXCEPT !.place = "out", !.told = t] /\ q = run[a]
    BY <2>1 DEF TypedThere
  <2>4. t \in Tellings /\ t.status = "failed" /\ t.stages = 0
    BY <1>3
  <2> HIDE DEF t
  <2>a. e \in Dirs
    BY <1>4, <2>2, <2>3, <2>4 DEF Dirs
  <2>5. e \in Dirs /\ q \in Runners
    BY <2>3, <2>a DEF TypedThere
  <2>6. TypedThere' /\ Others(a)
    BY <2>1, <2>3, <2>5 DEF TypedThere, Others
  <2>7. /\ e.place = "out" /\ e.told = t
        /\ SameFlags(R, e) /\ SameRecord(R, e) /\ SameParts(R, e) /\ e.errors = R.errors
    BY <1>4, <2>2, <2>3 DEF Dirs, SameFlags, SameRecord, SameParts
  <2>8. SameFlags(d, e) /\ SameRecord(d, e) /\ Closed(d, e, s) /\ e.errors = d.errors
    BY <1>4, <2>2, <2>7 DEF SameFlags, SameRecord, SameParts, Closed
  <2> QED BY <1>1, <1>2, <1>7, <2>3, <2>4, <2>5, <2>6, <2>7, <2>8
<1>8. CASE ~NothingToDo(d) /\ ~Refused(d)
  <2> DEFINE D == IF s <= Final THEN R ELSE d
             Q == [NoRun EXCEPT !.s = s, !.step = IF s <= Final THEN "job" ELSE "end"]
  <2>1. /\ dir' = [dir EXCEPT ![a] = [D EXCEPT !.place = "running"]]
        /\ run' = [run EXCEPT ![a] = Q]
    BY <1>2, <1>8 DEF Starts, R
  <2>2. /\ D \in Dirs
        /\ SameFlags(d, D) /\ SameRecord(d, D)
        /\ D.errors = d.errors /\ D.told = d.told
        /\ IF s <= Final THEN Closed(d, D, s) ELSE SameParts(d, D)
    BY <1>1, <1>4 DEF SameFlags, SameRecord, SameParts
  <2>3. Q \in Runners /\ Q.s = s /\ Q.failed = {} /\ Q.step = IF s <= Final THEN "job" ELSE "end"
    <3>1. s \in 0 .. Final + 1
      BY CampaignAssumption
    <3> QED BY <3>1 DEF NoRun, Runners
  <2> HIDE DEF D, Q
  <2>4. e = [D EXCEPT !.place = "running"] /\ q = Q
    BY <2>1 DEF TypedThere
  <2>5. e \in Dirs /\ q \in Runners
    BY <2>2, <2>3, <2>4 DEF Dirs
  <2>6. TypedThere' /\ Others(a)
    BY <2>1, <2>4, <2>5 DEF TypedThere, Others
  <2>7. /\ e.place = "running" /\ e.told = D.told
        /\ SameFlags(D, e) /\ SameRecord(D, e) /\ SameParts(D, e) /\ e.errors = D.errors
    BY <2>2, <2>4 DEF Dirs, SameFlags, SameRecord, SameParts
  <2>8. /\ SameFlags(d, e) /\ SameRecord(d, e) /\ e.errors = d.errors /\ e.told = d.told
        /\ IF s <= Final THEN Closed(d, e, s) ELSE SameParts(d, e)
    BY <2>2, <2>7 DEF SameFlags, SameRecord, SameParts, Closed
  <2>9. s <= Final \/ s = Final + 1
    BY CampaignAssumption
  <2> QED BY <1>1, <1>2, <1>8, <2>3, <2>4, <2>5, <2>6, <2>7, <2>8, <2>9
<1> QED BY <1>6, <1>7, <1>8

LEMMA DoesWorks ==
  ASSUME TypedThere, NEW a \in Attempts, Works(a),
         NEW d, d = dir[a], NEW e, e = dir'[a], NEW r, r = run[a], NEW q, q = run'[a]
  PROVE  /\ TypedThere' /\ Others(a) /\ OfRunner
         /\ d \in Dirs /\ e \in Dirs /\ r \in Runners /\ q \in Runners
         /\ d.there /\ SameFlags(d, e) /\ e.place = d.place /\ e.told = d.told
         /\ e.over = d.over /\ e.done = d.done /\ e.left = d.left /\ e.reduced = d.reduced
         /\ e.parts = d.parts /\ e.taken = d.taken
         /\ r.step = "job" /\ q.step = "job" /\ q.s = r.s
         /\ \E s \in Stages, x \in Nat :
              /\ r.s = s /\ x \in Elements(s) /\ x \notin d.journal[s]
              /\ FailsAt(d, e, r, q, s, x) \/ WorksAt(d, e, r, q, s, x)
<1>1. d \in Dirs /\ r \in Runners
  BY DEF TypedThere
<1>0. PICK s \in Stages : \E x \in ToDo(a, s) :
        /\ Runs(a, s, "job")
        /\ IF <<s, x>> \in Failing
           THEN /\ dir' = [dir EXCEPT ![a].errors[s] = Append(@, x)]
                /\ run' = [run EXCEPT ![a].failed = @ \cup {x}]
           ELSE /\ dir' = [dir EXCEPT ![a].open[s] = @ \cup {x}, ![a].journal[s] = @ \cup {x}]
                /\ UNCHANGED run
        /\ OfRunner
  BY DEF Works
<1>2. PICK x \in ToDo(a, s) :
        /\ Runs(a, s, "job")
        /\ IF <<s, x>> \in Failing
           THEN /\ dir' = [dir EXCEPT ![a].errors[s] = Append(@, x)]
                /\ run' = [run EXCEPT ![a].failed = @ \cup {x}]
           ELSE /\ dir' = [dir EXCEPT ![a].open[s] = @ \cup {x}, ![a].journal[s] = @ \cup {x}]
                /\ UNCHANGED run
        /\ OfRunner
  BY <1>0
<1>3. d.there /\ r.s = s /\ r.step = "job"
  BY <1>2 DEF Runs
<1>4. x \in Nat /\ x \in Elements(s) /\ x \notin d.journal[s]
  BY <1>2, CampaignAssumption DEF ToDo, Elements
<1>5. d.errors \in [Stages -> Seq(Nat)] /\ d.open \in Journals /\ d.journal \in Journals
  BY <1>1 DEF Dirs
<1>6. CASE <<s, x>> \in Failing
  <2> DEFINE E == [d.errors EXCEPT ![s] = Append(@, x)]
             F == r.failed \cup {x}
  <2>1. e = [d EXCEPT !.errors = E] /\ q = [r EXCEPT !.failed = F]
    BY <1>2, <1>6 DEF TypedThere
  <2>2. E \in [Stages -> Seq(Nat)]
    BY <1>4, <1>5, AppendProperties
  <2>3. F \in SUBSET Nat
    BY <1>1, <1>4 DEF Runners
  <2> HIDE DEF E, F
  <2>4. e \in Dirs /\ q \in Runners
    BY <1>1, <2>1, <2>2, <2>3 DEF Dirs, Runners
  <2>5. TypedThere' /\ Others(a)
    BY <1>2, <1>6, <2>4 DEF TypedThere, Others
  <2>6. q.failed = F /\ q.s = r.s /\ q.step = r.step
    BY <1>1, <2>1 DEF Runners
  <2>7. /\ e.errors = E /\ e.journal = d.journal /\ e.open = d.open /\ e.taken = d.taken
        /\ SameFlags(d, e) /\ e.place = d.place /\ e.told = d.told
        /\ e.over = d.over /\ e.done = d.done /\ e.left = d.left /\ e.reduced = d.reduced /\ e.parts = d.parts
    BY <1>1, <2>1 DEF Dirs, SameFlags
  <2>8. e.errors = [d.errors EXCEPT ![s] = Append(@, x)] /\ q.failed = r.failed \cup {x}
    BY <2>6, <2>7 DEF E, F
  <2>9. OfRunner
    BY <1>2
  <2>10. FailsAt(d, e, r, q, s, x)
    BY <1>6, <2>7, <2>8 DEF FailsAt
  <2> QED BY <1>1, <1>3, <1>4, <2>4, <2>5, <2>6, <2>7, <2>9, <2>10
<1>7. CASE <<s, x>> \notin Failing
  <2> DEFINE O == [d.open EXCEPT ![s] = @ \cup {x}]
             J == [d.journal EXCEPT ![s] = @ \cup {x}]
  <2>1. e = [d EXCEPT !.open = O, !.journal = J] /\ q = r
    <3>1. dir' = [dir EXCEPT ![a].open[s] = @ \cup {x}, ![a].journal[s] = @ \cup {x}] /\ run' = run
      BY <1>2, <1>7
    <3>2. e = [d EXCEPT !.open[s] = @ \cup {x}, !.journal[s] = @ \cup {x}]
      BY <3>1 DEF TypedThere
    <3>3. [d EXCEPT !.open[s] = @ \cup {x}, !.journal[s] = @ \cup {x}] = [d EXCEPT !.open = O, !.journal = J]
      BY <1>1 DEF Dirs
    <3> QED BY <3>1, <3>2, <3>3
  <2>2. O \in Journals /\ J \in Journals
    BY <1>4, <1>5 DEF Journals
  <2> HIDE DEF O, J
  <2>3. e \in Dirs /\ q \in Runners
    BY <1>1, <2>1, <2>2 DEF Dirs
  <2>4. TypedThere' /\ Others(a)
    BY <1>2, <1>7, <2>3 DEF TypedThere, Others
  <2>5. /\ e.open = O /\ e.journal = J /\ e.errors = d.errors /\ e.taken = d.taken
        /\ SameFlags(d, e) /\ e.place = d.place /\ e.told = d.told
        /\ e.over = d.over /\ e.done = d.done /\ e.left = d.left /\ e.reduced = d.reduced /\ e.parts = d.parts
    BY <1>1, <2>1 DEF Dirs, SameFlags
  <2>6. OfRunner
    BY <1>2
  <2>7. e.open = [d.open EXCEPT ![s] = @ \cup {x}] /\ e.journal = [d.journal EXCEPT ![s] = @ \cup {x}]
    BY <2>5 DEF O, J
  <2>8. WorksAt(d, e, r, q, s, x)
    BY <1>7, <2>1, <2>5, <2>7 DEF WorksAt
  <2> QED BY <1>1, <1>3, <1>4, <2>1, <2>3, <2>4, <2>5, <2>6, <2>8
<1> QED BY <1>6, <1>7

LEMMA DoesTurns ==
  ASSUME TypedThere, NEW a \in Attempts, Turns(a),
         NEW d, d = dir[a], NEW e, e = dir'[a], NEW r, r = run[a]
  PROVE  /\ TypedThere' /\ Others(a) /\ OfRunner
         /\ d \in Dirs /\ e \in Dirs /\ r \in Runners /\ run'[a] = r
         /\ d.there /\ SameFlags(d, e) /\ SameRecord(d, e) /\ e.errors = d.errors /\ e.place = d.place
         /\ r.step = "job" /\ r.s \in Stages /\ (SameParts(d, e) \/ Closed(d, e, r.s))
         /\ e.told.status = "running" /\ e.told.stages = r.s - 1
<1>1. d \in Dirs /\ r \in Runners
  BY DEF TypedThere
<1>2. PICK s \in Stages : /\ Runs(a, s, "job")
                          /\ \E D \in {d, Rolled(d, s)} : dir' = [dir EXCEPT ![a] = Says(D, "running", s)]
  BY DEF Turns
<1>3. d.there /\ r.s = s /\ r.step = "job"
  BY <1>2 DEF Runs
<1>4. PICK D \in {d, Rolled(d, s)} : dir' = [dir EXCEPT ![a] = Says(D, "running", s)]
  BY <1>2
<1>5. /\ D \in Dirs
      /\ SameFlags(d, D) /\ SameRecord(d, D) /\ (SameParts(d, D) \/ Closed(d, D, s))
      /\ D.place = d.place /\ D.errors = d.errors
  BY <1>1, RolledIs DEF SameFlags, SameRecord, SameParts
<1>6. e = Says(D, "running", s)
  BY <1>4 DEF TypedThere
<1>7. /\ e \in Dirs
      /\ SameFlags(D, e) /\ SameRecord(D, e) /\ SameParts(D, e)
      /\ e.place = D.place /\ e.errors = D.errors
      /\ e.told.status = "running" /\ e.told.stages = s - 1
  BY <1>5, <1>6, SaysIs
<1>8. OfRunner /\ run' = run
  BY DEF Turns
<1>9. TypedThere' /\ Others(a) /\ run'[a] = r
  BY <1>4, <1>6, <1>7, <1>8 DEF TypedThere, Others
<1>10. SameFlags(d, e) /\ SameRecord(d, e) /\ (SameParts(d, e) \/ Closed(d, e, s)) /\ e.place = d.place /\ e.errors = d.errors
  BY <1>5, <1>7 DEF SameFlags, SameRecord, SameParts, Closed
<1> QED BY <1>1, <1>3, <1>7, <1>8, <1>9, <1>10

LEMMA DoesJobEnds ==
  ASSUME TypedThere, NEW a \in Attempts, JobEnds(a),
         NEW d, d = dir[a], NEW e, e = dir'[a], NEW r, r = run[a], NEW q, q = run'[a]
  PROVE  /\ TypedThere' /\ Others(a) /\ OfRunner
         /\ d \in Dirs /\ e \in Dirs /\ r \in Runners /\ q \in Runners
         /\ d.there /\ SameFlags(d, e) /\ e.errors = d.errors /\ e.place = d.place
         /\ e.journal = d.journal /\ e.done = d.done /\ e.left = d.left /\ e.reduced = d.reduced
         /\ r.step = "job" /\ r.s \in Stages /\ Closed(d, e, r.s)
         /\ e.over = d.over \cup {r.s} /\ ToDo(a, r.s) = {}
         /\ q.step \in {"reduce", "mark"} /\ q.s = r.s
         /\ e.told.status = (IF r.s = Final THEN "completed" ELSE "running") /\ e.told.stages = r.s - 1
<1>1. d \in Dirs /\ r \in Runners
  BY DEF TypedThere
<1>2. PICK s \in Stages :
        /\ Runs(a, s, "job") /\ ToDo(a, s) = {}
        /\ dir' = [dir EXCEPT ![a] = [Says(Rolled(dir[a], s), EndOf(s), s) EXCEPT !.over = @ \cup {s}]]
        /\ run' = [run EXCEPT ![a].step = IF s \in Reducing THEN "reduce" ELSE "mark"]
  BY DEF JobEnds
<1>3. d.there /\ r.s = s /\ r.step = "job"
  BY <1>2 DEF Runs
<1> DEFINE R == Rolled(d, s)
           S == Says(R, EndOf(s), s)
<1>4. /\ R \in Dirs
      /\ SameFlags(d, R) /\ SameRecord(d, R) /\ Closed(d, R, s)
      /\ R.place = d.place /\ R.errors = d.errors
  BY <1>1, RolledIs
<1>5. EndOf(s) \in {"running", "completed"} /\ EndOf(s) = IF s = Final THEN "completed" ELSE "running"
  BY DEF EndOf
<1> HIDE DEF R
<1>6. /\ S \in Dirs
      /\ SameFlags(R, S) /\ SameRecord(R, S) /\ SameParts(R, S)
      /\ S.place = R.place /\ S.errors = R.errors
      /\ S.told.status = EndOf(s) /\ S.told.stages = s - 1
  BY <1>4, <1>5, SaysIs
<1> HIDE DEF S
<1>7. e = [S EXCEPT !.over = @ \cup {s}] /\ q = [r EXCEPT !.step = IF s \in Reducing THEN "reduce" ELSE "mark"]
  BY <1>2 DEF TypedThere, S, R
<1>8. S.over \cup {s} \in SUBSET Stages
  BY <1>6 DEF Dirs
<1>9. e \in Dirs /\ q \in Runners
  BY <1>1, <1>6, <1>7, <1>8 DEF Dirs, Runners
<1>10. OfRunner
  BY DEF JobEnds
<1>11. TypedThere' /\ Others(a)
  BY <1>2, <1>9 DEF TypedThere, Others
<1>12. q.step \in {"reduce", "mark"} /\ q.s = r.s
  BY <1>1, <1>7 DEF Runners
<1>13. /\ e.over = S.over \cup {s} /\ e.told = S.told
       /\ SameFlags(S, e) /\ SameParts(S, e) /\ e.errors = S.errors /\ e.place = S.place
       /\ e.journal = S.journal /\ e.done = S.done /\ e.left = S.left /\ e.reduced = S.reduced
  BY <1>6, <1>7 DEF Dirs, SameFlags, SameParts
<1>14. /\ SameFlags(d, e) /\ Closed(d, e, s) /\ e.errors = d.errors /\ e.place = d.place
       /\ e.journal = d.journal /\ e.done = d.done /\ e.left = d.left /\ e.reduced = d.reduced
       /\ e.over = d.over \cup {s}
  BY <1>4, <1>6, <1>13 DEF SameFlags, SameRecord, SameParts, Closed
<1> QED BY <1>1, <1>2, <1>3, <1>5, <1>6, <1>9, <1>10, <1>11, <1>12, <1>13, <1>14

LEMMA DoesReduces ==
  ASSUME TypedThere, NEW a \in Attempts, Reduces(a),
         NEW d, d = dir[a], NEW e, e = dir'[a], NEW r, r = run[a], NEW q, q = run'[a]
  PROVE  /\ TypedThere' /\ Others(a) /\ OfRunner
         /\ d \in Dirs /\ e \in Dirs /\ r \in Runners /\ q \in Runners
         /\ d.there /\ SameFlags(d, e) /\ SameParts(d, e) /\ e.errors = d.errors /\ e.place = d.place /\ e.told = d.told
         /\ e.journal = d.journal /\ e.over = d.over /\ e.done = d.done /\ e.left = d.left
         /\ r.step = "reduce" /\ r.s \in Stages /\ q.step = "mark" /\ q.s = r.s
<1>1. d \in Dirs /\ r \in Runners
  BY DEF TypedThere
<1>2. PICK s \in Stages : Runs(a, s, "reduce") /\ dir' = [dir EXCEPT ![a].reduced = @ \cup {s}]
  BY DEF Reduces
<1>3. d.there /\ r.s = s /\ r.step = "reduce" /\ OfRunner /\ run' = [run EXCEPT ![a].step = "mark"]
  BY <1>2 DEF Runs, Reduces
<1>4. e = [d EXCEPT !.reduced = @ \cup {s}] /\ q = [r EXCEPT !.step = "mark"]
  BY <1>2, <1>3 DEF TypedThere
<1>5. d.reduced \cup {s} \in SUBSET Stages
  BY <1>1 DEF Dirs
<1>6. e \in Dirs /\ q \in Runners
  BY <1>1, <1>4, <1>5 DEF Dirs, Runners
<1>7. TypedThere' /\ Others(a)
  BY <1>2, <1>3, <1>6 DEF TypedThere, Others
<1>8. q.step = "mark" /\ q.s = r.s
  BY <1>1, <1>4 DEF Runners
<1>9. /\ SameFlags(d, e) /\ SameParts(d, e) /\ e.errors = d.errors /\ e.place = d.place /\ e.told = d.told
      /\ e.journal = d.journal /\ e.over = d.over /\ e.done = d.done /\ e.left = d.left
  BY <1>1, <1>4 DEF Dirs, SameFlags, SameParts
<1> QED BY <1>1, <1>3, <1>6, <1>7, <1>8, <1>9

LEMMA DoesMarks ==
  ASSUME TypedThere, NEW a \in Attempts, Marks(a),
         NEW d, d = dir[a], NEW e, e = dir'[a], NEW r, r = run[a], NEW q, q = run'[a]
  PROVE  /\ TypedThere' /\ Others(a) /\ OfRunner
         /\ d \in Dirs /\ e \in Dirs /\ r \in Runners /\ q \in Runners
         /\ d.there /\ SameFlags(d, e) /\ SameParts(d, e) /\ e.errors = d.errors /\ e.place = d.place /\ e.told = d.told
         /\ e.journal = d.journal /\ e.over = d.over /\ e.reduced = d.reduced
         /\ r.step = "mark" /\ r.s \in Stages
         /\ e.done = d.done \cup {r.s} /\ e.left[r.s] = Leaves(d, r.s)
         /\ \A t \in Stages : t # r.s => e.left[t] = d.left[t]
         /\ q.s = r.s + 1 /\ q.failed = {} /\ q.step = IF r.s = Final THEN "end" ELSE "job"
<1>1. d \in Dirs /\ r \in Runners
  BY DEF TypedThere
<1>2. PICK s \in Stages :
        /\ Runs(a, s, "mark")
        /\ dir' = [dir EXCEPT ![a].done = @ \cup {s}, ![a].left[s] = Leaves(d, s)]
        /\ run' = [run EXCEPT ![a] = [NoRun EXCEPT !.s = s + 1, !.step = IF s = Final THEN "end" ELSE "job"]]
  BY DEF Marks
<1>3. d.there /\ r.s = s /\ r.step = "mark" /\ OfRunner
  BY <1>2 DEF Runs, Marks
<1> DEFINE L == [d.left EXCEPT ![s] = Leaves(d, s)]
           D == d.done \cup {s}
           Q == [NoRun EXCEPT !.s = s + 1, !.step = IF s = Final THEN "end" ELSE "job"]
<1>4. e = [d EXCEPT !.done = D, !.left = L] /\ q = Q
  BY <1>2 DEF TypedThere
<1>5. Leaves(d, s) \in Counts
  BY <1>1 DEF Leaves, Counts, Dirs
<1>6. L \in [Stages -> Counts] /\ D \in SUBSET Stages
  BY <1>1, <1>5 DEF Dirs
<1>7. s + 1 \in 0 .. Final + 1
  BY CampaignAssumption DEF Stages
<1>8. Q \in Runners /\ Q.s = s + 1 /\ Q.failed = {} /\ Q.step = IF s = Final THEN "end" ELSE "job"
  BY <1>7 DEF NoRun, Runners
<1> HIDE DEF L, D, Q
<1>9. e \in Dirs /\ q \in Runners
  BY <1>1, <1>4, <1>6, <1>8 DEF Dirs
<1>10. TypedThere' /\ Others(a)
  BY <1>2, <1>9 DEF TypedThere, Others
<1>11. /\ e.done = D /\ e.left = L
       /\ SameFlags(d, e) /\ SameParts(d, e) /\ e.errors = d.errors /\ e.place = d.place /\ e.told = d.told
       /\ e.journal = d.journal /\ e.over = d.over /\ e.reduced = d.reduced
  BY <1>1, <1>4, <1>6 DEF Dirs, SameFlags, SameParts
<1>12. e.done = d.done \cup {s} /\ e.left[s] = Leaves(d, s) /\ \A t \in Stages : t # s => e.left[t] = d.left[t]
  BY <1>1, <1>11 DEF D, L, Dirs
<1> QED BY <1>1, <1>3, <1>4, <1>8, <1>9, <1>10, <1>11, <1>12

LEMMA DoesEnds ==
  ASSUME TypedThere, NEW a \in Attempts, Ends(a),
         NEW d, d = dir[a], NEW e, e = dir'[a], NEW r, r = run[a]
  PROVE  /\ TypedThere' /\ Others(a) /\ OfRunner
         /\ d \in Dirs /\ e \in Dirs /\ r \in Runners /\ run'[a] = NoRun
         /\ d.there /\ SameFlags(d, e) /\ SameRecord(d, e) /\ SameParts(d, e) /\ e.errors = d.errors
         /\ e.place = "out" /\ e.told.status = "completed" /\ e.told.stages = Final /\ e.told.left = d.left
         /\ r.step = "end" /\ r.s = Final + 1
<1>1. d \in Dirs /\ r \in Runners
  BY DEF TypedThere
<1>2. d.there /\ r.s = Final + 1 /\ r.step = "end" /\ OfRunner
      /\ dir' = [dir EXCEPT ![a].place = "out", ![a].told = [@ EXCEPT !.status = "completed", !.stages = Final, !.left = dir[a].left]]
      /\ run' = [run EXCEPT ![a] = NoRun]
  BY DEF Ends, Runs
<1> DEFINE t == [d.told EXCEPT !.status = "completed", !.stages = Final, !.left = d.left]
<1>3. e = [d EXCEPT !.place = "out", !.told = t] /\ run'[a] = NoRun
  BY <1>2 DEF TypedThere, Dirs
<1>4. t \in Tellings /\ t.status = "completed" /\ t.stages = Final /\ t.left = d.left
  BY <1>1, CampaignAssumption DEF Dirs, Tellings
<1> HIDE DEF t
<1>a. NoRun \in Runners
  BY CampaignAssumption DEF NoRun, Runners
<1>b. e \in Dirs
  BY <1>1, <1>3, <1>4 DEF Dirs
<1>5. e \in Dirs /\ NoRun \in Runners
  BY <1>a, <1>b
<1>6. TypedThere' /\ Others(a)
  BY <1>2, <1>5 DEF TypedThere, Others
<1>7. SameFlags(d, e) /\ SameRecord(d, e) /\ SameParts(d, e) /\ e.errors = d.errors /\ e.place = "out" /\ e.told = t
  BY <1>1, <1>3 DEF Dirs, SameFlags, SameRecord, SameParts
<1> QED BY <1>1, <1>2, <1>3, <1>4, <1>5, <1>6, <1>7

LEMMA DoesCollapses ==
  ASSUME TypedThere, NEW a \in Attempts, Collapses(a),
         NEW d, d = dir[a], NEW e, e = dir'[a]
  PROVE  /\ TypedThere' /\ Others(a) /\ OfRunner
         /\ d \in Dirs /\ e \in Dirs /\ run'[a] = NoRun
         /\ ~d.there /\ e = [d EXCEPT !.place = "out"]
         /\ SameFlags(d, e) /\ SameRecord(d, e) /\ SameParts(d, e) /\ e.errors = d.errors
         /\ e.place = "out" /\ e.told = d.told
<1>1. d \in Dirs /\ ~d.there /\ OfRunner
      /\ dir' = [dir EXCEPT ![a].place = "out"] /\ run' = [run EXCEPT ![a] = NoRun]
  BY DEF TypedThere, Collapses, Out
<1>2. e = [d EXCEPT !.place = "out"] /\ run'[a] = NoRun
  BY <1>1 DEF TypedThere
<1>a. NoRun \in Runners
  BY CampaignAssumption DEF NoRun, Runners
<1>b. e \in Dirs
  BY <1>1, <1>2 DEF Dirs
<1>3. e \in Dirs /\ NoRun \in Runners
  BY <1>a, <1>b
<1>4. TypedThere' /\ Others(a)
  BY <1>1, <1>3 DEF TypedThere, Others
<1>5. SameFlags(d, e) /\ SameRecord(d, e) /\ SameParts(d, e) /\ e.errors = d.errors /\ e.place = "out" /\ e.told = d.told
  BY <1>1, <1>2 DEF Dirs, SameFlags, SameRecord, SameParts
<1> QED BY <1>1, <1>2, <1>3, <1>4, <1>5

-----------------------------------------------------------------------------
(* What befalls an attempt *)

\* A runner that is stopped leaves all that is there.
StoppedAs(d, e, r) ==
  /\ e.there = d.there /\ e.cancelled = d.cancelled /\ e.lost = d.lost /\ e.byQueue = d.byQueue
  /\ SameRecord(d, e) /\ SameParts(d, e) /\ e.errors = d.errors /\ e.told = d.told
  /\ e.place = "out" /\ CutBy(d, e, r)

LEMMA StoppedIs ==
  ASSUME NEW d \in Dirs, NEW r, NEW e, e = Stopped(d, r)
  PROVE  e \in Dirs /\ StoppedAs(d, e, r)
<1> DEFINE c == d.cut \/ (d.there /\ r.step \in {"reduce", "mark"})
<1>1. d.cut \in BOOLEAN /\ d.there \in BOOLEAN
  BY DEF Dirs
<1>2. c \in BOOLEAN
  BY <1>1
<1>3. e = [d EXCEPT !.place = "out", !.cut = c]
  BY DEF Stopped
<1>4. e.cut = c <=> CutBy(d, e, r)
  BY DEF CutBy
<1> HIDE DEF c
<1>5. e \in Dirs
  BY <1>2, <1>3 DEF Dirs
<1>6. /\ e.there = d.there /\ e.cancelled = d.cancelled /\ e.lost = d.lost /\ e.byQueue = d.byQueue
      /\ SameRecord(d, e) /\ SameParts(d, e) /\ e.errors = d.errors /\ e.told = d.told
      /\ e.place = "out" /\ e.cut = c
  BY <1>2, <1>3 DEF Dirs, SameRecord, SameParts
<1> QED BY <1>4, <1>5, <1>6 DEF StoppedAs

\* One whose directory is not there is taken out of the queue, and that is all.
LEMMA StoppedNone ==
  ASSUME NEW d \in Dirs, NEW r, ~d.there
  PROVE  Stopped(d, r) = [d EXCEPT !.place = "out"]
<1>1. d.cut \in BOOLEAN
  BY DEF Dirs
<1>2. (d.cut \/ (d.there /\ r.step \in {"reduce", "mark"})) = d.cut
  BY <1>1
<1>3. [d EXCEPT !.place = "out", !.cut = d.cut] = [d EXCEPT !.place = "out"]
  BY DEF Dirs
<1> QED BY <1>2, <1>3 DEF Stopped

LEMMA DoesKilled ==
  ASSUME TypedThere, NEW a \in Attempts, Killed(a),
         NEW d, d = dir[a], NEW e, e = dir'[a], NEW r, r = run[a],
         r.step = "job" => r.s \in Stages
  PROVE  /\ TypedThere' /\ Others(a) /\ UNCHANGED <<client, job, heard, slipped>>
         /\ d \in Dirs /\ e \in Dirs /\ r \in Runners /\ run'[a] = NoRun
         /\ d.there /\ d.place = "running"
         /\ e.there = d.there /\ e.cancelled = d.cancelled /\ e.lost = d.lost /\ e.byQueue = d.byQueue /\ CutBy(d, e, r)
         /\ SameRecord(d, e) /\ e.errors = d.errors /\ e.place = "out"
         /\ \/ SameParts(d, e) /\ e.told = d.told
            \/ /\ r.step = "job" /\ Closed(d, e, r.s)
               /\ e.told.status = "interrupted" /\ e.told.stages = r.s - 1
<1>1. d \in Dirs /\ r \in Runners /\ d.there /\ d.place = "running"
      /\ run' = [run EXCEPT ![a] = NoRun] /\ UNCHANGED <<client, job, heard, slipped>>
  BY DEF Killed, TypedThere
<1>2. PICK D \in {d} \cup (IF r.step = "job" THEN {Says(Rolled(d, r.s), "interrupted", r.s)} ELSE {}) :
        dir' = [dir EXCEPT ![a] = Stopped(D, r)]
  BY DEF Killed
<1>3. NoRun \in Runners
  BY CampaignAssumption DEF NoRun, Runners
<1>4. e = Stopped(D, r) /\ run'[a] = NoRun
  BY <1>1, <1>2 DEF TypedThere
<1>5. CASE D = d
  <2>1. D \in Dirs
    BY <1>1, <1>5
  <2>3. e \in Dirs /\ StoppedAs(D, e, r)
    BY ONLY <2>1, <1>4, StoppedIs
  <2>5. TypedThere' /\ Others(a)
    BY <1>1, <1>2, <1>3, <1>4, <2>3 DEF TypedThere, Others
  <2> QED BY <1>1, <1>4, <1>5, <2>3, <2>5 DEF StoppedAs
<1>6. CASE r.step = "job" /\ D = Says(Rolled(d, r.s), "interrupted", r.s)
  <2>1. PICK s \in Stages : s = r.s
    BY <1>6
  <2> DEFINE R == Rolled(d, s)
  <2>2. /\ R \in Dirs
        /\ SameFlags(d, R) /\ SameRecord(d, R) /\ Closed(d, R, s)
        /\ R.place = d.place /\ R.errors = d.errors
    BY <1>1, RolledIs
  <2>3. D = Says(R, "interrupted", s)
    BY <1>6, <2>1
  <2> HIDE DEF R
  <2>4. /\ D \in Dirs
        /\ SameFlags(R, D) /\ SameRecord(R, D) /\ SameParts(R, D)
        /\ D.place = R.place /\ D.errors = R.errors
        /\ D.told.status = "interrupted" /\ D.told.stages = s - 1
    <3>1. s \in Stages /\ R \in Dirs /\ "interrupted" \in {"running", "interrupted", "completed"}
      BY <2>1, <2>2
    <3> QED BY ONLY <3>1, <2>3, SaysIs
  <2>6. e \in Dirs /\ StoppedAs(D, e, r)
    BY ONLY <2>4, <1>4, StoppedIs
  <2>8. TypedThere' /\ Others(a)
    BY <1>1, <1>2, <1>3, <1>4, <2>6 DEF TypedThere, Others
  <2>9. /\ e.there = d.there /\ e.cancelled = d.cancelled /\ e.lost = d.lost /\ e.byQueue = d.byQueue /\ CutBy(d, e, r)
        /\ SameRecord(d, e) /\ Closed(d, e, s) /\ e.errors = d.errors /\ e.place = "out" /\ e.told = D.told
    BY <2>2, <2>4, <2>6 DEF StoppedAs, SameFlags, SameRecord, SameParts, Closed, CutBy
  <2> QED BY <1>1, <1>4, <1>6, <2>1, <2>4, <2>6, <2>8, <2>9
<1> QED BY <1>2, <1>5, <1>6

LEMMA DoesCanceledThere ==
  ASSUME TypedThere, NEW a \in Attempts, CanceledThere(a),
         NEW d, d = dir[a], NEW e, e = dir'[a], NEW r, r = run[a]
  PROVE  /\ TypedThere' /\ Others(a) /\ UNCHANGED <<client, job, heard, slipped>>
         /\ d \in Dirs /\ e \in Dirs /\ r \in Runners /\ run'[a] = NoRun
         /\ d.there /\ d.place # "out" /\ e.place = "out" /\ CutBy(d, e, r)
         /\ e.there = d.there /\ e.cancelled = d.cancelled /\ e.lost = d.lost /\ e.byQueue
         /\ SameRecord(d, e) /\ SameParts(d, e) /\ e.errors = d.errors /\ e.told = d.told
<1>1. d \in Dirs /\ r \in Runners /\ d.there /\ d.place # "out" /\ UNCHANGED <<client, job, heard, slipped>>
      /\ dir' = [dir EXCEPT ![a] = [Stopped(d, r) EXCEPT !.byQueue = TRUE]]
      /\ run' = [run EXCEPT ![a] = NoRun]
  BY DEF CanceledThere, TypedThere
<1> DEFINE S == Stopped(d, r)
<1>2. e = [S EXCEPT !.byQueue = TRUE]
  BY <1>1 DEF TypedThere
<1>s. S \in Dirs /\ StoppedAs(d, S, r)
  BY <1>1, StoppedIs
<1> HIDE DEF S
<1>t. /\ e \in Dirs
      /\ e.there = S.there /\ e.cancelled = S.cancelled /\ e.lost = S.lost /\ e.byQueue /\ e.place = S.place
      /\ e.cut = S.cut
      /\ SameRecord(S, e) /\ SameParts(S, e) /\ e.errors = S.errors /\ e.told = S.told
  BY ONLY <1>s, <1>2 DEF Dirs, SameRecord, SameParts
<1>3. /\ e \in Dirs /\ CutBy(d, e, r)
      /\ e.there = d.there /\ e.cancelled = d.cancelled /\ e.lost = d.lost /\ e.byQueue /\ e.place = "out"
      /\ SameRecord(d, e) /\ SameParts(d, e) /\ e.errors = d.errors /\ e.told = d.told
  BY <1>s, <1>t DEF StoppedAs, SameRecord, SameParts, CutBy
<1>4. NoRun \in Runners
  BY CampaignAssumption DEF NoRun, Runners
<1>5. TypedThere' /\ Others(a) /\ run'[a] = NoRun
  BY <1>1, <1>3, <1>4 DEF TypedThere, Others
<1> QED BY <1>1, <1>3, <1>5

\* Nothing is known of an attempt without a directory, but whether it is in the queue.
LEMMA NoDirIs ==
  ASSUME NEW p \in {"out", "queued", "running"}, NEW e, e = [NoDir EXCEPT !.place = p]
  PROVE  /\ e \in Dirs /\ (p = "out" => e = NoDir)
         /\ ~e.there /\ e.place = p /\ ~e.cancelled /\ ~e.lost /\ ~e.byQueue /\ ~e.cut
         /\ e.over = {} /\ e.done = {} /\ e.told.status = "none" /\ e.told.stages = 0
         /\ \A s \in Stages : /\ e.journal[s] = {} /\ e.open[s] = {}
                              /\ e.parts[s] = <<>> /\ e.errors[s] = <<>>
<1>1. Untold \in Tellings /\ Untold.status = "none" /\ Untold.stages = 0
  BY DEF Untold, Tellings, Counts, NotDone
<1>2. [s \in Stages |-> {}] \in Journals
  BY DEF Journals
<1>3. [s \in Stages |-> <<>>] \in [Stages -> Seq(SUBSET Nat)] /\ [s \in Stages |-> <<>>] \in [Stages -> Seq(Nat)]
  BY EmptySeq
<1>4. [s \in Stages |-> NotDone] \in [Stages -> Counts]
  BY DEF Counts, NotDone
<1> DEFINE J == [s \in Stages |-> {}]
           Q == [s \in Stages |-> <<>>]
           L == [s \in Stages |-> NotDone]
           N == [there |-> FALSE, place |-> "out", cancelled |-> FALSE, lost |-> FALSE,
                 byQueue |-> FALSE, journal |-> J, over |-> {}, open |-> J,
                 parts |-> Q, errors |-> Q, reduced |-> {}, done |-> {}, left |-> L, told |-> Untold,
                 cut |-> FALSE, taken |-> J]
<1>5. e = [N EXCEPT !.place = p]
  BY DEF NoDir
<1>6. \A s \in Stages : J[s] = {} /\ Q[s] = <<>>
  OBVIOUS
<1> HIDE DEF J, Q, L
<1>7. J \in Journals /\ Q \in [Stages -> Seq(SUBSET Nat)] /\ Q \in [Stages -> Seq(Nat)] /\ L \in [Stages -> Counts]
  BY <1>2, <1>3, <1>4 DEF J, Q, L
<1>a. J \in [Stages -> SUBSET Nat]
  BY <1>7 DEF Journals
<1>8. N \in Dirs
  BY <1>1, <1>7, <1>a DEF Dirs
<1>9. e \in Dirs /\ ~e.there /\ e.place = p /\ ~e.cancelled /\ ~e.lost /\ ~e.byQueue /\ ~e.cut
      /\ e.over = {} /\ e.done = {} /\ e.told = Untold /\ e.journal = J /\ e.open = J /\ e.parts = Q /\ e.errors = Q
  BY <1>5, <1>8 DEF Dirs
<1>10. [N EXCEPT !.place = "out"] = N
  <2>1. N.place = "out"
    OBVIOUS
  <2> HIDE DEF N
  <2> QED BY <1>8, <2>1 DEF Dirs
<1>11. NoDir = N
  BY DEF NoDir, J, Q, L
<1> HIDE DEF N
<1>12. p = "out" => e = NoDir
  BY <1>5, <1>10, <1>11
<1> QED BY <1>1, <1>6, <1>9, <1>12

LEMMA DoesPurged ==
  ASSUME TypedThere, NEW a \in Attempts, Purged(a),
         NEW d, d = dir[a], NEW e, e = dir'[a]
  PROVE  /\ TypedThere' /\ Others(a) /\ UNCHANGED <<run, client, job, heard, slipped>>
         /\ d \in Dirs /\ e \in Dirs
         /\ d.there /\ e.place = d.place
         /\ \/ e = [NoDir EXCEPT !.place = e.place] /\ ~e.there
            \/ /\ Complete(d.told)
               /\ SameFlags(d, e) /\ SameRecord(d, e) /\ e.open = d.open /\ e.told = d.told
               /\ \E s \in Stages : TakenAt(d, e, s)
<1>1. d \in Dirs /\ d.there /\ UNCHANGED <<run, client, job, heard, slipped>>
  BY DEF TypedThere, Purged
<1>2. ASSUME NEW x \in Dirs, dir' = [dir EXCEPT ![a] = x]
      PROVE  TypedThere' /\ Others(a) /\ e = x /\ e \in Dirs
  BY <1>1, <1>2 DEF TypedThere, Others
<1>3. CASE dir' = [dir EXCEPT ![a] = [NoDir EXCEPT !.place = d.place]]
  <2> DEFINE x == [NoDir EXCEPT !.place = d.place]
  <2>1. d.place \in {"out", "queued", "running"}
    BY <1>1 DEF Dirs
  <2>2. x \in Dirs /\ ~x.there /\ x.place = d.place
    BY <2>1, NoDirIs
  <2>3. dir' = [dir EXCEPT ![a] = x]
    BY <1>3
  <2>4. TypedThere' /\ Others(a) /\ e = x
    BY <1>2, <2>2, <2>3
  <2>5. e = [NoDir EXCEPT !.place = e.place]
    BY <2>2, <2>4
  <2> QED BY <1>1, <2>2, <2>4, <2>5
<1>4. CASE Complete(d.told) /\ \E s \in Stages : \E x \in TakenOf(d, s) : dir' = [dir EXCEPT ![a] = x]
  <2>1. PICK s \in Stages : \E x \in TakenOf(d, s) : dir' = [dir EXCEPT ![a] = x]
    BY <1>4
  <2>2. PICK x \in TakenOf(d, s) : dir' = [dir EXCEPT ![a] = x]
    BY <2>1
  <2>3. /\ d.parts \in [Stages -> Seq(SUBSET Nat)] /\ d.errors \in [Stages -> Seq(Nat)]
        /\ d.taken \in [Stages -> SUBSET Nat]
    BY <1>1 DEF Dirs
  <2>4. CASE x = [d EXCEPT !.errors[s] = <<>>]
    <3> DEFINE E == [d.errors EXCEPT ![s] = <<>>]
    <3>1. d \in Dirs /\ x = [d EXCEPT !.errors = E]
      BY <1>1, <2>4 DEF Dirs
    <3>2. E \in [Stages -> Seq(Nat)]
      BY <2>3, EmptySeq
    <3> HIDE DEF E
    <3>3. x \in Dirs
      BY ONLY <3>1, <3>2 DEF Dirs
    <3>4. SameFlags(d, x) /\ SameRecord(d, x) /\ SameParts(d, x) /\ x.errors = E /\ x.place = d.place /\ x.told = d.told
      BY ONLY <3>1, <3>2 DEF Dirs, SameFlags, SameRecord, SameParts
    <3>5. TypedThere' /\ Others(a) /\ e = x
      BY <1>2, <2>2, <3>3
    <3>6. TakenAt(d, e, s)
      BY <3>4, <3>5 DEF E, SameParts, TakenAt
    <3> QED BY <1>1, <1>4, <3>3, <3>4, <3>5, <3>6 DEF SameParts
  <2>5. CASE x \in {[d EXCEPT !.parts[s] = Without(@, I), !.taken[s] = @ \cup Unnoticed(d.parts[s], I)] :
                      I \in (SUBSET DOMAIN d.parts[s]) \ {{}}}
    <3>1. PICK I \in (SUBSET DOMAIN d.parts[s]) \ {{}} :
            /\ I # {}
            /\ x = [d EXCEPT !.parts[s] = Without(@, I), !.taken[s] = @ \cup Unnoticed(d.parts[s], I)]
      BY <2>5
    <3> DEFINE q == d.parts[s]
               p == Without(q, I)
               u == Unnoticed(q, I)
               P == [d.parts EXCEPT ![s] = p]
               T == [d.taken EXCEPT ![s] = @ \cup u]
    <3>2. d \in Dirs /\ x = [d EXCEPT !.parts = P, !.taken = T]
      BY <1>1, <3>1 DEF Dirs
    <3>3. q \in Seq(SUBSET Nat) /\ DOMAIN q = 1 .. Len(q) /\ Len(q) \in Nat
      BY <2>3
    <3>t. u \in SUBSET Nat
      <4>1. \A i \in I : q[i] \in SUBSET Nat
        BY <3>1, <3>3
      <4> QED BY <4>1 DEF Unnoticed
    <3>4. p \in Seq(SUBSET Nat) /\ Len(p) = Len(q)
      <4>1. \A i \in 1 .. Len(q) : q[i] \in SUBSET Nat
        BY <3>3
      <4>2. p \in [1 .. Len(q) -> SUBSET Nat]
        BY <3>3, <4>1 DEF Without
      <4> HIDE DEF p, q
      <4> QED BY <3>3, <4>2, SeqDef
    <3>5. Len(q) > 0
      BY <3>1, <3>3
    <3>a. \A i \in DOMAIN q : p[i] = q[i] \/ (p[i] = {} /\ (LastPurged(p) \/ q[i] \subseteq u))
      <4> SUFFICES ASSUME NEW i \in DOMAIN q, i \in I
                   PROVE  p[i] = {} /\ (LastPurged(p) \/ q[i] \subseteq u)
        BY DEF Without
      <4>1. p[i] = {}
        BY DEF Without
      <4>2. CASE Len(q) \in I
        <5>1. p[Len(q)] = {}
          BY <3>3, <3>5, <4>2 DEF Without
        <5> HIDE DEF p
        <5> QED BY <3>4, <3>5, <4>1, <5>1 DEF LastPurged
      <4>3. CASE Len(q) \notin I
        BY <4>1, <4>3 DEF Unnoticed
      <4> QED BY <4>2, <4>3
    <3> HIDE DEF p, u
    <3>6. P \in [Stages -> Seq(SUBSET Nat)] /\ P[s] = p /\ \A t \in Stages : t # s => P[t] = d.parts[t]
      BY <2>3, <3>4
    <3>b. T \in [Stages -> SUBSET Nat] /\ d.taken[s] \cup u = T[s] /\ \A t \in Stages : t # s => T[t] = d.taken[t]
      BY <2>3, <3>t
    <3> HIDE DEF P, T
    <3>7. x \in Dirs
      BY ONLY <3>2, <3>6, <3>b DEF Dirs
    <3>8. SameFlags(d, x) /\ SameRecord(d, x) /\ x.open = d.open /\ x.parts = P /\ x.errors = d.errors /\ x.place = d.place
          /\ x.told = d.told /\ x.taken = T
      BY ONLY <3>2, <3>6, <3>b DEF Dirs, SameFlags, SameRecord
    <3>9. TypedThere' /\ Others(a) /\ e = x
      BY <1>2, <2>2, <3>7
    <3>10. /\ \A t \in Stages : t # s => e.parts[t] = d.parts[t] /\ e.taken[t] = d.taken[t]
           /\ Len(e.parts[s]) = Len(d.parts[s])
           /\ Len(d.parts[s]) > 0
           /\ d.taken[s] \subseteq e.taken[s]
           /\ \A i \in DOMAIN d.parts[s] : \/ e.parts[s][i] = d.parts[s][i]
                                           \/ /\ e.parts[s][i] = {}
                                              /\ LastPurged(e.parts[s]) \/ d.parts[s][i] \subseteq e.taken[s]
      <4>1. e.parts[s] = p /\ e.taken[s] = d.taken[s] \cup u /\ d.parts[s] = q
        BY <3>6, <3>b, <3>8, <3>9
      <4>2. \A t \in Stages : t # s => e.parts[t] = d.parts[t] /\ e.taken[t] = d.taken[t]
        BY <3>6, <3>b, <3>8, <3>9
      <4> HIDE DEF q
      <4> QED BY <3>4, <3>5, <3>a, <4>1, <4>2
    <3>11. TakenAt(d, e, s)
      BY <3>8, <3>9, <3>10 DEF TakenAt
    <3> QED BY <1>1, <1>4, <3>7, <3>8, <3>9, <3>11
  <2> QED BY <2>2, <2>4, <2>5 DEF TakenOf
<1> QED BY <1>3, <1>4 DEF Purged

-----------------------------------------------------------------------------
(* What each step of the thread does *)

OnlyDir(a) == \A b \in Attempts : b # a => dir'[b] = dir[b]
SameElse(h, g) == g.stop = h.stop /\ g.first = h.first /\ g.ending = h.ending /\ g.again = h.again
SameCounts(h, g) == g.parts = h.parts /\ g.errors = h.errors /\ g.reduced = h.reduced
Idle == /\ pc' = "off" /\ job' # "running" /\ ~here'.stop /\ ~here'.ending /\ here'.reduced = Reduced
        /\ \A s \in Stages : here'.parts[s] = 0 /\ here'.errors[s] = 0
        /\ here'.dir => here.dir /\ here'.n = here.n

LEMMA FreshIs ==
  /\ Fresh \in Followers /\ Fresh.n = 0 /\ ~Fresh.dir /\ ~Fresh.stop /\ Fresh.first /\ ~Fresh.ending /\ ~Fresh.again
  /\ Fresh.reduced = Reduced
  /\ \A s \in Stages : Fresh.parts[s] = 0 /\ Fresh.errors[s] = 0
<1>1. 0 \in Attempts
  BY CampaignAssumption DEF Attempts
<1> QED BY <1>1 DEF Fresh, Followers

LEMMA UntoldIs == Untold \in Tellings /\ Untold.status = "none" /\ Untold.stages = 0
BY DEF Untold, Tellings, Counts, NotDone

LEMMA NothingGotIs ==
  /\ NothingGot \in Results /\ NothingGot.reduced = {}
  /\ \A s \in Stages : NothingGot.results[s] = {} /\ NothingGot.errors[s] = {}
BY DEF NothingGot, Results

LEMMA EndedIs ==
  ASSUME TypedHere, NEW how \in {"completed", "failed"}, Ended(how)
  PROVE  /\ Idle /\ here' \in Followers /\ pc' = "off"
         /\ job' \in {"none", "running", "canceled", "interrupted", "completed", "failed"}
         /\ job' = (IF job = "running" THEN how ELSE job)
<1>1. pc' = "off" /\ job' = (IF job = "running" THEN how ELSE job)
      /\ here' = IF heard THEN Fresh ELSE [Fresh EXCEPT !.n = here.n, !.dir = here.dir]
  BY DEF Ended
<1>2. CASE heard
  BY <1>1, <1>2, FreshIs DEF Idle, TypedHere
<1>3. CASE ~heard
  <2>1. here.n \in Attempts /\ here.dir \in BOOLEAN
    BY DEF TypedHere, Followers
  <2>2. here' = [Fresh EXCEPT !.n = here.n, !.dir = here.dir]
    BY <1>1, <1>3
  <2>3. here' \in Followers /\ here'.reduced = Fresh.reduced /\ here'.parts = Fresh.parts /\ here'.errors = Fresh.errors
        /\ here'.stop = Fresh.stop /\ here'.ending = Fresh.ending /\ here'.n = here.n /\ here'.dir = here.dir
    BY <2>1, <2>2, FreshIs DEF Followers
  <2> QED BY <1>1, <2>3, FreshIs DEF Idle, TypedHere
<1> QED BY <1>2, <1>3

LEMMA NamesIs ==
  ASSUME here \in Followers, NEW a \in Attempts, NEW g, g = Names(a)
  PROVE  g \in Followers /\ g.n = a /\ g.dir /\ SameElse(here, g) /\ SameCounts(here, g)
BY DEF Names, Followers, SameElse, SameCounts

LEMMA DoesPlace ==
  ASSUME Typed, Place
  PROVE  /\ Typed' /\ pc = "place" /\ UNCHANGED <<run, told, got>> /\ Alone
         /\ here'.dir /\ SameElse(here, here') /\ SameCounts(here, here')
         /\ \/ /\ \A b \in Attempts : ~dir[b].there
               /\ dir' = dir /\ pc' = "upload"
            \/ \E a \in Attempts :
                 LET d == dir[a]  e == dir'[a]  over == d.cancelled \/ d.byQueue \/ d.lost \/ d.told.status = "failed" IN
                 /\ d.there /\ \A b \in Attempts : dir[b].there => b <= a
                 /\ d \in Dirs /\ e \in Dirs /\ OnlyDir(a)
                 /\ e.there = d.there /\ e.place = d.place /\ e.lost = d.lost /\ e.byQueue = d.byQueue
                 /\ e.cancelled = (d.cancelled \/ d.byQueue) /\ e.cut = d.cut
                 /\ SameRecord(d, e) /\ SameParts(d, e) /\ e.errors = d.errors /\ e.told = d.told
                 /\ \/ over /\ here'.n = a + 1 /\ pc' = "upload"
                    \/ ~over /\ here'.n = a /\ pc' = IF d.place # "out" \/ Complete(d.told) THEN "follow" ELSE "fill"
<1>1. pc = "place" /\ UNCHANGED <<run, told, got>> /\ Alone
  BY DEF Place
<1>2. here \in Followers
  BY DEF Typed, TypedHere
<1>3. Attempts \in SUBSET Nat /\ 0 \in Attempts /\ AttemptsMax \in Nat
  BY CampaignAssumption DEF Attempts
<1>4. CASE Tried = {}
  <2>1. here' = Names(0) /\ pc' = "upload" /\ dir' = dir
    BY <1>4 DEF Place, Goes
  <2>2. here' \in Followers /\ here'.n = 0 /\ here'.dir /\ SameElse(here, here') /\ SameCounts(here, here')
    BY <1>2, <1>3, <2>1, NamesIs
  <2>3. Typed'
    BY <1>1, <2>1, <2>2 DEF Typed, TypedThere, TypedHere, Alone
  <2>4. \A b \in Attempts : ~dir[b].there
    BY <1>4 DEF Tried
  <2> QED BY <1>1, <2>1, <2>2, <2>3, <2>4
<1>5. CASE Tried # {}
  <2>1. Max(Tried) \in Tried /\ \A b \in Tried : Max(Tried) >= b
    <3>1. Tried \in SUBSET Nat /\ \A b \in Tried : b <= AttemptsMax
      BY <1>3 DEF Tried, Attempts
    <3> QED BY <1>3, <1>5, <3>1, MaxIs
  <2>2. PICK a \in Attempts : a = Max(Tried) /\ dir[a].there /\ \A b \in Attempts : dir[b].there => b <= a
    BY <1>3, <2>1 DEF Tried
  <2> DEFINE d == dir[a]
             e == dir'[a]
             over == d.cancelled \/ d.byQueue \/ d.lost \/ d.told.status = "failed"
             look == Look(a)
  <2>3. /\ look.told = d.told /\ look.cancelled = d.cancelled /\ look.lost = d.lost /\ look.byQueue = d.byQueue
        /\ look.alive = (d.there /\ d.place # "out")
    BY DEF Look
  <2>4. StartsOver(look) <=> over
    BY <2>3 DEF StartsOver
  <2>5. /\ dir' = [dir EXCEPT ![a].cancelled = @ \/ look.byQueue]
        /\ \/ over /\ a + 1 \in Attempts /\ here' = Names(a + 1) /\ pc' = "upload"
           \/ ~over /\ here' = Names(a) /\ pc' = IF d.place # "out" \/ Complete(d.told) THEN "follow" ELSE "fill"
    <3>1. /\ dir' = [dir EXCEPT ![a].cancelled = @ \/ look.byQueue]
          /\ IF StartsOver(look)
             THEN a + 1 \in Attempts /\ here' = Names(a + 1) /\ Goes("upload")
             ELSE here' = Names(a) /\ Goes(IF look.alive \/ Complete(look.told) THEN "follow" ELSE "fill")
      BY <1>5, <2>2 DEF Place
    <3> HIDE DEF look
    <3> QED BY <2>2, <2>3, <2>4, <3>1 DEF Goes
  <2> DEFINE c == d.cancelled \/ d.byQueue
  <2>6. d \in Dirs
    BY DEF Typed, TypedThere
  <2>7. e = [d EXCEPT !.cancelled = c]
    <3> HIDE DEF look
    <3> QED BY <2>3, <2>5 DEF Typed, TypedThere
  <2>8. c \in BOOLEAN
    BY <2>6 DEF Dirs
  <2> HIDE DEF d, e, c, look
  <2>9. /\ e \in Dirs
        /\ e.there = d.there /\ e.place = d.place /\ e.lost = d.lost /\ e.byQueue = d.byQueue /\ e.cancelled = c
        /\ e.cut = d.cut /\ SameRecord(d, e) /\ SameParts(d, e) /\ e.errors = d.errors /\ e.told = d.told
    BY ONLY <2>6, <2>7, <2>8 DEF Dirs, SameRecord, SameParts
  <2>10. OnlyDir(a) /\ TypedThere'
    BY <1>1, <2>5, <2>9 DEF Typed, TypedThere, OnlyDir, e
  <2>11. here' \in Followers /\ here'.dir /\ SameElse(here, here') /\ SameCounts(here, here')
         /\ pc' \in {"upload", "follow", "fill"}
         /\ \/ over /\ here'.n = a + 1 /\ pc' = "upload"
            \/ ~over /\ here'.n = a /\ pc' = IF d.place # "out" \/ Complete(d.told) THEN "follow" ELSE "fill"
    <3>1. CASE over /\ a + 1 \in Attempts /\ here' = Names(a + 1) /\ pc' = "upload"
      BY <1>2, <3>1, NamesIs
    <3>2. CASE ~over /\ here' = Names(a) /\ pc' = IF d.place # "out" \/ Complete(d.told) THEN "follow" ELSE "fill"
      <4>1. here' \in Followers /\ here'.n = a /\ here'.dir /\ SameElse(here, here') /\ SameCounts(here, here')
        BY <1>2, <3>2, NamesIs
      <4> QED BY <3>2, <4>1
    <3> QED BY <2>5, <3>1, <3>2 DEF d
  <2>12. Typed'
    BY <1>1, <2>10, <2>11 DEF Typed, TypedHere, Alone
  <2> QED BY <1>1, <2>2, <2>6, <2>9, <2>10, <2>11, <2>12 DEF d, e, c
<1> QED BY <1>4, <1>5

LEMMA DoesUpload ==
  ASSUME Typed, Upload, NEW n, n = here.n, NEW d, d = dir[n], NEW e, e = dir'[n]
  PROVE  /\ Typed' /\ pc = "upload" /\ pc' = "fill" /\ UNCHANGED <<run, here, told, got>> /\ Alone
         /\ n \in Attempts /\ OnlyDir(n) /\ d \in Dirs /\ e \in Dirs
         /\ d.place = "out" /\ e.place = "out" /\ e.there
         /\ e.cancelled = d.cancelled /\ e.lost = d.lost /\ e.byQueue = d.byQueue /\ e.cut = d.cut
         /\ SameRecord(d, e) /\ SameParts(d, e) /\ e.errors = d.errors /\ e.told = d.told
<1>1. n \in Attempts /\ d \in Dirs
  BY DEF Typed, TypedThere, TypedHere, Followers
<1>2. /\ pc = "upload" /\ d.place = "out" /\ dir' = [dir EXCEPT ![n].there = TRUE]
      /\ pc' = "fill" /\ UNCHANGED <<run, here, told, got>> /\ Alone
  BY DEF Upload, Goes
<1>3. d \in Dirs /\ d.place = "out" /\ e = [d EXCEPT !.there = TRUE]
  BY <1>1, <1>2 DEF Typed, TypedThere
<1>4. /\ e \in Dirs /\ e.there /\ e.place = "out"
      /\ e.cancelled = d.cancelled /\ e.lost = d.lost /\ e.byQueue = d.byQueue /\ e.cut = d.cut
      /\ SameRecord(d, e) /\ SameParts(d, e) /\ e.errors = d.errors /\ e.told = d.told
  BY ONLY <1>3 DEF Dirs, SameRecord, SameParts
<1>5. OnlyDir(n) /\ TypedThere'
  BY <1>1, <1>2, <1>4 DEF Typed, TypedThere, OnlyDir
<1>6. Typed'
  BY <1>2, <1>5 DEF Typed, TypedHere, Alone
<1> QED BY <1>1, <1>2, <1>4, <1>5, <1>6

LEMMA DoesFill ==
  ASSUME Typed, Fill
  PROVE  /\ Typed' /\ pc = "fill" /\ UNCHANGED <<there, told, got, heard, slipped, troubles>>
         /\ \/ dir[here.n].there /\ pc' = "submit" /\ here' = here /\ job' = job
            \/ Idle /\ job' = IF job = "running" THEN "failed" ELSE job
<1>1. pc = "fill" /\ UNCHANGED <<there, told, got, heard, slipped, troubles>>
  BY DEF Fill
<1>2. CASE dir[here.n].there /\ pc' = "submit" /\ here' = here /\ job' = job
  <2>1. Typed'
    BY <1>1, <1>2 DEF Typed, TypedThere, TypedHere, there
  <2> QED BY <1>1, <1>2, <2>1
<1>3. CASE Ended("failed")
  <2>1. /\ Idle /\ here' \in Followers /\ pc' = "off"
        /\ job' \in {"none", "running", "canceled", "interrupted", "completed", "failed"}
        /\ job' = (IF job = "running" THEN "failed" ELSE job)
    BY <1>3, EndedIs DEF Typed
  <2>2. Typed'
    BY <1>1, <2>1 DEF Typed, TypedThere, TypedHere, there
  <2> QED BY <1>1, <2>1, <2>2
<1> QED BY <1>2, <1>3 DEF Fill, Goes, Stays

\* It is queued again where it is.
LEMMA QueuedIs ==
  ASSUME Typed, run' = run, NEW n \in Attempts, QueuedAgain(n), NEW d, d = dir[n], NEW e, e = dir'[n]
  PROVE  /\ TypedThere' /\ OnlyDir(n) /\ d \in Dirs /\ e \in Dirs
         /\ slipped' \in BOOLEAN /\ (slipped \/ (job = "canceled" /\ heard) => slipped')
         /\ e.there = d.there /\ e.lost = d.lost /\ ~e.cancelled /\ ~e.byQueue /\ e.cut = d.cut
         /\ (d.place = "out" /\ e.place = "queued") \/ (d.place # "out" /\ e.place = d.place)
         /\ SameRecord(d, e) /\ SameParts(d, e) /\ e.errors = d.errors /\ e.told = d.told
<1> DEFINE p == IF d.place = "out" THEN "queued" ELSE d.place
<1>1. d \in Dirs
  BY DEF Typed, TypedThere
<1>2. p \in {"out", "queued", "running"}
  BY <1>1 DEF Dirs
<1>3. dir' = [dir EXCEPT ![n].cancelled = FALSE, ![n].byQueue = FALSE, ![n].place = IF @ = "out" THEN "queued" ELSE @]
  BY DEF QueuedAgain
<1>4. e = [d EXCEPT !.cancelled = FALSE, !.byQueue = FALSE, !.place = p]
  BY <1>1, <1>3 DEF Typed, TypedThere, Dirs
<1> HIDE DEF p
<1>5. /\ e \in Dirs
      /\ e.there = d.there /\ e.lost = d.lost /\ ~e.cancelled /\ ~e.byQueue /\ e.place = p /\ e.cut = d.cut
      /\ SameRecord(d, e) /\ SameParts(d, e) /\ e.errors = d.errors /\ e.told = d.told
  BY ONLY <1>1, <1>2, <1>4 DEF Dirs, SameRecord, SameParts
<1>6. OnlyDir(n) /\ TypedThere'
  BY <1>3, <1>5 DEF Typed, TypedThere, OnlyDir
<1>7. slipped' \in BOOLEAN /\ (slipped \/ (job = "canceled" /\ heard) => slipped')
  BY DEF QueuedAgain, Typed, TypedHere
<1> QED BY <1>1, <1>5, <1>6, <1>7 DEF p

LEMMA DoesQueue ==
  ASSUME Typed, Queue
  PROVE  /\ Typed' /\ pc = "submit" /\ UNCHANGED <<run, told, got, heard, troubles>>
         /\ \/ /\ dir[here.n].there /\ QueuedAgain(here.n) /\ pc' = "follow" /\ job' = job
               /\ here'.n = here.n /\ here'.dir = here.dir /\ here'.stop = here.stop /\ here'.ending = here.ending
               /\ ~here'.first /\ SameCounts(here, here')
            \/ dir' = dir /\ slipped' = slipped /\ Idle /\ job' = IF job = "running" THEN "failed" ELSE job
<1>1. pc = "submit" /\ UNCHANGED <<run, told, got, heard, troubles>>
  BY DEF Queue
<1>2. here \in Followers /\ here.n \in Attempts
  BY DEF Typed, TypedHere, Followers
<1>3. CASE dir[here.n].there /\ QueuedAgain(here.n) /\ pc' = "follow" /\ here' = [here EXCEPT !.first = FALSE] /\ job' = job
  <2>1. TypedThere' /\ slipped' \in BOOLEAN
    BY <1>1, <1>2, <1>3, QueuedIs DEF Typed
  <2>2. here' = [here EXCEPT !.first = FALSE]
    BY <1>3
  <2>3. /\ here' \in Followers /\ here'.n = here.n /\ here'.dir = here.dir /\ here'.stop = here.stop
        /\ here'.ending = here.ending /\ ~here'.first /\ SameCounts(here, here')
    BY ONLY <1>2, <2>2 DEF Followers, SameCounts
  <2>4. Typed'
    BY <1>1, <1>3, <2>1, <2>3 DEF Typed, TypedHere
  <2> QED BY <1>1, <1>3, <2>3, <2>4
<1>4. CASE Ended("failed") /\ dir' = dir /\ slipped' = slipped
  <2>1. /\ Idle /\ here' \in Followers /\ pc' = "off"
        /\ job' \in {"none", "running", "canceled", "interrupted", "completed", "failed"}
        /\ job' = (IF job = "running" THEN "failed" ELSE job)
    BY <1>4, EndedIs DEF Typed
  <2>2. Typed'
    BY <1>1, <1>4, <2>1 DEF Typed, TypedThere, TypedHere
  <2> QED BY <1>1, <1>4, <2>1, <2>2
<1> QED BY <1>3, <1>4 DEF Queue, Goes

LEMMA DoesLost ==
  ASSUME Typed, Lost
  PROVE  /\ Typed' /\ UNCHANGED <<run, told, got, heard>>
         /\ \/ dir' = dir /\ slipped' = slipped
            \/ pc = "submit" /\ dir[here.n].there /\ QueuedAgain(here.n)
         /\ \/ Idle /\ job' = IF job = "running" THEN "failed" ELSE job
            \/ /\ here' = here /\ job' = job
               /\ \/ pc \in {"follow", "state"} /\ pc' = pc
                  \/ pc \in {"place", "upload", "fill", "submit"} /\ here.first /\ ~here.stop /\ pc' = "place"
<1>1. UNCHANGED <<run, told, got, heard>> /\ pc \in {"place", "upload", "fill", "submit", "follow", "state", "again"}
  BY DEF Lost
<1>2. here \in Followers /\ here.n \in Attempts
  BY DEF Typed, TypedHere, Followers
<1>3. \/ dir' = dir /\ slipped' = slipped
      \/ pc = "submit" /\ dir[here.n].there /\ QueuedAgain(here.n)
  BY DEF Lost
<1>4. TypedThere' /\ slipped' \in BOOLEAN
  <2>1. CASE dir' = dir /\ slipped' = slipped
    BY <1>1, <2>1 DEF Typed, TypedThere, TypedHere
  <2>2. CASE QueuedAgain(here.n)
    BY <1>1, <1>2, <2>2, QueuedIs
  <2> QED BY <1>3, <2>1, <2>2
<1>5. CASE Ended("failed")
  <2>1. /\ Idle /\ here' \in Followers /\ pc' = "off"
        /\ job' \in {"none", "running", "canceled", "interrupted", "completed", "failed"}
        /\ job' = (IF job = "running" THEN "failed" ELSE job)
    BY <1>5, EndedIs DEF Typed
  <2>2. Typed'
    BY <1>1, <1>4, <2>1 DEF Typed, TypedHere
  <2> QED BY <1>1, <1>3, <1>5, <2>1, <2>2
<1>6. CASE /\ here' = here /\ job' = job
           /\ \/ pc \in {"follow", "state"} /\ pc' = pc
              \/ pc \in {"place", "upload", "fill", "submit"} /\ here.first /\ ~here.stop /\ pc' = "place"
  <2>1. pc' \in {"follow", "state", "place"}
    BY <1>6
  <2>2. Typed'
    BY <1>1, <1>4, <1>6, <2>1 DEF Typed, TypedHere
  <2> QED BY <1>1, <1>3, <1>6, <2>2
<1>7. \/ Ended("failed")
      \/ /\ here' = here /\ job' = job
         /\ \/ pc \in {"follow", "state"} /\ pc' = pc
            \/ pc \in {"place", "upload", "fill", "submit"} /\ here.first /\ ~here.stop /\ pc' = "place"
  BY <1>1 DEF Lost, Insists, Goes, Stays
<1> QED BY <1>5, <1>6, <1>7

LEMMA DoesAsk ==
  ASSUME Typed, Ask
  PROVE  /\ Typed' /\ pc = "follow" /\ UNCHANGED <<there, got, heard, slipped, troubles>>
         /\ \/ Idle /\ told' = told /\ job' = IF job = "running" THEN "failed" ELSE job
            \/ /\ ~here.stop /\ pc' = "read" /\ job' = job
               /\ told' = (IF dir[here.n].there THEN dir[here.n].told ELSE Untold)
               /\ here'.n = here.n /\ here'.dir = here.dir /\ here'.stop = here.stop /\ here'.ending = here.ending
               /\ ~here'.first /\ SameCounts(here, here')
<1>1. pc = "follow" /\ UNCHANGED <<there, got, heard, slipped, troubles>>
  BY DEF Ask
<1>2. here \in Followers /\ here.n \in Attempts
  BY DEF Typed, TypedHere, Followers
<1>3. CASE Ended("failed") /\ told' = told
  <2>1. /\ Idle /\ here' \in Followers /\ pc' = "off"
        /\ job' \in {"none", "running", "canceled", "interrupted", "completed", "failed"}
        /\ job' = (IF job = "running" THEN "failed" ELSE job)
    BY <1>3, EndedIs DEF Typed
  <2>2. Typed'
    BY <1>1, <1>3, <2>1 DEF Typed, TypedThere, TypedHere, there
  <2> QED BY <1>1, <1>3, <2>1, <2>2
<1>4. CASE /\ ~here.stop /\ pc' = "read" /\ job' = job
           /\ told' = (IF dir[here.n].there THEN dir[here.n].told ELSE Untold)
           /\ here' = [here EXCEPT !.first = FALSE]
  <2>1. here' = [here EXCEPT !.first = FALSE]
    BY <1>4
  <2>2. /\ here' \in Followers /\ here'.n = here.n /\ here'.dir = here.dir /\ here'.stop = here.stop
        /\ here'.ending = here.ending /\ ~here'.first /\ SameCounts(here, here')
    BY ONLY <1>2, <2>1 DEF Followers, SameCounts
  <2>3. told' \in Tellings
    <3>1. dir[here.n] \in Dirs
      BY <1>2 DEF Typed, TypedThere
    <3>2. dir[here.n].told \in Tellings
      BY <3>1 DEF Dirs
    <3> QED BY <1>4, <3>2, UntoldIs
  <2>4. Typed'
    BY <1>1, <1>4, <2>2, <2>3 DEF Typed, TypedThere, TypedHere, there
  <2> QED BY <1>1, <1>4, <2>2, <2>4
<1> QED BY <1>3, <1>4 DEF Ask, Goes

\* What has come, and how much of it: all there is of the errors, and each part that is new and not empty.
LEMMA CountedIs ==
  ASSUME Typed, NEW d \in Dirs, NEW h, h = Counted(d), NEW g, g = Came(d)
  PROVE  /\ h \in Followers /\ g \in Results
         /\ h.n = here.n /\ h.dir = here.dir /\ SameElse(here, h)
         /\ h.reduced = here.reduced \ d.reduced /\ g.reduced = got.reduced \cup (here.reduced \cap d.reduced)
         /\ g.taken = d.taken
         /\ \A s \in Stages : h.errors[s] = Len(d.errors[s]) /\ g.errors[s] = got.errors[s] \cup NewErrors(d, s)
         /\ \A s \in Streamed : /\ h.parts[s] = here.parts[s] \/ h.parts[s] \in NewParts(d, s)
                                /\ h.parts[s] >= here.parts[s] /\ \A i \in NewParts(d, s) : h.parts[s] >= i
                                /\ g.results[s] = got.results[s] \cup UNION {d.parts[s][i] : i \in NewParts(d, s)}
<1> DEFINE T(s) == {here.parts[s]} \cup (IF s \in Streamed THEN NewParts(d, s) ELSE {})
           P == [s \in Stages |-> Max(T(s))]
           E == [s \in Stages |-> Len(d.errors[s])]
           R == here.reduced \ d.reduced
           GR == [s \in Stages |-> got.results[s] \cup (IF s \in Streamed THEN UNION {d.parts[s][i] : i \in NewParts(d, s)} ELSE {})]
           GE == [s \in Stages |-> got.errors[s] \cup NewErrors(d, s)]
           GD == got.reduced \cup (here.reduced \cap d.reduced)
<1>1. here \in Followers /\ got \in Results
  BY DEF Typed, TypedHere
<1>2. here.parts \in [Stages -> Nat] /\ here.reduced \subseteq Reduced /\ here.errors \in [Stages -> Nat]
      /\ got.results \in [Stages -> SUBSET Nat] /\ got.errors \in [Stages -> SUBSET Nat] /\ got.reduced \in SUBSET Stages
  BY <1>1 DEF Followers, Results
<1>3. d.parts \in [Stages -> Seq(SUBSET Nat)] /\ d.errors \in [Stages -> Seq(Nat)]
  BY DEF Dirs
<1>4. ASSUME NEW s \in Stages
      PROVE  /\ Max(T(s)) \in T(s) /\ Max(T(s)) \in Nat /\ \A i \in T(s) : Max(T(s)) >= i
             /\ (\A i \in NewParts(d, s) : d.parts[s][i] \in SUBSET Nat)
             /\ NewErrors(d, s) \in SUBSET Nat
  <2>1. PICK p \in Nat, l \in Nat, m \in Nat, n \in Nat :
           p = here.parts[s] /\ l = Len(d.parts[s]) /\ m = Len(d.errors[s]) /\ n = here.errors[s]
    <3>1. here.parts[s] \in Nat /\ here.errors[s] \in Nat
      BY <1>2
    <3>2. Len(d.parts[s]) \in Nat /\ Len(d.errors[s]) \in Nat
      BY <1>3
    <3> QED BY ONLY <3>1, <3>2
  <2>2. DOMAIN d.parts[s] = 1 .. l /\ \A i \in 1 .. l : d.parts[s][i] \in SUBSET Nat
    BY <1>3, <2>1
  <2>3. \A i \in NewParts(d, s) : i \in 1 .. l /\ d.parts[s][i] \in SUBSET Nat
    BY <2>2 DEF NewParts
  <2>4. T(s) \in SUBSET Nat /\ T(s) # {}
    BY <2>1, <2>3
  <2>5. p + l \in Nat /\ \A i \in T(s) : i <= p + l
    <3>1. \A i \in 1 .. l : i <= p + l
      OBVIOUS
    <3> QED BY <2>1, <2>3, <3>1
  <2>6. Max(T(s)) \in T(s) /\ \A i \in T(s) : Max(T(s)) >= i
    <3> HIDE DEF T
    <3> QED BY <2>4, <2>5, MaxIs
  <2>7. \A i \in (n + 1) .. m : i \in 1 .. m
    OBVIOUS
  <2>8. \A i \in (n + 1) .. m : d.errors[s][i] \in Nat
    BY <1>3, <2>1, <2>7
  <2>9. NewErrors(d, s) \in SUBSET Nat
    BY <2>1, <2>8 DEF NewErrors
  <2> HIDE DEF T
  <2> QED BY <2>3, <2>4, <2>6, <2>9
<1>5. P \in [Stages -> Nat] /\ E \in [Stages -> Nat] /\ R \in SUBSET Reduced
  <2>1. E \in [Stages -> Nat] /\ R \in SUBSET Reduced
    BY <1>2, <1>3
  <2>2. \A s \in Stages : Max(T(s)) \in Nat
    BY <1>4
  <2> HIDE DEF T
  <2> QED BY <2>1, <2>2
<1>6. GR \in [Stages -> SUBSET Nat] /\ GE \in [Stages -> SUBSET Nat]
  <2>1. \A s \in Stages : NewErrors(d, s) \in SUBSET Nat /\ (UNION {d.parts[s][i] : i \in NewParts(d, s)}) \in SUBSET Nat
    BY <1>4
  <2>2. \A s \in Stages : got.results[s] \in SUBSET Nat /\ got.errors[s] \in SUBSET Nat
    BY <1>2
  <2>3. \A s \in Stages : got.errors[s] \cup NewErrors(d, s) \in SUBSET Nat
    BY <2>1, <2>2
  <2>4. \A s \in Stages : got.results[s] \cup (IF s \in Streamed THEN UNION {d.parts[s][i] : i \in NewParts(d, s)} ELSE {}) \in SUBSET Nat
    BY <2>1, <2>2
  <2> QED BY <2>3, <2>4
<1>7. GD \in SUBSET Stages
  BY <1>2, CampaignAssumption
<1>8. h = [here EXCEPT !.parts = P, !.errors = E, !.reduced = R]
  BY <1>1 DEF Counted, Followers
<1>9. g = [results |-> GR, errors |-> GE, reduced |-> GD, taken |-> d.taken]
  BY DEF Came
<1>t. d.taken \in [Stages -> SUBSET Nat]
  BY DEF Dirs
<1>10. \A s \in Stages : P[s] = Max(T(s)) /\ E[s] = Len(d.errors[s]) /\ GE[s] = got.errors[s] \cup NewErrors(d, s)
  OBVIOUS
<1>11. \A s \in Streamed : GR[s] = got.results[s] \cup UNION {d.parts[s][i] : i \in NewParts(d, s)}
  BY CampaignAssumption
<1>12. \A s \in Streamed : /\ P[s] = here.parts[s] \/ P[s] \in NewParts(d, s)
                           /\ P[s] >= here.parts[s] /\ \A i \in NewParts(d, s) : P[s] >= i
  <2> SUFFICES ASSUME NEW s \in Streamed
               PROVE  /\ P[s] = here.parts[s] \/ P[s] \in NewParts(d, s)
                      /\ P[s] >= here.parts[s] /\ \A i \in NewParts(d, s) : P[s] >= i
    OBVIOUS
  <2>1. s \in Stages
    BY CampaignAssumption
  <2>2. P[s] = Max(T(s)) /\ T(s) = {here.parts[s]} \cup NewParts(d, s)
    BY <2>1, <1>10
  <2>3. Max(T(s)) \in T(s) /\ \A i \in T(s) : Max(T(s)) >= i
    BY <2>1, <1>4
  <2> HIDE DEF P, T
  <2> QED BY <2>2, <2>3
<1> HIDE DEF P, E, R, GR, GE, GD, T
<1>13. /\ h \in Followers /\ h.n = here.n /\ h.dir = here.dir /\ SameElse(here, h)
       /\ h.parts = P /\ h.errors = E /\ h.reduced = R
  BY ONLY <1>1, <1>5, <1>8 DEF Followers, SameElse
<1>14. g \in Results /\ g.results = GR /\ g.errors = GE /\ g.reduced = GD /\ g.taken = d.taken
  BY ONLY <1>6, <1>7, <1>9, <1>t DEF Results
<1> QED BY <1>10, <1>11, <1>12, <1>13, <1>14 DEF R, GD

LEMMA DoesRead ==
  ASSUME Typed, Read, NEW d, d = dir[here.n]
  PROVE  /\ Typed' /\ pc = "read" /\ UNCHANGED <<there, heard, slipped, troubles>>
         /\ d \in Dirs /\ got' = (IF job = "running" THEN Came(d) ELSE NothingGot)
         /\ told' = (IF pc' = "state" THEN told ELSE Untold)
         /\ \/ Idle /\ job' = (IF job = "running" THEN "failed" ELSE job)
            \/ /\ Idle /\ job' = (IF job = "running" THEN "completed" ELSE job)
               /\ d.there /\ Complete(told) /\ ~Missing(Counted(d))
            \/ pc' = "again" /\ here' = Counted(d) /\ job' = job
            \/ /\ pc' = "follow" /\ job' = job
               /\ here'.n = here.n /\ here'.dir = here.dir /\ here'.stop = here.stop /\ here'.first = here.first
               /\ SameCounts(Counted(d), here')
               /\ here'.ending = (d.place = "out")
            \/ /\ pc' = "state" /\ job' = job /\ here' = Counted(d)
               /\ d.place = "out" /\ here.ending /\ told.status # "failed" /\ d.there
<1> DEFINE h == Counted(d)
<1>1. d \in Dirs /\ here.n \in Attempts /\ here \in Followers
  BY DEF Typed, TypedThere, TypedHere, Followers
<1>2. /\ h \in Followers /\ Came(d) \in Results
      /\ h.n = here.n /\ h.dir = here.dir /\ SameElse(here, h)
  BY <1>1, CountedIs
<1>3. pc = "read" /\ UNCHANGED <<there, heard, slipped, troubles>>
      /\ got' = (IF job = "running" THEN Came(d) ELSE NothingGot)
      /\ told' = IF pc' = "state" THEN told ELSE Untold
  BY DEF Read
<1>4. got' \in Results /\ told' \in Tellings
  BY <1>2, <1>3, NothingGotIs, UntoldIs DEF Typed, TypedHere
<1> HIDE DEF h
<1>5. ASSUME NEW g \in BOOLEAN, NEW x, x = [h EXCEPT !.ending = g]
      PROVE  /\ x \in Followers /\ x.n = here.n /\ x.dir = here.dir /\ x.stop = here.stop /\ x.first = here.first
             /\ SameCounts(h, x) /\ x.ending = g
  BY <1>2, <1>5 DEF Followers, SameElse, SameCounts
<1>6. \/ d.there /\ Whole(h) /\ Ended("completed")
      \/ Ended("failed")
      \/ pc' = "again" /\ here' = h /\ job' = job
      \/ /\ ~Gone(d, h) /\ told.status # "failed" /\ job' = job
         /\ \/ d.place # "out" /\ pc' = "follow" /\ here' = [h EXCEPT !.ending = FALSE]
            \/ d.place = "out" /\ pc' = "follow" /\ here' = [h EXCEPT !.ending = TRUE]
            \/ d.place = "out" /\ LeftForGood(h) /\ pc' = "state" /\ here' = h
  BY DEF Read, Goes, h
<1>7. ASSUME NEW how \in {"completed", "failed"}, Ended(how)
      PROVE  Typed' /\ Idle /\ job' = IF job = "running" THEN how ELSE job
  <2>1. /\ Idle /\ here' \in Followers /\ pc' = "off"
        /\ job' \in {"none", "running", "canceled", "interrupted", "completed", "failed"}
        /\ job' = (IF job = "running" THEN how ELSE job)
    BY <1>7, EndedIs DEF Typed
  <2> QED BY <1>3, <1>4, <2>1 DEF Typed, TypedThere, TypedHere, there
<1>8. CASE d.there /\ Whole(h) /\ Ended("completed")
  <2>1. Typed' /\ Idle /\ job' = IF job = "running" THEN "completed" ELSE job
    BY <1>7, <1>8
  <2>2. Complete(told) /\ ~Missing(h)
    BY <1>8 DEF Whole
  <2> QED BY <1>1, <1>3, <1>8, <2>1, <2>2 DEF h
<1>9. CASE Ended("failed")
  <2>1. Typed' /\ Idle /\ job' = IF job = "running" THEN "failed" ELSE job
    BY <1>7, <1>9
  <2> QED BY <1>1, <1>3, <2>1
<1>10. ASSUME job' = job, here' \in Followers, pc' \in {"again", "follow", "state"}
       PROVE  Typed'
  BY <1>3, <1>4, <1>10 DEF Typed, TypedThere, TypedHere, there
<1>11. CASE pc' = "again" /\ here' = h /\ job' = job
  <2>1. Typed'
    BY <1>2, <1>10, <1>11
  <2> QED BY <1>1, <1>3, <1>11, <2>1 DEF h
<1>12. CASE d.place # "out" /\ pc' = "follow" /\ here' = [h EXCEPT !.ending = FALSE] /\ job' = job
  <2>1. /\ here' \in Followers /\ here'.n = here.n /\ here'.dir = here.dir /\ here'.stop = here.stop
        /\ here'.first = here.first /\ SameCounts(h, here') /\ here'.ending = FALSE
    BY <1>5, <1>12
  <2>2. Typed'
    BY <1>10, <1>12, <2>1
  <2> QED BY <1>1, <1>3, <1>12, <2>1, <2>2 DEF h
<1>13. CASE d.place = "out" /\ pc' = "follow" /\ here' = [h EXCEPT !.ending = TRUE] /\ job' = job
  <2>1. /\ here' \in Followers /\ here'.n = here.n /\ here'.dir = here.dir /\ here'.stop = here.stop
        /\ here'.first = here.first /\ SameCounts(h, here') /\ here'.ending = TRUE
    BY <1>5, <1>13
  <2>2. Typed'
    BY <1>10, <1>13, <2>1
  <2> QED BY <1>1, <1>3, <1>13, <2>1, <2>2 DEF h
<1>14. CASE ~Gone(d, h) /\ told.status # "failed" /\ d.place = "out" /\ LeftForGood(h) /\ pc' = "state" /\ here' = h /\ job' = job
  <2>1. Typed'
    BY <1>2, <1>10, <1>14
  <2>2. here.ending /\ d.there
    BY <1>2, <1>14 DEF LeftForGood, SameElse, Gone
  <2> QED BY <1>1, <1>3, <1>14, <2>1, <2>2 DEF h
<1> QED BY <1>6, <1>8, <1>9, <1>11, <1>12, <1>13, <1>14

LEMMA DoesAnew ==
  ASSUME Typed, Anew, NEW n, n = here.n, NEW d, d = dir[n], NEW e, e = dir'[n], NEW r, r = run[n]
  PROVE  /\ Typed' /\ pc = "again" /\ pc' = "upload" /\ UNCHANGED told /\ Alone
         /\ n \in Attempts /\ Others(n) /\ d \in Dirs /\ e \in Dirs /\ r \in Runners /\ run'[n] = NoRun
         /\ e.place = "out" /\ e.lost = d.there /\ CutBy(d, e, r)
         /\ e.there = d.there /\ e.cancelled = d.cancelled /\ e.byQueue = d.byQueue
         /\ SameRecord(d, e) /\ SameParts(d, e) /\ e.errors = d.errors /\ e.told = d.told
         /\ ~d.there => OutOnly(d, e)
         /\ here'.n = n + 1 /\ here'.dir /\ here'.stop = here.stop /\ here'.first /\ ~here'.ending
         /\ SameCounts(Fresh, here') /\ got' = NothingGot
<1>1. n \in Attempts /\ d \in Dirs /\ r \in Runners /\ here \in Followers
  BY DEF Typed, TypedThere, TypedHere, Followers
<1>2. /\ pc = "again" /\ n + 1 \in Attempts
      /\ dir' = [dir EXCEPT ![n] = [Stopped(d, r) EXCEPT !.lost = d.there]]
      /\ run' = [run EXCEPT ![n] = NoRun]
      /\ here' = [Fresh EXCEPT !.n = n + 1, !.dir = TRUE, !.stop = here.stop, !.again = TRUE]
      /\ got' = NothingGot /\ pc' = "upload" /\ UNCHANGED told /\ Alone
  BY DEF Anew, Goes
<1> DEFINE S == Stopped(d, r)
<1>s. S \in Dirs /\ StoppedAs(d, S, r)
  BY <1>1, StoppedIs
<1>u. ~d.there => S = [d EXCEPT !.place = "out"]
  BY <1>1, StoppedNone
<1>3. S \in Dirs /\ e = [S EXCEPT !.lost = d.there] /\ d.there \in BOOLEAN
  BY <1>1, <1>2, <1>s DEF Typed, TypedThere, Dirs
<1> HIDE DEF S
<1>t. /\ e \in Dirs /\ e.place = S.place /\ e.lost = d.there
      /\ e.there = S.there /\ e.cancelled = S.cancelled /\ e.byQueue = S.byQueue /\ e.cut = S.cut
      /\ SameRecord(S, e) /\ SameParts(S, e) /\ e.errors = S.errors /\ e.told = S.told
  BY ONLY <1>3 DEF Dirs, SameRecord, SameParts
<1>4. /\ e \in Dirs /\ e.place = "out" /\ e.lost = d.there
      /\ e.there = d.there /\ e.cancelled = d.cancelled /\ e.byQueue = d.byQueue /\ CutBy(d, e, r)
      /\ SameRecord(d, e) /\ SameParts(d, e) /\ e.errors = d.errors /\ e.told = d.told
  BY <1>s, <1>t DEF StoppedAs, SameRecord, SameParts, CutBy
<1>5. ~d.there => OutOnly(d, e)
  BY <1>1, <1>3, <1>u DEF OutOnly, Dirs
<1>6. NoRun \in Runners
  BY CampaignAssumption DEF NoRun, Runners
<1>7. Others(n) /\ TypedThere' /\ run'[n] = NoRun
  BY <1>1, <1>2, <1>4, <1>6 DEF Typed, TypedThere, Others
<1>8. here.stop \in BOOLEAN /\ n + 1 \in Attempts
  BY <1>1, <1>2 DEF Followers
<1>9. Fresh \in Followers /\ ~Fresh.ending /\ Fresh.first
  BY FreshIs
<1>10. here' = [Fresh EXCEPT !.n = n + 1, !.dir = TRUE, !.stop = here.stop, !.again = TRUE]
  BY <1>2
<1>11. /\ here' \in Followers /\ here'.n = n + 1 /\ here'.dir /\ here'.stop = here.stop /\ here'.first /\ ~here'.ending
       /\ SameCounts(Fresh, here')
  BY ONLY <1>8, <1>9, <1>10 DEF Followers, SameCounts
<1>12. Typed'
  BY <1>2, <1>7, <1>11, NothingGotIs DEF Typed, TypedHere, Alone
<1> QED BY <1>1, <1>2, <1>4, <1>5, <1>7, <1>11, <1>12

LEMMA DoesState ==
  ASSUME Typed, State, NEW n, n = here.n, NEW d, d = dir[n], NEW e, e = dir'[n]
  PROVE  /\ Typed' /\ pc = "state" /\ UNCHANGED <<run, got, heard, slipped, troubles>> /\ told' = Untold
         /\ n \in Attempts /\ OnlyDir(n) /\ d \in Dirs /\ e \in Dirs
         /\ e.there = d.there /\ e.place = d.place /\ e.lost = d.lost /\ e.byQueue = d.byQueue /\ e.cut = d.cut
         /\ (d.byQueue /\ e.cancelled) \/ dir' = dir
         /\ SameRecord(d, e) /\ SameParts(d, e) /\ e.errors = d.errors /\ e.told = d.told
         /\ \/ Idle /\ job' = IF job = "running" THEN "failed" ELSE job
            \/ /\ pc' = "submit" /\ job' = job /\ dir' = dir /\ ~d.byQueue /\ ~here'.ending
               /\ here'.n = n /\ here'.dir = here.dir /\ here'.stop = here.stop /\ here'.first = here.first
               /\ SameCounts(here, here')
<1>1. n \in Attempts /\ d \in Dirs /\ here \in Followers
  BY DEF Typed, TypedThere, TypedHere, Followers
<1>2. pc = "state" /\ UNCHANGED <<run, got, heard, slipped, troubles>> /\ told' = Untold
  BY DEF State
<1>3. Look(n).byQueue = d.byQueue
  BY DEF Look
<1>4. \/ d.byQueue /\ dir' = [dir EXCEPT ![n].cancelled = TRUE] /\ Ended("failed")
      \/ dir' = dir /\ Ended("failed")
      \/ ~d.byQueue /\ pc' = "submit" /\ here' = [here EXCEPT !.was = Now, !.ending = FALSE] /\ dir' = dir /\ job' = job
  BY <1>3 DEF State, Goes
<1>5. ASSUME Ended("failed"), TypedThere'
      PROVE  Typed' /\ Idle /\ job' = IF job = "running" THEN "failed" ELSE job
  <2>1. /\ Idle /\ here' \in Followers /\ pc' = "off"
        /\ job' \in {"none", "running", "canceled", "interrupted", "completed", "failed"}
        /\ job' = (IF job = "running" THEN "failed" ELSE job)
    BY <1>5, EndedIs DEF Typed
  <2> QED BY <1>2, <1>5, <2>1, UntoldIs DEF Typed, TypedHere
<1>6. CASE d.byQueue /\ dir' = [dir EXCEPT ![n].cancelled = TRUE] /\ Ended("failed")
  <2>1. d \in Dirs /\ e = [d EXCEPT !.cancelled = TRUE]
    BY <1>1, <1>6 DEF Typed, TypedThere
  <2>2. /\ e \in Dirs /\ e.cancelled
        /\ e.there = d.there /\ e.place = d.place /\ e.lost = d.lost /\ e.byQueue = d.byQueue /\ e.cut = d.cut
        /\ SameRecord(d, e) /\ SameParts(d, e) /\ e.errors = d.errors /\ e.told = d.told
    BY ONLY <2>1 DEF Dirs, SameRecord, SameParts
  <2>3. OnlyDir(n) /\ TypedThere'
    BY <1>1, <1>2, <1>6, <2>2 DEF Typed, TypedThere, OnlyDir
  <2>4. Typed' /\ Idle /\ job' = IF job = "running" THEN "failed" ELSE job
    BY <1>5, <1>6, <2>3
  <2> QED BY <1>1, <1>2, <1>6, <2>2, <2>3, <2>4
<1>7. ASSUME dir' = dir
      PROVE  /\ TypedThere' /\ OnlyDir(n) /\ e = d
             /\ SameRecord(d, e) /\ SameParts(d, e)
  BY <1>2, <1>7 DEF Typed, TypedThere, OnlyDir, SameRecord, SameParts
<1>8. CASE dir' = dir /\ Ended("failed")
  <2>1. Typed' /\ Idle /\ job' = IF job = "running" THEN "failed" ELSE job
    BY <1>5, <1>7, <1>8
  <2>2. OnlyDir(n) /\ e = d /\ SameRecord(d, e) /\ SameParts(d, e)
    BY <1>7, <1>8
  <2> QED BY <1>1, <1>2, <1>8, <2>1, <2>2
<1>9. CASE ~d.byQueue /\ pc' = "submit" /\ here' = [here EXCEPT !.was = Now, !.ending = FALSE] /\ dir' = dir /\ job' = job
  <2>1. Now \in Nat \X Nat
    BY DEF Typed, TypedHere, Tellings, Now
  <2>2. here' = [here EXCEPT !.was = Now, !.ending = FALSE]
    BY <1>9
  <2>3. /\ here' \in Followers
        /\ here'.n = here.n /\ here'.dir = here.dir /\ here'.stop = here.stop /\ here'.first = here.first
        /\ SameCounts(here, here')
    BY ONLY <1>1, <2>1, <2>2 DEF Followers, SameCounts
  <2>4. TypedThere' /\ OnlyDir(n) /\ e = d /\ SameRecord(d, e) /\ SameParts(d, e)
    BY <1>7, <1>9
  <2>5. Typed'
    BY <1>2, <1>9, <2>3, <2>4, UntoldIs DEF Typed, TypedHere
  <2> QED BY <1>1, <1>2, <1>9, <2>3, <2>4, <2>5
<1> QED BY <1>4, <1>6, <1>8, <1>9

LEMMA DoesSubmit ==
  ASSUME Typed, Submit
  PROVE  /\ Typed' /\ pc = "off" /\ UNCHANGED there
         /\ pc' = "place" /\ job' = "running" /\ ~heard' /\ here' = Fresh /\ got' = NothingGot
<1>1. /\ pc = "off" /\ UNCHANGED there /\ pc' = "place" /\ job' = "running" /\ here' = Fresh /\ got' = NothingGot
      /\ told' = Untold /\ heard' = FALSE /\ slipped' = FALSE
  BY DEF Submit
<1> QED BY <1>1, FreshIs, UntoldIs, NothingGotIs DEF Typed, TypedThere, TypedHere, there

LEMMA DoesEndJob ==
  ASSUME Typed, NEW how \in {"canceled", "interrupted"}, EndJob(how)
  PROVE  /\ Typed' /\ UNCHANGED <<there, pc, here, told, heard, slipped>>
         /\ job = "running" /\ job' = how /\ got' = NothingGot
<1>1. UNCHANGED <<there, pc, here, told, heard, slipped>> /\ job = "running" /\ job' = how /\ got' = NothingGot
  BY DEF EndJob
<1>2. Typed'
  BY <1>1, NothingGotIs DEF Typed, TypedThere, TypedHere, there
<1> QED BY <1>1, <1>2

LEMMA DoesHear ==
  ASSUME Typed, Hear, NEW n, n = here.n, NEW d, d = dir[n], NEW e, e = dir'[n], NEW r, r = run[n]
  PROVE  /\ Typed' /\ UNCHANGED <<pc, told, got, job>> /\ heard'
         /\ job \notin {"none", "running"} /\ ~heard
         /\ \/ pc = "off" /\ here' = Fresh
            \/ /\ pc # "off"
               /\ here'.n = n /\ here'.dir = here.dir /\ here'.stop /\ here'.first = here.first
               /\ here'.ending = here.ending /\ SameCounts(here, here')
         /\ n \in Attempts /\ Others(n) /\ d \in Dirs /\ e \in Dirs
         /\ \/ /\ UNCHANGED there
               /\ job = "canceled" => slipped' \/ (here.dir /\ ~d.there)
            \/ /\ here.dir /\ job = "canceled" /\ d.there /\ slipped' = slipped
               /\ r \in Runners /\ run'[n] = NoRun /\ e.place = "out" /\ e.cancelled /\ CutBy(d, e, r)
               /\ e.there = d.there /\ e.lost = d.lost /\ e.byQueue = d.byQueue
               /\ SameRecord(d, e) /\ SameParts(d, e) /\ e.errors = d.errors /\ e.told = d.told
<1>1. n \in Attempts /\ d \in Dirs /\ r \in Runners /\ here \in Followers
  BY DEF Typed, TypedThere, TypedHere, Followers
<1>2. /\ UNCHANGED <<pc, told, got, job>> /\ heard' = TRUE /\ job \notin {"none", "running"} /\ ~heard
      /\ here' = (IF pc = "off" THEN Fresh ELSE [here EXCEPT !.stop = TRUE])
      /\ \/ /\ here.dir /\ job = "canceled" /\ d.there /\ slipped' = slipped
            /\ dir' = [dir EXCEPT ![n] = Canceled(d, r)]
            /\ run' = [run EXCEPT ![n] = NoRun]
         \/ slipped' = TRUE /\ UNCHANGED there
         \/ /\ job = "canceled" => ~here.dir \/ ~d.there
            /\ slipped' = (job = "canceled" /\ ~here.dir)
            /\ UNCHANGED there
  BY DEF Hear
<1>b. slipped' \in BOOLEAN
  BY <1>2 DEF Typed, TypedHere
<1>3. /\ here' \in Followers
      /\ \/ pc = "off" /\ here' = Fresh
         \/ /\ pc # "off"
            /\ here'.n = n /\ here'.dir = here.dir /\ here'.stop /\ here'.first = here.first
            /\ here'.ending = here.ending /\ SameCounts(here, here')
  <2>1. CASE pc = "off"
    BY <1>2, <2>1, FreshIs
  <2>2. CASE pc # "off"
    <3>1. here' = [here EXCEPT !.stop = TRUE]
      BY <1>2, <2>2
    <3>2. /\ here' \in Followers
          /\ here'.n = here.n /\ here'.dir = here.dir /\ here'.stop /\ here'.first = here.first
          /\ here'.ending = here.ending /\ SameCounts(here, here')
      BY ONLY <1>1, <3>1 DEF Followers, SameCounts
    <3> QED BY <2>2, <3>2
  <2> QED BY <2>1, <2>2
<1>4. ASSUME TypedThere'
      PROVE  Typed'
  BY <1>b, <1>2, <1>3, <1>4 DEF Typed, TypedHere
<1>5. CASE UNCHANGED there /\ (job = "canceled" => slipped' \/ (here.dir /\ ~d.there))
  <2>2. TypedThere' /\ Others(n) /\ e \in Dirs
    BY <1>1, <1>5 DEF Typed, TypedThere, there, Others
  <2> QED BY <1>1, <1>2, <1>3, <1>4, <1>5, <2>2
<1>6. CASE /\ here.dir /\ job = "canceled" /\ d.there /\ slipped' = slipped
           /\ dir' = [dir EXCEPT ![n] = Canceled(d, r)] /\ run' = [run EXCEPT ![n] = NoRun]
  <2> DEFINE S == Stopped(d, r)
  <2>1. S \in Dirs /\ StoppedAs(d, S, r)
    BY <1>1, StoppedIs
  <2>2. e = [S EXCEPT !.cancelled = TRUE]
    BY <1>1, <1>6 DEF Typed, TypedThere, Canceled
  <2> HIDE DEF S
  <2>3. /\ e \in Dirs /\ e.place = S.place /\ e.cancelled /\ e.cut = S.cut
        /\ e.there = S.there /\ e.lost = S.lost /\ e.byQueue = S.byQueue
        /\ SameRecord(S, e) /\ SameParts(S, e) /\ e.errors = S.errors /\ e.told = S.told
    BY ONLY <2>1, <2>2 DEF Dirs, SameRecord, SameParts
  <2>4. /\ e \in Dirs /\ e.place = "out" /\ e.cancelled /\ CutBy(d, e, r)
        /\ e.there = d.there /\ e.lost = d.lost /\ e.byQueue = d.byQueue
        /\ SameRecord(d, e) /\ SameParts(d, e) /\ e.errors = d.errors /\ e.told = d.told
    BY <2>1, <2>3 DEF StoppedAs, SameRecord, SameParts, CutBy
  <2>5. NoRun \in Runners
    BY CampaignAssumption DEF NoRun, Runners
  <2>6. Others(n) /\ TypedThere' /\ run'[n] = NoRun
    BY <1>1, <1>6, <2>4, <2>5 DEF Typed, TypedThere, Others
  <2> QED BY <1>1, <1>2, <1>3, <1>4, <1>6, <2>4, <2>6
<1> QED BY <1>2, <1>5, <1>6

LEMMA DoesDie ==
  ASSUME Typed, Die
  PROVE  /\ Typed' /\ UNCHANGED there
         /\ pc' = "off" /\ job' = "interrupted" /\ heard' /\ here' = Fresh /\ got' = NothingGot
<1>1. /\ UNCHANGED <<there, slipped>> /\ pc' = "off" /\ job' = "interrupted" /\ heard' = TRUE /\ here' = Fresh /\ got' = NothingGot
      /\ told' = Untold
  BY DEF Die
<1> QED BY <1>1, FreshIs, UntoldIs, NothingGotIs DEF Typed, TypedThere, TypedHere, there

-----------------------------------------------------------------------------
(* How far an attempt is *)

\* Stages are done in their order, and at most one is over and not done yet.
DirShape(d) ==
  /\ ~d.there => d = [NoDir EXCEPT !.place = d.place]
  /\ \E k \in 0 .. Final : d.done = 1 .. k /\ (d.over = 1 .. k \/ d.over = 1 .. (k + 1))
  /\ Complete(d.told) => d.done = Stages /\ d.told.left = d.left
\* The runner is where its directory says.
RunShape(d, r) ==
  /\ d.place # "running" => r = NoRun
  /\ d.there /\ d.place = "running" =>
     \/ /\ r.step = "job" /\ r.s \in Stages /\ d.done = 1 .. (r.s - 1) /\ d.over = d.done
        /\ ~NothingToDo(d)
     \/ /\ r.step \in {"reduce", "mark"} /\ r.s \in Stages /\ d.done = 1 .. (r.s - 1) /\ d.over = 1 .. r.s
        /\ ~Complete(d.told) /\ (r.s # Final => ~NothingToDo(d))
     \/ /\ r.step = "end" /\ r.s = Final + 1 /\ d.done = Stages /\ d.over = Stages
        /\ ~Complete(d.told)
Shape == \A a \in Attempts : DirShape(dir[a]) /\ RunShape(dir[a], run[a])

LEMMA ShapeBut ==
  ASSUME Shape, NEW a \in Attempts, Others(a), DirShape(dir'[a]), RunShape(dir'[a], run'[a])
  PROVE  Shape'
BY DEF Shape, Others

LEMMA ShapeIs ==
  ASSUME Shape, NEW a \in Attempts
  PROVE  DirShape(dir[a]) /\ RunShape(dir[a], run[a])
BY DEF Shape

LEMMA DirShapeSame ==
  ASSUME NEW d, NEW e, DirShape(d), e.there, e.done = d.done, e.over = d.over,
         \/ e.told = d.told /\ e.left = d.left
         \/ ~Complete(e.told)
  PROVE  DirShape(e)
BY DEF DirShape

LEMMA StagesAre == Final \in Nat /\ Final >= 1 /\ Stages = 1 .. Final
BY CampaignAssumption DEF Stages

LEMMA ShapeStarts ==
  ASSUME TypedThere, Shape, NEW a \in Attempts, Starts(a)
  PROVE  Shape'
<1> DEFINE d == dir[a]
           e == dir'[a]
           r == run[a]
           q == run'[a]
<1>1. DirShape(d) /\ RunShape(d, r)
  BY ShapeIs
<1>2. /\ Others(a) /\ d \in Dirs /\ e \in Dirs /\ d.there /\ d.place = "queued"
      /\ SameFlags(d, e) /\ SameRecord(d, e)
      /\ \/ e.place = "out" /\ q = NoRun /\ e.told = d.told
         \/ e.place = "out" /\ q = run[a] /\ e.told.stages = 0
         \/ /\ ~NothingToDo(d) /\ ~Refused(d)
            /\ e.place = "running" /\ e.told = d.told
            /\ q.s = Current(d)
            /\ \/ Current(d) <= Final /\ q.step = "job"
               \/ Current(d) = Final + 1 /\ q.step = "end"
  BY DoesStarts
<1> HIDE DEF d, e, r, q
<1>3. e.there /\ e.done = d.done /\ e.over = d.over /\ e.left = d.left
  BY <1>2 DEF SameFlags, SameRecord
<1>4. \/ e.told = d.told /\ e.left = d.left
      \/ ~Complete(e.told)
  <2>1. CASE e.told.stages = 0
    BY <2>1, StagesAre DEF Complete
  <2> QED BY <1>2, <1>3, <2>1
<1>5. DirShape(e)
  BY <1>1, <1>3, <1>4, DirShapeSame
<1>6. RunShape(e, q)
  <2>1. CASE e.place = "out"
    BY <1>1, <1>2, <2>1 DEF RunShape, r
  <2>2. CASE /\ ~NothingToDo(d) /\ ~Refused(d)
             /\ e.place = "running" /\ e.told = d.told
             /\ q.s = Current(d)
             /\ \/ Current(d) <= Final /\ q.step = "job"
                \/ Current(d) = Final + 1 /\ q.step = "end"
    <3>1. PICK k \in 0 .. Final : d.done = 1 .. k /\ (d.over = 1 .. k \/ d.over = 1 .. (k + 1))
      BY <1>1 DEF DirShape
    <3>2. PICK s \in 1 .. Final + 1 : /\ s = Current(d)
                                      /\ s <= Final => s \in Stages /\ s \notin d.done
                                      /\ \A t \in Stages \ d.done : s <= t
      BY <1>2, CurrentIs
    <3>3. ~NothingToDo(e) /\ ~Complete(e.told)
      BY <2>2 DEF NothingToDo, Complete
    <3>4. CASE s <= Final
      <4>1. s \notin d.over /\ s \notin 1 .. k
        BY <2>2, <3>1, <3>2, <3>4 DEF Refused
      <4>2. k < Final
        BY <3>4, <4>1, StagesAre
      <4>3. k + 1 \in Stages \ d.done
        BY <3>1, <4>2, StagesAre
      <4>4. s = k + 1
        BY <3>2, <4>1, <4>3
      <4>5. d.over = 1 .. k
        BY <3>1, <4>1, <4>4
      <4>6. s - 1 = k
        BY <4>4
      <4>7. q.step = "job" /\ q.s = s /\ e.done = 1 .. (s - 1) /\ e.over = e.done
        <5>1. e.done = 1 .. k /\ e.over = 1 .. k
          BY <1>3, <3>1, <4>5
        <5>2. ~(s = Final + 1)
          BY <3>4, StagesAre
        <5>3. q.step = "job" /\ q.s = s
          BY <2>2, <3>2, <5>2
        <5> QED BY <4>6, <5>1, <5>3
      <4> QED BY <2>2, <3>2, <3>3, <3>4, <4>7 DEF RunShape
    <3>5. CASE ~(s <= Final)
      <4>1. s = Final + 1
        BY <3>5, StagesAre
      <4>2. k = Final
        <5>1. SUFFICES ASSUME k < Final PROVE FALSE
          BY StagesAre
        <5>2. k + 1 \in Stages \ d.done
          BY <3>1, <5>1, StagesAre
        <5> QED BY <3>2, <3>5, <5>2, StagesAre
      <4>3. d.done = Stages /\ d.over = Stages
        <5>1. d.over \subseteq Stages
          BY <1>2 DEF Dirs
        <5>2. Final + 1 \notin Stages /\ Final + 1 \in 1 .. (Final + 1)
          BY StagesAre
        <5> QED BY <3>1, <4>2, <5>1, <5>2, StagesAre
      <4>4. q.step = "end" /\ q.s = Final + 1
        BY <2>2, <3>2, <3>5, <4>1
      <4> QED BY <1>3, <2>2, <3>3, <4>3, <4>4 DEF RunShape
    <3> QED BY <3>4, <3>5
  <2> QED BY <1>2, <2>1, <2>2
<1> QED BY <1>2, <1>5, <1>6, ShapeBut DEF e, q

\* Where a step leaves the runner in the job of its stage.
LEMMA ShapeWorks ==
  ASSUME TypedThere, Shape, NEW a \in Attempts, Works(a) \/ Turns(a)
  PROVE  Shape'
<1> DEFINE d == dir[a]
           e == dir'[a]
           r == run[a]
           q == run'[a]
<1>1. DirShape(d) /\ RunShape(d, r)
  BY ShapeIs
<1>2. /\ Others(a) /\ d \in Dirs /\ e \in Dirs /\ d.there /\ SameFlags(d, e) /\ e.place = d.place
      /\ e.over = d.over /\ e.done = d.done /\ e.left = d.left
      /\ r.step = "job" /\ q.step = "job" /\ q.s = r.s
      /\ e.told = d.told \/ (e.told.status = "running")
  <2>1. CASE Works(a)
    BY <2>1, DoesWorks
  <2>2. CASE Turns(a)
    BY <2>2, DoesTurns DEF SameRecord
  <2> QED BY <2>1, <2>2
<1> HIDE DEF d, e, r, q
<1>3. e.there
  BY <1>2 DEF SameFlags
<1>4. DirShape(e)
  <2>1. CASE e.told = d.told
    BY <1>1, <1>2, <1>3, <2>1, DirShapeSame
  <2>2. CASE e.told.status = "running"
    <3>1. ~Complete(e.told)
      BY <2>2 DEF Complete
    <3> QED BY <1>1, <1>2, <1>3, <3>1, DirShapeSame
  <2> QED BY <1>2, <2>1, <2>2
<1>5. RunShape(e, q)
  <2>1. CASE d.place # "running"
    BY <1>1, <1>2, <2>1 DEF RunShape, NoRun
  <2>2. CASE d.place = "running"
    <3>1. r.step = "job" /\ r.s \in Stages /\ d.done = 1 .. (r.s - 1) /\ d.over = d.done /\ ~NothingToDo(d)
      BY <1>1, <1>2, <2>2 DEF RunShape
    <3>2. ~NothingToDo(e)
      BY <1>2, <3>1 DEF NothingToDo
    <3> QED BY <1>2, <2>2, <3>1, <3>2 DEF RunShape
  <2> QED BY <2>1, <2>2
<1> QED BY <1>2, <1>4, <1>5, ShapeBut DEF e, q

\* A runner that takes a step is where its directory says that it runs.
LEMMA RunsThere ==
  ASSUME TypedThere, Shape, NEW a \in Attempts, dir[a].there, run[a].step # "none"
  PROVE  dir[a].place = "running"
<1>1. RunShape(dir[a], run[a])
  BY ShapeIs
<1> QED BY <1>1 DEF RunShape, NoRun

LEMMA ShapeJobEnds ==
  ASSUME TypedThere, Shape, NEW a \in Attempts, JobEnds(a)
  PROVE  Shape'
<1> DEFINE d == dir[a]
           e == dir'[a]
           r == run[a]
           q == run'[a]
<1>1. DirShape(d) /\ RunShape(d, r)
  BY ShapeIs
<1>2. /\ Others(a) /\ d \in Dirs /\ e \in Dirs /\ d.there /\ SameFlags(d, e) /\ e.place = d.place
      /\ e.done = d.done /\ e.left = d.left
      /\ r.step = "job" /\ r.s \in Stages /\ e.over = d.over \cup {r.s}
      /\ q.step \in {"reduce", "mark"} /\ q.s = r.s
      /\ e.told.status = (IF r.s = Final THEN "completed" ELSE "running") /\ e.told.stages = r.s - 1
  BY DoesJobEnds
<1>3. d.place = "running"
  BY <1>2, RunsThere
<1> HIDE DEF d, e, r, q
<1>4. r.s \in Stages /\ d.done = 1 .. (r.s - 1) /\ d.over = d.done
  BY <1>1, <1>2, <1>3 DEF RunShape
<1>5. PICK s \in 1 .. Final : s = r.s
  BY <1>4, StagesAre
<1>6. (s - 1) + 1 = s /\ s - 1 \in 0 .. Final /\ s - 1 # Final /\ (1 .. (s - 1)) \cup {s} = 1 .. s
  BY <1>5, StagesAre
<1>7. e.over = 1 .. s /\ e.done = 1 .. (s - 1) /\ e.there
  BY <1>2, <1>4, <1>5, <1>6 DEF SameFlags
<1>8. ~Complete(e.told) /\ (s # Final => ~NothingToDo(e))
  BY <1>2, <1>5, <1>6 DEF Complete, NothingToDo
<1>9. DirShape(e)
  BY <1>6, <1>7, <1>8 DEF DirShape
<1>10. RunShape(e, q)
  BY <1>2, <1>3, <1>4, <1>5, <1>7, <1>8 DEF RunShape
<1> QED BY <1>2, <1>9, <1>10, ShapeBut DEF e, q

LEMMA ShapeReduces ==
  ASSUME TypedThere, Shape, NEW a \in Attempts, Reduces(a)
  PROVE  Shape'
<1> DEFINE d == dir[a]
           e == dir'[a]
           r == run[a]
           q == run'[a]
<1>1. DirShape(d) /\ RunShape(d, r)
  BY ShapeIs
<1>2. /\ Others(a) /\ d \in Dirs /\ e \in Dirs /\ d.there /\ SameFlags(d, e) /\ e.place = d.place /\ e.told = d.told
      /\ e.done = d.done /\ e.left = d.left /\ e.over = d.over
      /\ r.step = "reduce" /\ q.step = "mark" /\ q.s = r.s
  BY DoesReduces
<1>3. d.place = "running"
  BY <1>2, RunsThere
<1> HIDE DEF d, e, r, q
<1>4. e.there
  BY <1>2 DEF SameFlags
<1>5. DirShape(e)
  BY <1>1, <1>2, <1>4, DirShapeSame
<1>6. r.s \in Stages /\ d.done = 1 .. (r.s - 1) /\ d.over = 1 .. r.s /\ ~Complete(d.told) /\ (r.s # Final => ~NothingToDo(d))
  BY <1>1, <1>2, <1>3 DEF RunShape
<1>7. RunShape(e, q)
  BY <1>2, <1>3, <1>6 DEF RunShape, NothingToDo
<1> QED BY <1>2, <1>5, <1>7, ShapeBut DEF e, q

LEMMA ShapeMarks ==
  ASSUME TypedThere, Shape, NEW a \in Attempts, Marks(a)
  PROVE  Shape'
<1> DEFINE d == dir[a]
           e == dir'[a]
           r == run[a]
           q == run'[a]
<1>1. DirShape(d) /\ RunShape(d, r)
  BY ShapeIs
<1>2. /\ Others(a) /\ d \in Dirs /\ e \in Dirs /\ d.there /\ SameFlags(d, e) /\ e.place = d.place /\ e.told = d.told
      /\ e.over = d.over /\ r.step = "mark" /\ e.done = d.done \cup {r.s}
      /\ q.s = r.s + 1 /\ q.step = IF r.s = Final THEN "end" ELSE "job"
  BY ONLY TypedThere, Marks(a), a \in Attempts, DoesMarks
<1>3. d.place = "running"
  BY <1>2, RunsThere
<1> HIDE DEF d, e, r, q
<1>4. r.s \in Stages /\ d.done = 1 .. (r.s - 1) /\ d.over = 1 .. r.s /\ ~Complete(d.told) /\ (r.s # Final => ~NothingToDo(d))
  BY <1>1, <1>2, <1>3 DEF RunShape
<1>5. PICK s \in 1 .. Final : s = r.s
  BY <1>4, StagesAre
<1>6. (s + 1) - 1 = s /\ s \in 0 .. Final /\ (1 .. (s - 1)) \cup {s} = 1 .. s /\ (s # Final => s + 1 \in Stages)
  BY <1>5, StagesAre
<1>7. e.there /\ e.done = 1 .. s /\ e.over = 1 .. s /\ ~Complete(e.told) /\ (s # Final => ~NothingToDo(e))
  BY <1>2, <1>4, <1>5, <1>6 DEF SameFlags, NothingToDo
<1>8. DirShape(e)
  BY <1>6, <1>7 DEF DirShape
<1>9. q.s = s + 1 /\ q.s - 1 = s /\ q.step = IF s = Final THEN "end" ELSE "job"
  BY <1>2, <1>5, <1>6
<1>10. RunShape(e, q)
  BY <1>2, <1>3, <1>6, <1>7, <1>9, StagesAre DEF RunShape
<1> QED BY <1>2, <1>8, <1>10, ShapeBut DEF e, q

\* Where a step leaves no runner.
LEMMA ShapeOut ==
  ASSUME TypedThere, Shape, NEW a \in Attempts, Ends(a) \/ Collapses(a) \/ Killed(a) \/ CanceledThere(a)
  PROVE  Shape'
<1> DEFINE d == dir[a]
           e == dir'[a]
           r == run[a]
           q == run'[a]
<1>1. DirShape(d) /\ RunShape(d, r)
  BY ShapeIs
<1>2. CASE Ends(a)
  <2>1. /\ Others(a) /\ d \in Dirs /\ e \in Dirs /\ d.there /\ SameFlags(d, e) /\ SameRecord(d, e)
        /\ q = NoRun /\ e.place = "out" /\ e.told.left = d.left /\ r.step = "end"
    BY <1>2, DoesEnds
  <2>2. d.place = "running"
    BY <2>1, RunsThere
  <2> HIDE DEF d, e, r, q
  <2>3. d.done = Stages
    BY <1>1, <2>1, <2>2 DEF RunShape
  <2>4. DirShape(e)
    BY <1>1, <2>1, <2>3 DEF DirShape, SameFlags, SameRecord
  <2>5. RunShape(e, q)
    BY <2>1 DEF RunShape
  <2> QED BY <2>1, <2>4, <2>5, ShapeBut DEF e, q
<1>3. CASE Collapses(a)
  <2>1. /\ Others(a) /\ d \in Dirs /\ e \in Dirs /\ q = NoRun /\ ~d.there /\ e = [d EXCEPT !.place = "out"]
        /\ SameFlags(d, e) /\ SameRecord(d, e) /\ e.place = "out" /\ e.told = d.told
    BY <1>3, DoesCollapses
  <2> HIDE DEF d, e, r, q
  <2>2. d = [NoDir EXCEPT !.place = d.place]
    BY <1>1, <2>1 DEF DirShape
  <2>3. e = [[NoDir EXCEPT !.place = d.place] EXCEPT !.place = "out"]
    BY <2>1, <2>2
  <2>4. e = [NoDir EXCEPT !.place = e.place]
    BY <2>1, <2>3 DEF NoDir
  <2>5. DirShape(e)
    BY <1>1, <2>1, <2>4 DEF DirShape, SameFlags, SameRecord
  <2>6. RunShape(e, q)
    BY <2>1 DEF RunShape
  <2> QED BY <2>1, <2>5, <2>6, ShapeBut DEF e, q
<1>4. CASE Killed(a)
  <2>0. r.step = "job" => r.s \in Stages
    <3>1. d.there /\ d.place = "running"
      BY <1>4 DEF Killed
    <3> QED BY <1>1, <3>1 DEF RunShape
  <2>1. /\ Others(a) /\ d \in Dirs /\ e \in Dirs /\ q = NoRun /\ d.there
        /\ e.there = d.there /\ SameRecord(d, e) /\ e.place = "out"
        /\ e.told = d.told \/ e.told.status = "interrupted"
    BY <1>4, <2>0, DoesKilled
  <2> HIDE DEF d, e, r, q
  <2>2. e.told = d.told \/ ~Complete(e.told)
    BY <2>1 DEF Complete
  <2>3. e.there /\ e.done = d.done /\ e.over = d.over /\ e.left = d.left
    BY <2>1 DEF SameRecord
  <2>4. DirShape(e)
    BY <1>1, <2>2, <2>3, DirShapeSame
  <2>5. RunShape(e, q)
    BY <2>1 DEF RunShape
  <2> QED BY <2>1, <2>4, <2>5, ShapeBut DEF e, q
<1>5. CASE CanceledThere(a)
  <2>1. /\ Others(a) /\ d \in Dirs /\ e \in Dirs /\ q = NoRun /\ d.there /\ e.there = d.there
        /\ SameRecord(d, e) /\ e.place = "out" /\ e.told = d.told
    BY ONLY TypedThere, <1>5, a \in Attempts, DoesCanceledThere
  <2> HIDE DEF d, e, r, q
  <2>2. e.there /\ e.done = d.done /\ e.over = d.over /\ e.left = d.left
    BY <2>1 DEF SameRecord
  <2>3. DirShape(e)
    BY <1>1, <2>1, <2>2, DirShapeSame
  <2>4. RunShape(e, q)
    BY <2>1 DEF RunShape
  <2> QED BY <2>1, <2>3, <2>4, ShapeBut DEF e, q
<1> QED BY <1>2, <1>3, <1>4, <1>5

LEMMA DirShapeNone ==
  ASSUME NEW p \in {"out", "queued", "running"}, NEW e, e = [NoDir EXCEPT !.place = p]
  PROVE  DirShape(e) /\ ~e.there /\ e.place = p
<1>1. ~e.there /\ e.place = p /\ e.done = {} /\ e.over = {} /\ e.told.status = "none"
  BY NoDirIs
<1>2. 0 \in 0 .. Final /\ 1 .. 0 = {}
  BY StagesAre
<1>3. ~Complete(e.told)
  BY <1>1 DEF Complete
<1> QED BY <1>1, <1>2, <1>3 DEF DirShape

LEMMA ShapePurged ==
  ASSUME TypedThere, Shape, NEW a \in Attempts, Purged(a)
  PROVE  Shape'
<1> DEFINE d == dir[a]
           e == dir'[a]
           r == run[a]
           q == run'[a]
<1>1. DirShape(d) /\ RunShape(d, r)
  BY ShapeIs
<1>2. /\ Others(a) /\ d \in Dirs /\ e \in Dirs /\ d.there /\ e.place = d.place /\ q = r
      /\ \/ e = [NoDir EXCEPT !.place = e.place] /\ ~e.there
         \/ Complete(d.told) /\ SameFlags(d, e) /\ SameRecord(d, e) /\ e.told = d.told
  BY DoesPurged
<1> HIDE DEF d, e, r, q
<1>3. CASE e = [NoDir EXCEPT !.place = e.place] /\ ~e.there
  <2>1. e.place \in {"out", "queued", "running"}
    BY <1>2 DEF Dirs
  <2>2. DirShape(e)
    BY <1>3, <2>1, DirShapeNone
  <2>3. RunShape(e, q)
    BY <1>1, <1>2, <1>3 DEF RunShape
  <2> QED BY <1>2, <2>2, <2>3, ShapeBut DEF e, q
<1>4. CASE Complete(d.told) /\ SameFlags(d, e) /\ SameRecord(d, e) /\ e.told = d.told
  <2>1. e.there /\ e.done = d.done /\ e.over = d.over /\ e.left = d.left
    BY <1>2, <1>4 DEF SameFlags, SameRecord
  <2>2. DirShape(e)
    BY <1>1, <1>4, <2>1, DirShapeSame
  <2>3. RunShape(e, q)
    BY <1>1, <1>2, <1>4, <2>1 DEF RunShape, NothingToDo
  <2> QED BY <1>2, <2>2, <2>3, ShapeBut DEF e, q
<1> QED BY <1>2, <1>3, <1>4

LEMMA RunShapeSame ==
  ASSUME NEW d, NEW e, NEW r, RunShape(d, r), e.there => d.there,
         e.place = d.place \/ (e.place = "queued" /\ d.place = "out"),
         e.done = d.done, e.over = d.over, e.told = d.told
  PROVE  RunShape(e, r)
BY DEF RunShape, NothingToDo

LEMMA NoDirOut ==
  ASSUME NEW d, DirShape(d), ~d.there, d \in Dirs, NEW e, OutOnly(d, e)
  PROVE  DirShape(e)
<1> DEFINE p == d.place
<1>1. d = [NoDir EXCEPT !.place = p]
  BY DEF DirShape
<1>2. p \in {"out", "queued", "running"}
  BY DEF Dirs
<1> HIDE DEF p
<1>a. ~d.lost /\ ~d.cancelled /\ d \in Dirs
  BY <1>1, <1>2, NoDirIs
<1>b. e = [d EXCEPT !.place = "out"]
  BY ONLY <1>a, OutOnly(d, e) DEF OutOnly, Dirs
<1>c. NoDir \in Dirs
  BY NoDirIs DEF NoDir
<1>3. e = [NoDir EXCEPT !.place = "out"]
  BY ONLY <1>1, <1>b, <1>c DEF Dirs
<1> QED BY <1>3, DirShapeNone

LEMMA ShapeUnchanged ==
  ASSUME Shape, dir' = dir, run' = run
  PROVE  Shape'
BY DEF Shape

LEMMA ShapeQueued ==
  ASSUME Typed, Shape, run' = run, NEW n \in Attempts, dir[n].there, QueuedAgain(n)
  PROVE  Shape'
<1> DEFINE d == dir[n]
           e == dir'[n]
           r == run[n]
<1>1. DirShape(d) /\ RunShape(d, r)
  BY ShapeIs
<1>2. /\ OnlyDir(n) /\ d \in Dirs /\ e \in Dirs /\ d.there
      /\ e.there = d.there /\ ((d.place = "out" /\ e.place = "queued") \/ (d.place # "out" /\ e.place = d.place))
      /\ SameRecord(d, e) /\ e.told = d.told
  <2>1. OnlyDir(n) /\ d \in Dirs /\ e \in Dirs /\ d.there /\ SameRecord(d, e) /\ e.told = d.told
    BY QueuedIs
  <2>2. (d.place = "out" /\ e.place = "queued") \/ (d.place # "out" /\ e.place = d.place)
    BY QueuedIs
  <2>3. e.there = d.there
    BY QueuedIs
  <2> QED BY <2>1, <2>2, <2>3
<1>3. Others(n) /\ run'[n] = r
  BY <1>2 DEF Others, OnlyDir
<1> HIDE DEF d, e, r
<1>4. e.there /\ e.done = d.done /\ e.over = d.over /\ e.left = d.left /\ (e.place = d.place \/ (e.place = "queued" /\ d.place = "out"))
  BY <1>2 DEF SameRecord
<1>5. DirShape(e)
  BY <1>1, <1>2, <1>4, DirShapeSame
<1>6. RunShape(e, r)
  BY <1>1, <1>2, <1>4, RunShapeSame
<1> QED BY <1>3, <1>5, <1>6, ShapeBut DEF e, r

LEMMA ShapePlace ==
  ASSUME Typed, Shape, Place
  PROVE  Shape'
<1>1. run' = run
  BY DEF Place
<1>2. CASE dir' = dir
  BY <1>1, <1>2, ShapeUnchanged
<1>3. CASE \E a \in Attempts :
             LET d == dir[a]  e == dir'[a] IN
             /\ d.there /\ OnlyDir(a) /\ e.there = d.there /\ e.place = d.place
             /\ SameRecord(d, e) /\ e.told = d.told
  <2>1. PICK a \in Attempts :
             LET d == dir[a]  e == dir'[a] IN
             /\ d.there /\ OnlyDir(a) /\ e.there = d.there /\ e.place = d.place
             /\ SameRecord(d, e) /\ e.told = d.told
    BY <1>3
  <2> DEFINE d == dir[a]
             e == dir'[a]
             r == run[a]
  <2>2. DirShape(d) /\ RunShape(d, r)
    BY ShapeIs
  <2>3. Others(a) /\ run'[a] = r
    BY <1>1, <2>1 DEF Others, OnlyDir
  <2>4. e.there /\ e.done = d.done /\ e.over = d.over /\ e.left = d.left /\ e.place = d.place /\ e.told = d.told /\ d.there
    BY <2>1 DEF SameRecord
  <2> HIDE DEF d, e, r
  <2>5. DirShape(e)
    BY <2>2, <2>4, DirShapeSame
  <2>6. RunShape(e, r)
    BY <2>2, <2>4, RunShapeSame
  <2> QED BY <2>3, <2>5, <2>6, ShapeBut DEF e, r
<1> QED BY <1>2, <1>3, DoesPlace

LEMMA ShapeThread ==
  ASSUME Typed, Shape, Upload \/ Fill \/ Queue \/ Lost \/ Ask \/ Read \/ State
  PROVE  Shape'
<1>0. here.n \in Attempts
  BY DEF Typed, TypedHere, Followers
<1>1. CASE Upload
  <2> DEFINE n == here.n
             d == dir[n]
             e == dir'[n]
             r == run[n]
  <2>1. /\ run' = run /\ n \in Attempts /\ OnlyDir(n) /\ d \in Dirs /\ e \in Dirs
        /\ d.place = "out" /\ e.place = "out" /\ e.there /\ SameRecord(d, e) /\ e.told = d.told
    BY <1>1, DoesUpload
  <2>2. DirShape(d) /\ RunShape(d, r)
    BY <1>0, ShapeIs
  <2>3. Others(n) /\ run'[n] = r
    BY <2>1 DEF Others, OnlyDir
  <2> HIDE DEF d, e, r, n
  <2>4. e.there /\ e.done = d.done /\ e.over = d.over /\ e.left = d.left
    BY <2>1 DEF SameRecord
  <2>5. DirShape(e)
    BY <2>1, <2>2, <2>4, DirShapeSame
  <2>6. RunShape(e, r)
    BY <2>1, <2>2 DEF RunShape
  <2> QED BY <2>1, <2>3, <2>5, <2>6, ShapeBut DEF e, r
<1>2. CASE Fill
  <2>1. UNCHANGED there
    BY <1>2, DoesFill
  <2> QED BY <2>1, ShapeUnchanged DEF there
<1>3. CASE Queue
  <2>1. run' = run /\ (dir' = dir \/ (dir[here.n].there /\ QueuedAgain(here.n)))
    BY <1>3, DoesQueue
  <2> QED BY <1>0, <2>1, ShapeUnchanged, ShapeQueued
<1>4. CASE Lost
  <2>1. run' = run /\ (dir' = dir \/ (dir[here.n].there /\ QueuedAgain(here.n)))
    BY <1>4, DoesLost
  <2> QED BY <1>0, <2>1, ShapeUnchanged, ShapeQueued
<1>5. CASE Ask
  <2>1. UNCHANGED there
    BY <1>5, DoesAsk
  <2> QED BY <2>1, ShapeUnchanged DEF there
<1>6. CASE Read
  <2>1. UNCHANGED there
    BY <1>6, DoesRead
  <2> QED BY <2>1, ShapeUnchanged DEF there
<1>7. CASE State
  <2> DEFINE n == here.n
             d == dir[n]
             e == dir'[n]
             r == run[n]
  <2>1. /\ run' = run /\ n \in Attempts /\ OnlyDir(n) /\ d \in Dirs /\ e \in Dirs
        /\ e.there = d.there /\ e.place = d.place /\ SameRecord(d, e) /\ e.told = d.told
        /\ d.byQueue \/ dir' = dir
    BY <1>7, DoesState
  <2>2. DirShape(d) /\ RunShape(d, r)
    BY <1>0, ShapeIs
  <2>3. Others(n) /\ run'[n] = r
    BY <2>1 DEF Others, OnlyDir
  <2>4. CASE dir' = dir
    BY <2>1, <2>4, ShapeUnchanged
  <2> HIDE DEF d, e, r, n
  <2>5. CASE d.byQueue
    <3>1. d.there
      <4>1. SUFFICES ASSUME ~d.there PROVE FALSE
        OBVIOUS
      <4>2. d = [NoDir EXCEPT !.place = d.place]
        BY <2>2, <4>1 DEF DirShape
      <4>3. d.place \in {"out", "queued", "running"}
        BY <2>1 DEF Dirs
      <4> QED BY <2>5, <4>2, <4>3, NoDirIs
    <3>2. e.there /\ e.done = d.done /\ e.over = d.over /\ e.left = d.left
      BY <2>1, <3>1 DEF SameRecord
    <3>3. DirShape(e)
      BY <2>1, <2>2, <3>2, DirShapeSame
    <3>4. RunShape(e, r)
      BY <2>1, <2>2, <3>2, RunShapeSame
    <3> QED BY <2>1, <2>3, <3>3, <3>4, ShapeBut DEF e, r
  <2> QED BY <2>1, <2>4, <2>5
<1> QED BY <1>1, <1>2, <1>3, <1>4, <1>5, <1>6, <1>7

\* Where a step takes the attempt out of the queue.
LEMMA ShapeTakesOut ==
  ASSUME Typed, Shape, Anew \/ Hear
  PROVE  Shape'
<1> DEFINE n == here.n
           d == dir[n]
           e == dir'[n]
           q == run'[n]
<1>0. n \in Attempts
  BY DEF Typed, TypedHere, Followers
<1>1. DirShape(d)
  BY <1>0, ShapeIs
<1>2. \/ UNCHANGED there
      \/ /\ Others(n) /\ d \in Dirs /\ e \in Dirs /\ q = NoRun /\ e.place = "out" /\ e.there = d.there
         /\ SameRecord(d, e) /\ e.told = d.told
         /\ ~d.there => OutOnly(d, e)
  <2>1. CASE Anew
    <3>1. /\ Others(n) /\ d \in Dirs /\ e \in Dirs /\ q = NoRun /\ e.place = "out" /\ e.there = d.there
          /\ SameRecord(d, e) /\ e.told = d.told
          /\ ~d.there => OutOnly(d, e)
      BY <2>1, DoesAnew
    <3> QED BY <3>1
  <2>2. CASE Hear
    <3>1. /\ Others(n) /\ d \in Dirs /\ e \in Dirs
          /\ \/ UNCHANGED there
             \/ /\ q = NoRun /\ e.place = "out" /\ e.there = d.there
                /\ SameRecord(d, e) /\ e.told = d.told /\ d.there
      BY <2>2, DoesHear
    <3> QED BY <3>1
  <2> QED BY <2>1, <2>2
<1>3. CASE UNCHANGED there
  BY <1>3, ShapeUnchanged DEF there
<1> HIDE DEF d, e, q, n
<1>4. CASE /\ Others(n) /\ d \in Dirs /\ e \in Dirs /\ q = NoRun /\ e.place = "out" /\ e.there = d.there
           /\ SameRecord(d, e) /\ e.told = d.told
           /\ ~d.there => OutOnly(d, e)
  <2>1. DirShape(e)
    <3>1. CASE d.there
      <4>1. e.there /\ e.done = d.done /\ e.over = d.over /\ e.left = d.left /\ e.told = d.told
        BY <1>4, <3>1 DEF SameRecord
      <4> QED BY <1>1, <4>1, DirShapeSame
    <3>2. CASE ~d.there
      BY <1>1, <1>4, <3>2, NoDirOut
    <3> QED BY <3>1, <3>2
  <2>2. RunShape(e, q)
    BY <1>4 DEF RunShape
  <2> QED BY <1>0, <1>4, <2>1, <2>2, ShapeBut DEF e, q
<1> QED BY <1>2, <1>3, <1>4

\* Every step of a runner is one of these.
LEMMA TypedStep ==
  ASSUME Typed, Shape, [Next]_vars
  PROVE  Typed' /\ Shape'
<1>0. ASSUME TypedThere', UNCHANGED <<client, job, heard, slipped>>
      PROVE  Typed'
  BY <1>0 DEF Typed, TypedHere, client
<1>1. ASSUME NEW a \in Attempts, Runner(a) \/ Turns(a) \/ Killed(a) \/ CanceledThere(a) \/ Purged(a)
      PROVE  Typed' /\ Shape'
  <2>1. TypedThere
    BY DEF Typed
  <2>2. CASE Starts(a)
    <3>1. TypedThere' /\ OfRunner
      BY ONLY <2>1, <2>2, a \in Attempts, DoesStarts
    <3> QED BY <1>0, <2>1, <2>2, <3>1, ShapeStarts DEF OfRunner
  <2>3. CASE Works(a)
    <3>1. TypedThere' /\ OfRunner
      BY ONLY <2>1, <2>3, a \in Attempts, DoesWorks
    <3> QED BY <1>0, <2>1, <2>3, <3>1, ShapeWorks DEF OfRunner
  <2>4. CASE Turns(a)
    <3>1. TypedThere' /\ OfRunner
      BY ONLY <2>1, <2>4, a \in Attempts, DoesTurns
    <3> QED BY <1>0, <2>1, <2>4, <3>1, ShapeWorks DEF OfRunner
  <2>5. CASE JobEnds(a)
    <3>1. TypedThere' /\ OfRunner
      BY ONLY <2>1, <2>5, a \in Attempts, DoesJobEnds
    <3> QED BY <1>0, <2>1, <2>5, <3>1, ShapeJobEnds DEF OfRunner
  <2>6. CASE Reduces(a)
    <3>1. TypedThere' /\ OfRunner
      BY ONLY <2>1, <2>6, a \in Attempts, DoesReduces
    <3> QED BY <1>0, <2>1, <2>6, <3>1, ShapeReduces DEF OfRunner
  <2>7. CASE Marks(a)
    <3>1. TypedThere' /\ OfRunner
      BY ONLY <2>1, <2>7, a \in Attempts, DoesMarks
    <3> QED BY <1>0, <2>1, <2>7, <3>1, ShapeMarks DEF OfRunner
  <2>8. CASE Ends(a)
    <3>1. TypedThere' /\ OfRunner
      BY ONLY <2>1, <2>8, a \in Attempts, DoesEnds
    <3> QED BY <1>0, <2>1, <2>8, <3>1, ShapeOut DEF OfRunner
  <2>9. CASE Collapses(a)
    <3>1. TypedThere' /\ OfRunner
      BY ONLY <2>1, <2>9, a \in Attempts, DoesCollapses
    <3> QED BY <1>0, <2>1, <2>9, <3>1, ShapeOut DEF OfRunner
  <2>10. CASE Killed(a)
    <3>0. run[a].step = "job" => run[a].s \in Stages
      <4>1. dir[a].there /\ dir[a].place = "running"
        BY <2>10 DEF Killed
      <4>2. RunShape(dir[a], run[a])
        BY ShapeIs
      <4> QED BY <4>1, <4>2 DEF RunShape
    <3>1. TypedThere' /\ UNCHANGED <<client, job, heard, slipped>>
      BY ONLY <2>1, <2>10, <3>0, a \in Attempts, DoesKilled
    <3> QED BY <1>0, <2>1, <2>10, <3>1, ShapeOut
  <2>11. CASE CanceledThere(a)
    <3>1. TypedThere' /\ UNCHANGED <<client, job, heard, slipped>>
      BY ONLY <2>1, <2>11, a \in Attempts, DoesCanceledThere
    <3> QED BY <1>0, <2>1, <2>11, <3>1, ShapeOut
  <2>12. CASE Purged(a)
    <3>1. TypedThere' /\ UNCHANGED <<client, job, heard, slipped>>
      BY ONLY <2>1, <2>12, a \in Attempts, DoesPurged
    <3> QED BY <1>0, <2>1, <2>12, <3>1, ShapePurged
  <2> QED BY <1>1, <2>2, <2>3, <2>4, <2>5, <2>6, <2>7, <2>8, <2>9, <2>10, <2>11, <2>12 DEF Runner
<1>2. CASE Submit
  BY <1>2, DoesSubmit, ShapeUnchanged DEF there
<1>3. CASE Follows \/ Lost
  <2>1. CASE Place
    BY <2>1, DoesPlace, ShapePlace
  <2>2. CASE Upload
    <3>1. Typed'
      BY <2>2, DoesUpload
    <3> QED BY <2>2, <3>1, ShapeThread
  <2>3. CASE Fill
    <3>1. Typed'
      BY <2>3, DoesFill
    <3> QED BY <2>3, <3>1, ShapeThread
  <2>4. CASE Queue
    <3>1. Typed'
      BY <2>4, DoesQueue
    <3> QED BY <2>4, <3>1, ShapeThread
  <2>5. CASE Lost
    <3>1. Typed'
      BY <2>5, DoesLost
    <3> QED BY <2>5, <3>1, ShapeThread
  <2>6. CASE Ask
    <3>1. Typed'
      BY <2>6, DoesAsk
    <3> QED BY <2>6, <3>1, ShapeThread
  <2>7. CASE Read
    <3>1. Typed'
      BY <2>7, DoesRead
    <3> QED BY <2>7, <3>1, ShapeThread
  <2>8. CASE State
    <3>1. Typed'
      BY <2>8, DoesState
    <3> QED BY <2>8, <3>1, ShapeThread
  <2>9. CASE Anew
    <3>1. Typed'
      BY <2>9, DoesAnew
    <3> QED BY <2>9, <3>1, ShapeTakesOut
  <2> QED BY <1>3, <2>1, <2>2, <2>3, <2>4, <2>5, <2>6, <2>7, <2>8, <2>9 DEF Follows
<1>4. CASE Hear
  <2>1. Typed'
    BY <1>4, DoesHear
  <2> QED BY <1>4, <2>1, ShapeTakesOut
<1>5. CASE Die
  BY <1>5, DoesDie, ShapeUnchanged DEF there
<1>6. ASSUME NEW how \in {"canceled", "interrupted"}, EndJob(how)
      PROVE  Typed' /\ Shape'
  BY <1>6, DoesEndJob, ShapeUnchanged DEF there
<1>7. CASE UNCHANGED vars
  <2>1. dir' = dir /\ run' = run /\ UNCHANGED <<client, job, heard, slipped>>
    BY <1>7 DEF vars, there
  <2>2. TypedThere'
    BY <2>1 DEF Typed, TypedThere
  <2> QED BY <1>0, <2>1, <2>2, ShapeUnchanged
<1> QED BY <1>1, <1>2, <1>3, <1>4, <1>5, <1>6, <1>7 DEF Next

LEMMA TypedInit == Init => Typed /\ Shape
<1> SUFFICES ASSUME Init PROVE Typed /\ Shape
  OBVIOUS
<1>1. NoDir = [NoDir EXCEPT !.place = "out"]
  BY NoDirIs
<1>2. NoDir \in Dirs /\ DirShape(NoDir) /\ ~NoDir.there /\ NoDir.place = "out"
  BY <1>1, NoDirIs, DirShapeNone
<1>3. NoRun \in Runners
  BY CampaignAssumption DEF NoRun, Runners
<1>4. TypedThere
  BY <1>2, <1>3 DEF Init, TypedThere
<1>5. TypedHere
  BY FreshIs, UntoldIs, NothingGotIs DEF Init, TypedHere
<1>6. RunShape(NoDir, NoRun)
  BY <1>2 DEF RunShape
<1>7. Shape
  BY <1>2, <1>6 DEF Init, Shape
<1> QED BY <1>4, <1>5, <1>7 DEF Typed

-----------------------------------------------------------------------------
(* One attempt at a time *)

Queued(d) == d.there /\ d.place # "out"
Spent(d) == d.byQueue \/ d.cancelled \/ d.lost \/ d.told.status = "failed"
Following == {"upload", "fill", "submit", "follow", "read", "again", "state"}

\* In the queue is at most the attempt that was started last, and only while nothing says that it is
\* given up; whoever follows an attempt follows that one.
Single ==
  /\ \A a \in Attempts : Queued(dir[a]) => ~Spent(dir[a]) /\ \A b \in Attempts : dir[b].there => b <= a
  /\ pc \in Following => here.dir /\ \A a \in Attempts : dir[a].there => a <= here.n
  /\ here.dir => \A a \in Attempts : Queued(dir[a]) => a = here.n
  /\ pc = "upload" => ~dir[here.n].there
  /\ pc \in {"upload", "fill", "submit"} => \A a \in Attempts : ~Queued(dir[a])
  /\ pc \in {"fill", "submit", "follow", "read", "state"} => (dir[here.n].there => ~dir[here.n].lost)
  /\ pc \in {"fill", "submit"} => (dir[here.n].there => dir[here.n].told.status # "failed")
  /\ (pc \in {"follow", "read"} /\ here.ending) \/ pc = "state" => ~Queued(dir[here.n])
  /\ (pc = "read" /\ here.ending) \/ pc = "state" => (dir[here.n].there => dir[here.n].told = told)
  /\ pc = "state" => told.status # "failed"
  /\ pc \in {"place", "upload", "fill", "submit"} => ~here.ending
  /\ job = "running" => ~heard
  /\ job = "canceled" /\ heard /\ ~slipped => \A a \in Attempts : ~Queued(dir[a])

\* A step puts no attempt in the queue, and gives up none that stays there.
Calmer(d, e) ==
  /\ e.there => d.there
  /\ Queued(e) => Queued(d) /\ (~Spent(d) => ~Spent(e))
Calm == \A b \in Attempts : Calmer(dir[b], dir'[b])
\* One that is out of the queue stays as it is there.
Steady(d, e) == e.there => e.lost = d.lost /\ (~Queued(d) => e.told = d.told)

LEMMA CalmBut ==
  ASSUME NEW a \in Attempts, Others(a) \/ OnlyDir(a), Calmer(dir[a], dir'[a])
  PROVE  Calm
BY DEF Calm, Calmer, Others, OnlyDir

LEMMA CalmSame ==
  ASSUME dir' = dir
  PROVE  Calm
BY DEF Calm, Calmer

\* What the others do.
LEMMA SingleThere ==
  ASSUME Typed, Single, NEW a \in Attempts, Others(a), Calmer(dir[a], dir'[a]), Steady(dir[a], dir'[a]),
         UNCHANGED <<client, job, heard, slipped>>
  PROVE  Single'
<1>1. Calm
  BY CalmBut
<1>2. here.n \in Attempts
  BY DEF Typed, TypedHere, Followers
<1>3. Steady(dir[here.n], dir'[here.n])
  BY <1>2 DEF Others, Steady
<1>4. \A b \in Attempts : (dir'[b].there => dir[b].there) /\ (Queued(dir'[b]) => Queued(dir[b]) /\ (~Spent(dir[b]) => ~Spent(dir'[b])))
  BY <1>1 DEF Calm, Calmer
<1>5. dir'[here.n].there => dir'[here.n].lost = dir[here.n].lost /\ (~Queued(dir[here.n]) => dir'[here.n].told = dir[here.n].told)
  BY <1>3 DEF Steady
<1>6. pc' = pc /\ here' = here /\ told' = told /\ job' = job /\ heard' = heard /\ slipped' = slipped
  BY DEF client
<1> QED BY <1>2, <1>4, <1>5, <1>6 DEF Single

LEMMA CalmRunner ==
  ASSUME TypedThere, Shape, NEW a \in Attempts, Runner(a) \/ Turns(a) \/ Killed(a) \/ CanceledThere(a) \/ Purged(a)
  PROVE  Others(a) /\ Calmer(dir[a], dir'[a]) /\ Steady(dir[a], dir'[a]) /\ UNCHANGED <<client, job, heard, slipped>>
<1> DEFINE d == dir[a]
           e == dir'[a]
<1>1. ASSUME d.there, SameFlags(d, e), Queued(d), e.told.status # "failed" \/ e.told = d.told
      PROVE  Calmer(d, e) /\ Steady(d, e)
  BY <1>1 DEF SameFlags, Calmer, Steady, Spent
<1>2. ASSUME d.there, d.place # "out", e.place = "out", e.there = d.there, e.lost = d.lost
      PROVE  Calmer(d, e) /\ Steady(d, e)
  BY <1>2 DEF Calmer, Steady, Queued
<1>3. CASE Starts(a)
  <2>1. Others(a) /\ OfRunner /\ d.there /\ d.place = "queued" /\ SameFlags(d, e) /\ (e.place = "out" \/ e.told = d.told)
    BY <1>3, DoesStarts
  <2>2. CASE e.place = "out"
    <3>1. e.there = d.there /\ e.lost = d.lost
      BY <2>1 DEF SameFlags
    <3> QED BY <1>2, <2>1, <2>2, <3>1 DEF OfRunner
  <2>3. CASE e.told = d.told
    BY <1>1, <2>1, <2>3 DEF OfRunner, Queued
  <2> QED BY <2>1, <2>2, <2>3
<1>4. ASSUME d.there, run[a].step # "none"
      PROVE  Queued(d)
  BY <1>4, RunsThere DEF Queued
<1>5. CASE Works(a)
  <2>1. Others(a) /\ OfRunner /\ d.there /\ SameFlags(d, e) /\ e.told = d.told /\ run[a].step = "job"
    BY <1>5, DoesWorks
  <2> QED BY <1>1, <1>4, <2>1 DEF OfRunner
<1>6. CASE Turns(a)
  <2>1. Others(a) /\ OfRunner /\ d.there /\ SameFlags(d, e) /\ e.told.status = "running" /\ run[a].step = "job"
    BY <1>6, DoesTurns
  <2> QED BY <1>1, <1>4, <2>1 DEF OfRunner
<1>7. CASE JobEnds(a)
  <2>1. Others(a) /\ OfRunner /\ d.there /\ SameFlags(d, e) /\ e.told.status # "failed" /\ run[a].step = "job"
    BY <1>7, DoesJobEnds
  <2> QED BY <1>1, <1>4, <2>1 DEF OfRunner
<1>8. CASE Reduces(a)
  <2>1. Others(a) /\ OfRunner /\ d.there /\ SameFlags(d, e) /\ e.told = d.told /\ run[a].step = "reduce"
    BY <1>8, DoesReduces
  <2> QED BY <1>1, <1>4, <2>1 DEF OfRunner
<1>9. CASE Marks(a)
  <2>1. Others(a) /\ OfRunner /\ d.there /\ SameFlags(d, e) /\ e.told = d.told /\ run[a].step = "mark"
    BY <1>9, DoesMarks
  <2> QED BY <1>1, <1>4, <2>1 DEF OfRunner
<1>10. CASE Ends(a)
  <2>1. Others(a) /\ OfRunner /\ d.there /\ SameFlags(d, e) /\ e.place = "out" /\ run[a].step = "end"
    BY <1>10, DoesEnds
  <2>2. e.there = d.there /\ e.lost = d.lost /\ d.place # "out"
    BY <1>4, <2>1 DEF SameFlags, Queued
  <2> QED BY <1>2, <2>1, <2>2 DEF OfRunner
<1>11. CASE Collapses(a)
  <2>1. Others(a) /\ OfRunner /\ ~d.there /\ SameFlags(d, e)
    BY <1>11, DoesCollapses
  <2> QED BY <2>1 DEF OfRunner, SameFlags, Calmer, Steady, Queued
<1>12. CASE Killed(a)
  <2>0. run[a].step = "job" => run[a].s \in Stages
    <3>1. dir[a].there /\ dir[a].place = "running"
      BY <1>12 DEF Killed
    <3>2. RunShape(dir[a], run[a])
      BY ShapeIs
    <3> QED BY <3>1, <3>2 DEF RunShape
  <2>1. Others(a) /\ UNCHANGED <<client, job, heard, slipped>> /\ d.there /\ d.place = "running" /\ e.place = "out"
        /\ e.there = d.there /\ e.lost = d.lost
    BY <1>12, <2>0, DoesKilled
  <2> QED BY <1>2, <2>1
<1>13. CASE CanceledThere(a)
  <2>1. Others(a) /\ UNCHANGED <<client, job, heard, slipped>> /\ d.there /\ d.place # "out" /\ e.place = "out" /\ e.there = d.there /\ e.lost = d.lost
    BY <1>13, DoesCanceledThere
  <2> QED BY <1>2, <2>1
<1>14. CASE Purged(a)
  <2>1. /\ Others(a) /\ UNCHANGED <<client, job, heard, slipped>> /\ d.there /\ e.place = d.place
        /\ \/ ~e.there
           \/ SameFlags(d, e) /\ e.told = d.told
    BY <1>14, DoesPurged
  <2> QED BY <2>1 DEF SameFlags, Calmer, Steady, Queued, Spent
<1> QED BY <1>3, <1>5, <1>6, <1>7, <1>8, <1>9, <1>10, <1>11, <1>12, <1>13, <1>14 DEF Runner

LEMMA CalmIs ==
  ASSUME Calm
  PROVE  \A b \in Attempts : (dir'[b].there => dir[b].there) /\ (Queued(dir'[b]) => Queued(dir[b]) /\ (~Spent(dir[b]) => ~Spent(dir'[b])))
BY DEF Calm, Calmer

LEMMA SinglePlace ==
  ASSUME Typed, Single, Place
  PROVE  Single'
<1>2. /\ pc = "place" /\ job' = job /\ heard' = heard /\ slipped' = slipped /\ told' = told /\ here'.dir
        /\ here'.ending = here.ending /\ here'.first = here.first /\ here'.stop = here.stop
  BY DoesPlace DEF Alone, SameElse
<1>1. ~here.ending /\ (job = "running" => ~heard)
  BY <1>2 DEF Single
<1>5. ASSUME \A b \in Attempts : Queued(dir'[b]) => Queued(dir[b])
      PROVE  job' = "canceled" /\ heard' /\ ~slipped' => \A a \in Attempts : ~Queued(dir'[a])
  BY <1>2, <1>5 DEF Single
<1>3. CASE (\A b \in Attempts : ~dir[b].there) /\ dir' = dir /\ pc' = "upload"
  <2>1. here'.n \in Attempts
    BY DoesPlace DEF Typed, TypedHere, Followers
  <2>2. \A b \in Attempts : ~dir'[b].there /\ ~Queued(dir'[b])
    BY <1>3 DEF Queued
  <2> QED BY <1>1, <1>2, <1>3, <2>1, <2>2 DEF Single, Following
<1>4. CASE \E a \in Attempts :
             LET d == dir[a]  e == dir'[a] IN
             /\ d.there /\ \A b \in Attempts : dir[b].there => b <= a
             /\ OnlyDir(a) /\ e.there = d.there /\ e.place = d.place /\ e.lost = d.lost /\ e.byQueue = d.byQueue
             /\ (e.cancelled => d.cancelled \/ d.byQueue) /\ e.told = d.told
             /\ \/ (d.cancelled \/ d.byQueue \/ d.lost \/ d.told.status = "failed") /\ here'.n = a + 1 /\ pc' = "upload"
                \/ /\ ~(d.cancelled \/ d.byQueue \/ d.lost \/ d.told.status = "failed") /\ here'.n = a
                   /\ pc' = IF d.place # "out" \/ Complete(d.told) THEN "follow" ELSE "fill"
  <2>1. PICK a \in Attempts :
             LET d == dir[a]  e == dir'[a] IN
             /\ d.there /\ \A b \in Attempts : dir[b].there => b <= a
             /\ OnlyDir(a) /\ e.there = d.there /\ e.place = d.place /\ e.lost = d.lost /\ e.byQueue = d.byQueue
             /\ (e.cancelled => d.cancelled \/ d.byQueue) /\ e.told = d.told
             /\ \/ (d.cancelled \/ d.byQueue \/ d.lost \/ d.told.status = "failed") /\ here'.n = a + 1 /\ pc' = "upload"
                \/ /\ ~(d.cancelled \/ d.byQueue \/ d.lost \/ d.told.status = "failed") /\ here'.n = a
                   /\ pc' = IF d.place # "out" \/ Complete(d.told) THEN "follow" ELSE "fill"
    BY <1>4
  <2> DEFINE d == dir[a]
             e == dir'[a]
  <2>2. Calmer(d, e) /\ (Queued(e) <=> Queued(d)) /\ OnlyDir(a)
    BY <2>1 DEF Calmer, Queued, Spent
  <2>3. \A b \in Attempts : (dir'[b].there => dir[b].there) /\ (Queued(dir'[b]) => Queued(dir[b]) /\ (~Spent(dir[b]) => ~Spent(dir'[b])))
    BY <2>2, CalmBut, CalmIs
  <2>4. \A b \in Attempts : Queued(dir[b]) => b = a /\ ~Spent(d)
    <3> SUFFICES ASSUME NEW b \in Attempts, Queued(dir[b]) PROVE b = a /\ ~Spent(d)
      OBVIOUS
    <3>1. a <= b /\ ~Spent(dir[b]) /\ b <= a
      BY <2>1 DEF Single, Queued
    <3>2. a \in Int /\ b \in Int
      BY DEF Attempts
    <3>3. a = b
      BY ONLY <3>1, <3>2
    <3> QED BY <3>1, <3>3
  <2>5. CASE Spent(d)
    <3>1. here'.n = a + 1 /\ pc' = "upload"
      BY <2>1, <2>5 DEF Spent
    <3>2. \A b \in Attempts : ~Queued(dir'[b]) /\ (dir'[b].there => b < a + 1)
      <4>1. \A b \in Attempts : b <= a => b < a + 1
        BY DEF Attempts
      <4> QED BY <2>1, <2>3, <2>4, <2>5, <4>1
    <3>3. ~(a + 1 < a + 1) /\ a + 1 \in Attempts /\ \A b \in Attempts : b < a + 1 => b <= a + 1
      <4>1. here'.n \in Attempts
        BY DoesPlace DEF Typed, TypedHere, Followers
      <4> QED BY <3>1, <4>1 DEF Attempts
    <3>4. job' = "canceled" /\ heard' /\ ~slipped' => \A b \in Attempts : ~Queued(dir'[b])
      BY <2>3, <1>5
    <3> QED BY <1>1, <1>2, <3>1, <3>2, <3>3, <3>4 DEF Single, Following
  <2>6. CASE ~Spent(d)
    <3>1. here'.n = a /\ pc' = IF d.place # "out" \/ Complete(d.told) THEN "follow" ELSE "fill"
      BY <2>1, <2>6 DEF Spent
    <3>2. dir'[a].lost = d.lost /\ dir'[a].told = d.told /\ ~d.lost /\ d.told.status # "failed"
      BY <2>1, <2>6 DEF Spent
    <3>3. \A b \in Attempts : /\ dir'[b].there => b <= a
                              /\ Queued(dir'[b]) => b = a
      BY <2>1, <2>3, <2>4
    <3>4. \A b \in Attempts : Queued(dir'[b]) => ~Spent(dir'[b]) /\ \A c \in Attempts : dir'[c].there => c <= b
      BY <2>3, <3>3 DEF Single
    <3>5. pc' \in {"follow", "fill"}
      BY <3>1
    <3>6. pc' = "fill" => \A b \in Attempts : ~Queued(dir'[b])
      <4>1. pc' = "fill" => ~Queued(e)
        BY <2>2, <3>1 DEF Queued
      <4> QED BY <3>3, <4>1
    <3>7. job' = "canceled" /\ heard' /\ ~slipped' => \A b \in Attempts : ~Queued(dir'[b])
      BY <2>3, <1>5
    <3> QED BY <1>1, <1>2, <3>1, <3>2, <3>3, <3>4, <3>5, <3>6, <3>7 DEF Single, Following
  <2> QED BY <2>5, <2>6
<1> QED BY <1>3, <1>4, DoesPlace

\* What the thread does.
LEMMA SingleIdle ==
  ASSUME Single, Calm, Idle, heard' = heard, slipped' = slipped, job' = "canceled" => job = "canceled"
  PROVE  Single'
<1>1. \A b \in Attempts : (dir'[b].there => dir[b].there) /\ (Queued(dir'[b]) => Queued(dir[b]) /\ (~Spent(dir[b]) => ~Spent(dir'[b])))
  BY CalmIs
<1>2. pc' = "off" /\ ~here'.ending /\ job' # "running" /\ (here'.dir => here.dir /\ here'.n = here.n)
  BY DEF Idle
<1>3. \A b \in Attempts : Queued(dir'[b]) => ~Spent(dir'[b]) /\ \A c \in Attempts : dir'[c].there => c <= b
  BY <1>1 DEF Single
<1>4. job' = "canceled" /\ heard' /\ ~slipped' => \A b \in Attempts : ~Queued(dir'[b])
  BY <1>1 DEF Single
<1>5. here'.dir => \A a \in Attempts : Queued(dir'[a]) => a = here'.n
  BY <1>1, <1>2 DEF Single
<1>6. pc' \notin Following
  BY <1>2 DEF Following
<1> QED BY <1>2, <1>3, <1>4, <1>5, <1>6 DEF Single

LEMMA SingleUpload ==
  ASSUME Typed, Shape, Single, Upload
  PROVE  Single'
<1> DEFINE n == here.n
<1>1. /\ pc = "upload" /\ pc' = "fill" /\ UNCHANGED <<here, told>> /\ job' = job /\ heard' = heard
      /\ n \in Attempts /\ OnlyDir(n) /\ dir'[n].place = "out" /\ dir'[n].told = dir[n].told /\ dir'[n].lost = dir[n].lost
  BY DoesUpload DEF Alone
<1>2. here.dir /\ ~here.ending /\ (job = "running" => ~heard)
  BY <1>1 DEF Single, Following
<1>3. \A a \in Attempts : ~Queued(dir'[a])
  <2>1. \A a \in Attempts : ~Queued(dir[a])
    BY <1>1 DEF Single
  <2> QED BY <1>1, <2>1 DEF OnlyDir, Queued
<1>4. \A a \in Attempts : dir'[a].there => a <= n
  <2>1. \A a \in Attempts : a # n /\ dir'[a].there => a <= n
    BY <1>1 DEF Single, OnlyDir, Following
  <2>2. n <= n
    BY <1>1 DEF Attempts
  <2> QED BY <2>1, <2>2
<1>5. ~dir'[n].lost /\ dir'[n].told.status # "failed"
  <2>1. ~dir[n].there
    BY <1>1 DEF Single
  <2>2. dir[n] = [NoDir EXCEPT !.place = dir[n].place]
    BY <1>1, <2>1, ShapeIs DEF DirShape
  <2>3. dir[n].place \in {"out", "queued", "running"}
    BY <1>1 DEF Typed, TypedThere, Dirs
  <2>4. ~dir[n].lost /\ dir[n].told.status = "none"
    BY <2>2, <2>3, NoDirIs
  <2> QED BY <1>1, <2>4
<1> QED BY <1>1, <1>2, <1>3, <1>4, <1>5 DEF Single, Following

LEMMA SingleFill ==
  ASSUME Typed, Single, Fill
  PROVE  Single'
<1>1. /\ pc = "fill" /\ dir' = dir /\ told' = told /\ heard' = heard /\ slipped' = slipped
      /\ \/ dir[here.n].there /\ pc' = "submit" /\ here' = here /\ job' = job
         \/ Idle /\ job' = IF job = "running" THEN "failed" ELSE job
  BY DoesFill DEF there
<1>2. CASE Idle /\ job' = IF job = "running" THEN "failed" ELSE job
  BY <1>1, <1>2, CalmSame, SingleIdle
<1>3. CASE dir[here.n].there /\ pc' = "submit" /\ here' = here /\ job' = job
  BY <1>1, <1>3 DEF Single, Following
<1> QED BY <1>1, <1>2, <1>3

LEMMA SingleQueued ==
  ASSUME Typed, Single, pc = "submit", dir[here.n].there, run' = run, QueuedAgain(here.n)
  PROVE  /\ here.dir /\ ~here.ending /\ (job = "running" => ~heard)
         /\ \A a \in Attempts : /\ dir'[a].there => a <= here.n
                                /\ Queued(dir'[a]) => a = here.n
         /\ \A a \in Attempts : Queued(dir'[a]) => ~Spent(dir'[a]) /\ \A b \in Attempts : dir'[b].there => b <= a
         /\ ~dir'[here.n].lost
         /\ job = "canceled" /\ heard => slipped'
<1> DEFINE n == here.n
<1>0. n \in Attempts
  BY DEF Typed, TypedHere, Followers
<1>1. /\ OnlyDir(n) /\ dir'[n].there = dir[n].there /\ dir'[n].lost = dir[n].lost
      /\ ~dir'[n].cancelled /\ ~dir'[n].byQueue /\ dir'[n].told = dir[n].told
      /\ (job = "canceled" /\ heard => slipped')
  BY ONLY <1>0, QueuedIs, Typed, run' = run, QueuedAgain(n)
<1>2. \A a \in Attempts : (dir[a].there => a <= n) /\ ~Queued(dir[a])
  BY DEF Single, Following
<1>3. ~dir[n].lost /\ dir[n].told.status # "failed"
  BY DEF Single
<1>4. \A a \in Attempts : (dir'[a].there => a <= n) /\ (Queued(dir'[a]) => a = n)
  BY <1>1, <1>2 DEF OnlyDir
<1>5. ~Spent(dir'[n]) /\ ~dir'[n].lost
  BY <1>1, <1>3 DEF Spent
<1>6. here.dir /\ ~here.ending /\ (job = "running" => ~heard)
  BY DEF Single, Following
<1> QED BY <1>1, <1>4, <1>5, <1>6

LEMMA SingleQueue ==
  ASSUME Typed, Single, Queue
  PROVE  Single'
<1>1. /\ pc = "submit" /\ run' = run /\ told' = told /\ heard' = heard
      /\ \/ /\ dir[here.n].there /\ QueuedAgain(here.n) /\ pc' = "follow" /\ job' = job
            /\ here'.n = here.n /\ here'.dir = here.dir /\ here'.stop = here.stop /\ here'.ending = here.ending
            /\ ~here'.first
         \/ dir' = dir /\ slipped' = slipped /\ Idle /\ job' = IF job = "running" THEN "failed" ELSE job
  BY DoesQueue
<1>2. CASE dir' = dir /\ slipped' = slipped /\ Idle /\ job' = IF job = "running" THEN "failed" ELSE job
  BY <1>1, <1>2, CalmSame, SingleIdle
<1>3. CASE /\ dir[here.n].there /\ QueuedAgain(here.n) /\ pc' = "follow" /\ job' = job
           /\ here'.n = here.n /\ here'.dir = here.dir /\ here'.stop = here.stop /\ here'.ending = here.ending
           /\ ~here'.first
  <2>1. /\ here.dir /\ ~here.ending /\ (job = "running" => ~heard)
        /\ \A a \in Attempts : /\ dir'[a].there => a <= here.n
                               /\ Queued(dir'[a]) => a = here.n
        /\ \A a \in Attempts : Queued(dir'[a]) => ~Spent(dir'[a]) /\ \A b \in Attempts : dir'[b].there => b <= a
        /\ ~dir'[here.n].lost
        /\ job = "canceled" /\ heard => slipped'
    BY <1>1, <1>3, SingleQueued
  <2>2. told' = told /\ heard' = heard /\ here'.n = here.n /\ here'.dir = here.dir /\ here'.ending = here.ending
        /\ pc' = "follow" /\ job' = job
    BY <1>1, <1>3
  <2> QED BY ONLY <2>1, <2>2 DEF Single
<1> QED BY <1>1, <1>2, <1>3

LEMMA SingleLost ==
  ASSUME Typed, Single, Lost
  PROVE  Single'
<1>1. /\ run' = run /\ told' = told /\ heard' = heard
      /\ \/ dir' = dir /\ slipped' = slipped
         \/ pc = "submit" /\ dir[here.n].there /\ QueuedAgain(here.n)
      /\ \/ Idle /\ job' = IF job = "running" THEN "failed" ELSE job
         \/ /\ here' = here /\ job' = job
            /\ \/ pc \in {"follow", "state"} /\ pc' = pc
               \/ pc \in {"place", "upload", "fill", "submit"} /\ here.first /\ ~here.stop /\ pc' = "place"
  BY DoesLost
<1>2. CASE Idle /\ job' = IF job = "running" THEN "failed" ELSE job
  <2>1. CASE dir' = dir /\ slipped' = slipped
    BY <1>1, <1>2, <2>1, CalmSame, SingleIdle
  <2>2. CASE pc = "submit" /\ dir[here.n].there /\ QueuedAgain(here.n)
    <3>1. /\ here.dir /\ \A a \in Attempts : Queued(dir'[a]) => a = here.n
          /\ \A a \in Attempts : Queued(dir'[a]) => ~Spent(dir'[a]) /\ \A b \in Attempts : dir'[b].there => b <= a
          /\ job = "canceled" /\ heard => slipped'
      BY <1>1, <2>2, SingleQueued
    <3>2. pc' = "off" /\ ~here'.ending /\ job' # "running" /\ (here'.dir => here.dir /\ here'.n = here.n)
      BY <1>2 DEF Idle
    <3>3. job' = "canceled" /\ heard' /\ ~slipped' => \A a \in Attempts : ~Queued(dir'[a])
      BY <1>1, <1>2, <3>1
    <3> QED BY <3>1, <3>2, <3>3 DEF Single, Following
  <2> QED BY <1>1, <2>1, <2>2
<1>3. CASE here' = here /\ job' = job /\ pc \in {"follow", "state"} /\ pc' = pc
  <2>1. dir' = dir /\ slipped' = slipped
    BY <1>1, <1>3
  <2> QED BY <1>1, <1>3, <2>1 DEF Single, Following
<1>4. CASE /\ here' = here /\ job' = job
           /\ pc \in {"place", "upload", "fill", "submit"} /\ here.first /\ ~here.stop /\ pc' = "place"
  <2>1. /\ \A a \in Attempts : Queued(dir'[a]) => ~Spent(dir'[a]) /\ \A b \in Attempts : dir'[b].there => b <= a
        /\ here.dir => \A a \in Attempts : Queued(dir'[a]) => a = here.n
        /\ job = "canceled" /\ heard /\ ~slipped' => \A a \in Attempts : ~Queued(dir'[a])
    <3>1. CASE dir' = dir /\ slipped' = slipped
      BY <3>1 DEF Single
    <3>2. CASE pc = "submit" /\ dir[here.n].there /\ QueuedAgain(here.n)
      BY <1>1, <3>2, SingleQueued
    <3> QED BY <1>1, <3>1, <3>2
  <2>2. ~here.ending /\ (job = "running" => ~heard)
    BY <1>4 DEF Single
  <2> QED BY <1>1, <1>4, <2>1, <2>2 DEF Single, Following
<1> QED BY <1>1, <1>2, <1>3, <1>4

LEMMA SingleAsk ==
  ASSUME Typed, Single, Ask
  PROVE  Single'
<1>1. /\ pc = "follow" /\ dir' = dir /\ heard' = heard /\ slipped' = slipped
      /\ \/ Idle /\ told' = told /\ job' = IF job = "running" THEN "failed" ELSE job
         \/ /\ ~here.stop /\ pc' = "read" /\ job' = job
            /\ told' = (IF dir[here.n].there THEN dir[here.n].told ELSE Untold)
            /\ here'.n = here.n /\ here'.dir = here.dir /\ here'.stop = here.stop /\ here'.ending = here.ending
  BY DoesAsk DEF there
<1>2. CASE Idle /\ told' = told /\ job' = IF job = "running" THEN "failed" ELSE job
  BY <1>1, <1>2, CalmSame, SingleIdle
<1>3. CASE /\ ~here.stop /\ pc' = "read" /\ job' = job
           /\ told' = (IF dir[here.n].there THEN dir[here.n].told ELSE Untold)
           /\ here'.n = here.n /\ here'.dir = here.dir /\ here'.stop = here.stop /\ here'.ending = here.ending
  <2>1. dir'[here'.n].there => dir'[here'.n].told = told'
    BY <1>1, <1>3
  <2> QED BY <1>1, <1>3, <2>1 DEF Single, Following
<1> QED BY <1>1, <1>2, <1>3

LEMMA SingleRead ==
  ASSUME Typed, Single, Read
  PROVE  Single'
<1> DEFINE d == dir[here.n]
<1>1. /\ pc = "read" /\ dir' = dir /\ heard' = heard /\ slipped' = slipped /\ d \in Dirs
      /\ told' = (IF pc' = "state" THEN told ELSE Untold)
      /\ \/ Idle /\ job' = (IF job = "running" THEN "failed" ELSE job)
         \/ Idle /\ job' = (IF job = "running" THEN "completed" ELSE job)
         \/ pc' = "again" /\ here' = Counted(d) /\ job' = job
         \/ /\ pc' = "follow" /\ job' = job
            /\ here'.n = here.n /\ here'.dir = here.dir /\ here'.stop = here.stop
            /\ here'.ending = (d.place = "out")
         \/ /\ pc' = "state" /\ job' = job /\ here' = Counted(d)
            /\ d.place = "out" /\ here.ending /\ told.status # "failed" /\ d.there
  BY DoesRead DEF there
<1>3. CASE Idle /\ job' \in {"failed", "completed", job}
  <2>1. job' = "canceled" => job = "canceled"
    BY <1>3
  <2> QED BY <1>1, <1>3, <2>1, CalmSame, SingleIdle
<1>4. Counted(d).n = here.n /\ Counted(d).dir = here.dir /\ Counted(d).stop = here.stop
  BY <1>1, CountedIs DEF SameElse
<1>5. CASE pc' = "again" /\ here' = Counted(d) /\ job' = job
  BY <1>1, <1>4, <1>5 DEF Single, Following
<1>6. CASE /\ pc' = "follow" /\ job' = job
           /\ here'.n = here.n /\ here'.dir = here.dir /\ here'.stop = here.stop
           /\ here'.ending = (d.place = "out")
  <2>1. here'.ending => ~Queued(d)
    BY <1>6 DEF Queued
  <2> QED BY <1>1, <1>6, <2>1 DEF Single, Following
<1>7. CASE /\ pc' = "state" /\ job' = job /\ here' = Counted(d)
           /\ d.place = "out" /\ here.ending /\ told.status # "failed" /\ d.there
  <2>1. told' = told
    BY <1>1, <1>7
  <2> QED BY <1>1, <1>4, <1>7, <2>1 DEF Single, Following
<1> QED BY <1>1, <1>3, <1>5, <1>6, <1>7

LEMMA SingleAnew ==
  ASSUME Typed, Single, Anew
  PROVE  Single'
<1> DEFINE n == here.n
<1>1. /\ pc = "again" /\ pc' = "upload" /\ job' = job /\ heard' = heard /\ n \in Attempts /\ Others(n)
      /\ dir'[n].place = "out" /\ dir'[n].there = dir[n].there
      /\ here'.n = n + 1 /\ here'.dir /\ here'.stop = here.stop /\ ~here'.ending
  BY DoesAnew DEF Alone
<1>2. job = "running" => ~heard
  BY DEF Single
<1>3. \A a \in Attempts : (dir[a].there => a <= n) /\ (Queued(dir[a]) => a = n)
  BY <1>1 DEF Single, Following
<1>4. \A a \in Attempts : (dir'[a].there => a <= n) /\ ~Queued(dir'[a])
  BY <1>1, <1>3 DEF Others, Queued
<1>5. \A a \in Attempts : a <= n => a <= n + 1 /\ a # n + 1
  BY <1>1 DEF Attempts
<1>6. n + 1 \in Attempts
  BY DEF Anew
<1> QED BY <1>1, <1>2, <1>4, <1>5, <1>6 DEF Single, Following

LEMMA SingleState ==
  ASSUME Typed, Single, State
  PROVE  Single'
<1> DEFINE n == here.n
           d == dir[n]
           e == dir'[n]
<1>1. /\ pc = "state" /\ heard' = heard /\ slipped' = slipped /\ n \in Attempts /\ OnlyDir(n)
      /\ e.there = d.there /\ e.place = d.place /\ e.lost = d.lost /\ e.byQueue = d.byQueue /\ e.told = d.told
      /\ (d.byQueue /\ e.cancelled) \/ dir' = dir
      /\ \/ Idle /\ job' = IF job = "running" THEN "failed" ELSE job
         \/ /\ pc' = "submit" /\ job' = job /\ dir' = dir /\ ~d.byQueue /\ ~here'.ending
            /\ here'.n = n /\ here'.dir = here.dir /\ here'.stop = here.stop
  BY DoesState
<1>3. CASE Idle /\ job' = IF job = "running" THEN "failed" ELSE job
  <2>1. Calmer(d, e)
    BY <1>1 DEF Calmer, Queued, Spent
  <2>2. Calm
    BY <1>1, <2>1, CalmBut
  <2> QED BY <1>1, <1>3, <2>2, SingleIdle
<1>4. CASE /\ pc' = "submit" /\ job' = job /\ dir' = dir /\ ~d.byQueue /\ ~here'.ending
           /\ here'.n = n /\ here'.dir = here.dir /\ here'.stop = here.stop
  <2>1. \A a \in Attempts : (dir[a].there => a <= n) /\ ~Queued(dir[a])
    BY <1>1 DEF Single, Following
  <2>2. (d.there => ~d.lost /\ d.told.status # "failed") /\ here.dir /\ (job = "running" => ~heard)
    BY <1>1 DEF Single, Following
  <2> QED BY <1>1, <1>4, <2>1, <2>2 DEF Single, Following
<1> QED BY <1>1, <1>3, <1>4

LEMMA SingleSubmit ==
  ASSUME Typed, Single, Submit
  PROVE  Single'
<1>1. dir' = dir /\ pc' = "place" /\ job' = "running" /\ here' = Fresh /\ ~heard'
  BY DoesSubmit DEF there
<1>2. ~Fresh.ending /\ ~Fresh.dir
  BY FreshIs
<1> QED BY <1>1, <1>2 DEF Single, Following

LEMMA SingleEndJob ==
  ASSUME Typed, Single, NEW how \in {"canceled", "interrupted"}, EndJob(how)
  PROVE  Single'
<1>1. dir' = dir /\ UNCHANGED <<pc, here, told, heard>> /\ job = "running" /\ job' = how
  BY DoesEndJob DEF there
<1>2. ~heard
  BY <1>1 DEF Single
<1> QED BY <1>1, <1>2 DEF Single, Following

\* What the thread is at is all there is in the queue: when the command of a cancel is through, or
\* finds no directory, nothing is left there.
LEMMA SingleHear ==
  ASSUME Typed, Single, Hear
  PROVE  Single'
<1> DEFINE n == here.n
           d == dir[n]
           e == dir'[n]
<1>1. /\ pc' = pc /\ told' = told /\ job' = job /\ job # "running" /\ heard' /\ ~heard /\ n \in Attempts /\ Others(n)
      /\ \/ pc = "off" /\ here' = Fresh
         \/ /\ pc # "off"
            /\ here'.n = n /\ here'.dir = here.dir /\ here'.stop
            /\ here'.ending = here.ending
      /\ \/ dir' = dir /\ (job = "canceled" => slipped' \/ (here.dir /\ ~d.there))
         \/ here.dir /\ e.place = "out" /\ e.there = d.there /\ e.lost = d.lost /\ e.told = d.told
  BY DoesHear DEF there
<1>2. /\ \A b \in Attempts : (dir'[b].there => dir[b].there) /\ (Queued(dir'[b]) => Queued(dir[b]) /\ dir'[b] = dir[b])
      /\ job' = "canceled" /\ heard' /\ ~slipped' => \A a \in Attempts : ~Queued(dir'[a])
      /\ dir'[n].there => dir'[n].lost = d.lost /\ dir'[n].told = d.told
  <2>1. CASE dir' = dir /\ (job = "canceled" => slipped' \/ (here.dir /\ ~d.there))
    BY <1>1, <2>1 DEF Single, Queued
  <2>2. CASE here.dir /\ e.place = "out" /\ e.there = d.there /\ e.lost = d.lost /\ e.told = d.told
    BY <1>1, <2>2 DEF Single, Others, Queued
  <2> QED BY <1>1, <2>1, <2>2
<1>3. \A b \in Attempts : Queued(dir'[b]) => ~Spent(dir'[b]) /\ \A c \in Attempts : dir'[c].there => c <= b
  BY <1>2 DEF Single
<1>4. CASE pc = "off" /\ here' = Fresh
  <2>1. ~Fresh.ending /\ ~Fresh.dir
    BY FreshIs
  <2> QED BY <1>1, <1>2, <1>3, <1>4, <2>1 DEF Single, Following
<1>5. CASE pc # "off" /\ here'.n = n /\ here'.dir = here.dir /\ here'.ending = here.ending
  BY <1>1, <1>2, <1>3, <1>5 DEF Single, Following
<1> QED BY <1>1, <1>4, <1>5

LEMMA SingleDie ==
  ASSUME Typed, Single, Die
  PROVE  Single'
<1>1. dir' = dir /\ pc' = "off" /\ job' = "interrupted" /\ here' = Fresh /\ heard'
  BY DoesDie DEF there
<1>2. ~Fresh.ending /\ ~Fresh.dir
  BY FreshIs
<1> QED BY <1>1, <1>2 DEF Single, Following

LEMMA SingleStep ==
  ASSUME Typed, Shape, Single, [Next]_vars
  PROVE  Single'
<1>1. ASSUME NEW a \in Attempts, Runner(a) \/ Turns(a) \/ Killed(a) \/ CanceledThere(a) \/ Purged(a)
      PROVE  Single'
  <2>1. Others(a) /\ Calmer(dir[a], dir'[a]) /\ Steady(dir[a], dir'[a]) /\ UNCHANGED <<client, job, heard, slipped>>
    BY <1>1, CalmRunner DEF Typed
  <2> QED BY <2>1, SingleThere
<1>2. CASE Follows
  BY <1>2, SinglePlace, SingleUpload, SingleFill, SingleQueue, SingleAsk, SingleRead, SingleAnew, SingleState DEF Follows
<1>3. CASE UNCHANGED vars
  <2>1. dir' = dir /\ pc' = pc /\ here' = here /\ told' = told /\ job' = job /\ heard' = heard /\ slipped' = slipped
    BY <1>3 DEF vars, there, client
  <2> QED BY <2>1 DEF Single
<1> QED BY <1>1, <1>2, <1>3, SingleSubmit, SingleLost, SingleHear, SingleDie, SingleEndJob DEF Next

LEMMA SingleInit == Init => Single
<1> SUFFICES ASSUME Init PROVE Single
  OBVIOUS
<1>1. \A a \in Attempts : dir[a] = NoDir
  BY DEF Init
<1>2. NoDir.there = FALSE
  BY DEF NoDir
<1>3. pc = "off" /\ job = "none" /\ heard /\ here = Fresh
  BY DEF Init
<1>4. ~Fresh.ending /\ ~Fresh.dir
  BY FreshIs
<1> QED BY <1>1, <1>2, <1>3, <1>4 DEF Single, Following, Queued

\* What a cancel and a new attempt leave in the queue is at most one attempt.
LEMMA SingleIs ==
  ASSUME Typed, Single
  PROVE  OneOrNoneThere
<1> DEFINE Q == {a \in Attempts : dir[a].there /\ dir[a].place # "out"}
<1>1. Cardinality(Q) <= 1
  <2>1. CASE Q = {}
    BY <2>1, FS_EmptySet
  <2>2. CASE Q # {}
    <3>1. PICK a \in Attempts : a \in Q
      BY <2>2
    <3>2. \A b \in Q : b = a
      <4> SUFFICES ASSUME NEW b \in Q PROVE b = a
        OBVIOUS
      <4>1. a <= b /\ b <= a
        BY <3>1 DEF Single, Queued
      <4>2. a \in Int /\ b \in Int
        BY DEF Attempts
      <4> QED BY ONLY <4>1, <4>2
    <3>3. Q = {a}
      BY <3>1, <3>2
    <3>4. Cardinality({a}) = 1
      BY FS_Singleton
    <3> QED BY ONLY <3>3, <3>4
  <2> QED BY <2>1, <2>2
<1>2. CanceledHere
  BY DEF Single, CanceledHere, Queued
<1> QED BY <1>1, <1>2 DEF OneOrNoneThere, OneAttempt

\* One attempt goes on there at a time, and none of a campaign that was canceled.
THEOREM OneOrNoneHolds == Spec => []OneOrNoneThere
<1> DEFINE Inv == Typed /\ Shape /\ Single
<1>1. Init => Inv
  BY TypedInit, SingleInit
<1>2. Inv /\ [Next]_vars => Inv'
  BY TypedStep, SingleStep
<1>3. Inv => OneOrNoneThere
  BY SingleIs
<1> QED BY <1>1, <1>2, <1>3, PTL DEF Spec

-----------------------------------------------------------------------------
(* A runner that starts goes on *)

\* What is over is marked done, or is about to be, or the runner was stopped between the two; and
\* one that said it ended before all was done has a stage that is over and not marked.
MarkedAt(d, r) ==
  d.there => /\ d.cut \/ d.over = d.done \/ (d.place = "running" /\ r.step \in {"reduce", "mark"})
             /\ NothingToDo(d) /\ d.done # Stages => d.over # d.done
Marked == \A a \in Attempts : MarkedAt(dir[a], run[a])

LEMMA MarkedBut ==
  ASSUME Marked, NEW a \in Attempts, Others(a), MarkedAt(dir'[a], run'[a])
  PROVE  Marked'
BY DEF Marked, Others

LEMMA MarkedIs ==
  ASSUME Marked, NEW a \in Attempts
  PROVE  MarkedAt(dir[a], run[a])
BY DEF Marked

LEMMA MarkedSame ==
  ASSUME NEW d, NEW e, NEW r, MarkedAt(d, r), e.there => d.there, e.over = d.over, e.done = d.done, e.cut = d.cut,
         e.told = d.told \/ ~NothingToDo(e), e.place = d.place \/ d.place # "running"
  PROVE  MarkedAt(e, r)
BY DEF MarkedAt, NothingToDo

LEMMA MarkedCut ==
  ASSUME NEW d, NEW e, NEW r, NEW q, MarkedAt(d, r), e.there => d.there, CutBy(d, e, r), e.over = d.over, e.done = d.done,
         e.told = d.told \/ ~NothingToDo(e)
  PROVE  MarkedAt(e, q)
BY DEF MarkedAt, NothingToDo, CutBy

LEMMA MarkedStarts ==
  ASSUME TypedThere, Marked, NEW a \in Attempts, Starts(a)
  PROVE  Marked'
<1> DEFINE d == dir[a]
           e == dir'[a]
           q == run'[a]
<1>1. /\ Others(a) /\ d \in Dirs /\ d.there /\ d.place = "queued" /\ SameFlags(d, e) /\ SameRecord(d, e)
      /\ \/ e.told = d.told
         \/ Refused(d)
  BY DoesStarts
<1>2. MarkedAt(d, run[a])
  BY MarkedIs
<1>3. e.over = d.over /\ e.done = d.done /\ e.cut = d.cut
  BY <1>1 DEF SameFlags, SameRecord
<1> HIDE DEF d, e, q
<1>4. Refused(d) => d.over # d.done
  BY <1>1, CurrentIs DEF Refused
<1>5. MarkedAt(e, q)
  BY <1>1, <1>2, <1>3, <1>4 DEF MarkedAt, NothingToDo
<1> QED BY <1>1, <1>5, MarkedBut DEF e, q

LEMMA MarkedWorks ==
  ASSUME TypedThere, Shape, Marked, NEW a \in Attempts, Works(a) \/ Turns(a)
  PROVE  Marked'
<1> DEFINE d == dir[a]
           e == dir'[a]
           r == run[a]
           q == run'[a]
<1>1. /\ Others(a) /\ d.there /\ r.step = "job" /\ e.over = d.over /\ e.done = d.done
      /\ e.told = d.told \/ e.told.status = "running"
  <2>1. CASE Works(a)
    BY <2>1, DoesWorks
  <2>2. CASE Turns(a)
    <3>1. Others(a) /\ d.there /\ r.step = "job" /\ SameRecord(d, e) /\ e.told.status = "running"
      BY <2>2, DoesTurns
    <3> QED BY <3>1 DEF SameRecord
  <2> QED BY <2>1, <2>2
<1>2. d.place = "running"
  BY <1>1, RunsThere
<1>3. RunShape(d, r) /\ MarkedAt(d, r)
  BY ShapeIs, MarkedIs
<1> HIDE DEF d, e, r, q
<1>4. d.over = d.done
  BY <1>1, <1>2, <1>3 DEF RunShape
<1>5. MarkedAt(e, q)
  BY <1>1, <1>3, <1>4 DEF MarkedAt, NothingToDo
<1> QED BY <1>1, <1>5, MarkedBut DEF e, q

LEMMA MarkedJobEnds ==
  ASSUME TypedThere, Shape, Marked, NEW a \in Attempts, JobEnds(a)
  PROVE  Marked'
<1> DEFINE d == dir[a]
           e == dir'[a]
           r == run[a]
           q == run'[a]
<1>1. /\ Others(a) /\ d.there /\ e.place = d.place /\ e.done = d.done /\ e.over = d.over \cup {r.s}
      /\ r.step = "job" /\ r.s \in Stages /\ q.step \in {"reduce", "mark"}
  BY DoesJobEnds
<1>2. d.place = "running"
  BY <1>1, RunsThere
<1>3. RunShape(d, r)
  BY ShapeIs
<1> HIDE DEF d, e, r, q
<1>4. d.done = 1 .. (r.s - 1)
  BY <1>1, <1>2, <1>3 DEF RunShape
<1>5. r.s \notin e.done /\ r.s \in e.over
  BY <1>1, <1>4 DEF Stages
<1>6. MarkedAt(e, q)
  BY <1>1, <1>2, <1>5 DEF MarkedAt
<1> QED BY <1>1, <1>6, MarkedBut DEF e, q

LEMMA MarkedMarks ==
  ASSUME TypedThere, Shape, Marked, NEW a \in Attempts, Reduces(a) \/ Marks(a)
  PROVE  Marked'
<1> DEFINE d == dir[a]
           e == dir'[a]
           r == run[a]
           q == run'[a]
<1>0. RunShape(d, r) /\ MarkedAt(d, r)
  BY ShapeIs, MarkedIs
<1>1. CASE Reduces(a)
  <2>1. /\ Others(a) /\ d.there /\ e.place = d.place /\ e.done = d.done /\ e.over = d.over /\ e.told = d.told
        /\ r.step = "reduce" /\ q.step = "mark"
    BY <1>1, DoesReduces
  <2>2. d.place = "running"
    BY <2>1, RunsThere
  <2> HIDE DEF d, e, r, q
  <2>3. MarkedAt(e, q)
    BY <1>0, <2>1, <2>2 DEF MarkedAt, NothingToDo
  <2> QED BY <2>1, <2>3, MarkedBut DEF e, q
<1>2. CASE Marks(a)
  <2>1. /\ Others(a) /\ d.there /\ e.over = d.over /\ e.told = d.told
        /\ r.step = "mark" /\ r.s \in Stages /\ e.done = d.done \cup {r.s}
    BY <1>2, DoesMarks
  <2>2. d.place = "running"
    BY <2>1, RunsThere
  <2> HIDE DEF d, e, r, q
  <2>3. d.done = 1 .. (r.s - 1) /\ d.over = 1 .. r.s /\ (r.s # Final => ~NothingToDo(d))
    BY <1>0, <2>1, <2>2 DEF RunShape
  <2>4. e.done = 1 .. r.s
    BY <2>1, <2>3 DEF Stages
  <2>5. MarkedAt(e, q)
    BY <2>1, <2>3, <2>4 DEF MarkedAt, NothingToDo, Stages
  <2> QED BY <2>1, <2>5, MarkedBut DEF e, q
<1> QED BY <1>1, <1>2

LEMMA MarkedOut ==
  ASSUME TypedThere, Shape, Marked, NEW a \in Attempts,
         Ends(a) \/ Collapses(a) \/ Killed(a) \/ CanceledThere(a) \/ Purged(a)
  PROVE  Marked'
<1> DEFINE d == dir[a]
           e == dir'[a]
           r == run[a]
           q == run'[a]
<1>0. RunShape(d, r) /\ MarkedAt(d, r)
  BY ShapeIs, MarkedIs
<1>1. CASE Ends(a)
  <2>1. Others(a) /\ d.there /\ SameRecord(d, e) /\ r.step = "end"
    BY <1>1, DoesEnds
  <2>2. d.place = "running"
    BY <2>1, RunsThere
  <2> HIDE DEF d, e, r, q
  <2>3. d.done = Stages /\ d.over = Stages
    BY <1>0, <2>1, <2>2 DEF RunShape
  <2>4. MarkedAt(e, q)
    BY <2>1, <2>3 DEF MarkedAt, SameRecord
  <2> QED BY <2>1, <2>4, MarkedBut DEF e, q
<1>2. CASE Collapses(a)
  <2>1. Others(a) /\ ~d.there /\ SameFlags(d, e)
    BY <1>2, DoesCollapses
  <2>2. MarkedAt(e, q)
    BY <2>1 DEF MarkedAt, SameFlags
  <2> QED BY <2>1, <2>2, MarkedBut
<1>3. CASE Killed(a)
  <2>0. r.step = "job" => r.s \in Stages
    <3>1. d.there /\ d.place = "running"
      BY <1>3 DEF Killed
    <3> QED BY <1>0, <3>1 DEF RunShape
  <2>1. /\ Others(a) /\ e.there = d.there /\ CutBy(d, e, r) /\ SameRecord(d, e)
        /\ e.told = d.told \/ e.told.status = "interrupted"
    BY <1>3, <2>0, DoesKilled
  <2> HIDE DEF d, e, r, q
  <2>2. MarkedAt(e, q)
    BY <1>0, <2>1, MarkedCut DEF SameRecord, NothingToDo
  <2> QED BY <2>1, <2>2, MarkedBut DEF e, q
<1>4. CASE CanceledThere(a)
  <2>1. Others(a) /\ e.there = d.there /\ CutBy(d, e, r) /\ SameRecord(d, e) /\ e.told = d.told
    BY <1>4, DoesCanceledThere
  <2> HIDE DEF d, e, r, q
  <2>2. MarkedAt(e, q)
    BY <1>0, <2>1, MarkedCut DEF SameRecord
  <2> QED BY <2>1, <2>2, MarkedBut DEF e, q
<1>5. CASE Purged(a)
  <2>1. /\ Others(a) /\ q = r /\ d.there /\ e.place = d.place
        /\ \/ ~e.there
           \/ SameFlags(d, e) /\ SameRecord(d, e) /\ e.told = d.told
    BY <1>5, DoesPurged
  <2> HIDE DEF d, e, r, q
  <2>2. CASE ~e.there
    <3>1. MarkedAt(e, q)
      BY <2>2 DEF MarkedAt
    <3> QED BY <2>1, <3>1, MarkedBut DEF e, q
  <2>3. CASE SameFlags(d, e) /\ SameRecord(d, e) /\ e.told = d.told
    <3>1. MarkedAt(e, q)
      BY <1>0, <2>1, <2>3, MarkedSame DEF SameFlags, SameRecord
    <3> QED BY <2>1, <3>1, MarkedBut DEF e, q
  <2> QED BY <2>1, <2>2, <2>3
<1> QED BY <1>1, <1>2, <1>3, <1>4, <1>5

LEMMA MarkedStays ==
  ASSUME Marked, dir' = dir, run' = run
  PROVE  Marked'
BY DEF Marked

\* What the thread writes there is about the attempt, and not about its stages.
LEMMA MarkedOne ==
  ASSUME Marked, NEW n \in Attempts, OnlyDir(n), run' = run, dir'[n].there => dir[n].there,
         SameRecord(dir[n], dir'[n]), dir'[n].told = dir[n].told, dir'[n].cut = dir[n].cut,
         dir'[n].place = dir[n].place \/ dir[n].place # "running"
  PROVE  Marked'
<1>1. MarkedAt(dir[n], run[n])
  BY MarkedIs
<1>2. MarkedAt(dir'[n], run'[n])
  BY <1>1, MarkedSame DEF SameRecord
<1> QED BY <1>2, MarkedBut DEF Others, OnlyDir

LEMMA MarkedQueued ==
  ASSUME Typed, Marked, NEW n \in Attempts, run' = run, QueuedAgain(n)
  PROVE  Marked'
<1> DEFINE d == dir[n]
           e == dir'[n]
<1>1. /\ OnlyDir(n) /\ e.there = d.there /\ e.cut = d.cut
      /\ (d.place = "out" /\ e.place = "queued") \/ (d.place # "out" /\ e.place = d.place)
  BY QueuedIs
<1>2. SameRecord(d, e) /\ e.told = d.told
  BY QueuedIs
<1> QED BY <1>1, <1>2, MarkedOne

LEMMA MarkedThread ==
  ASSUME Typed, Shape, Marked, Follows \/ Lost
  PROVE  Marked'
<1> DEFINE n == here.n
           d == dir[n]
           e == dir'[n]
<1>0. n \in Attempts
  BY DEF Typed, TypedHere, Followers
<1>1. CASE Place
  <2>1. run' = run
    BY <1>1 DEF Place
  <2>2. CASE dir' = dir
    BY <2>1, <2>2, MarkedStays
  <2>3. CASE \E a \in Attempts :
               /\ OnlyDir(a) /\ dir'[a].there = dir[a].there /\ dir'[a].place = dir[a].place
               /\ SameRecord(dir[a], dir'[a]) /\ dir'[a].told = dir[a].told /\ dir'[a].cut = dir[a].cut
    BY <2>1, <2>3, MarkedOne
  <2>4. \/ dir' = dir
        \/ \E a \in Attempts :
               /\ OnlyDir(a) /\ dir'[a].there = dir[a].there /\ dir'[a].place = dir[a].place
               /\ SameRecord(dir[a], dir'[a]) /\ dir'[a].told = dir[a].told /\ dir'[a].cut = dir[a].cut
    BY <1>1, DoesPlace
  <2> QED BY <2>2, <2>3, <2>4
<1>2. CASE Upload
  <2>1. /\ run' = run /\ OnlyDir(n) /\ d \in Dirs /\ d.place = "out" /\ e.place = "out" /\ e.cut = d.cut
        /\ SameRecord(d, e) /\ e.told = d.told
    BY <1>2, DoesUpload
  <2>2. CASE d.there
    BY <1>0, <2>1, <2>2, MarkedOne
  <2>3. CASE ~d.there
    <3>1. DirShape(d)
      BY <1>0, ShapeIs
    <3>2. d.place \in {"out", "queued", "running"}
      BY <2>1 DEF Dirs
    <3>3. d = [NoDir EXCEPT !.place = d.place]
      BY <2>3, <3>1 DEF DirShape
    <3>4. d.over = {} /\ d.done = {} /\ d.told.status = "none"
      <4> HIDE DEF d
      <4> QED BY <3>2, <3>3, NoDirIs
    <3>5. MarkedAt(e, run'[n])
      BY <2>1, <3>4 DEF MarkedAt, NothingToDo, SameRecord
    <3> QED BY <1>0, <2>1, <3>5, MarkedBut DEF Others, OnlyDir
  <2> QED BY <2>2, <2>3
<1>3. CASE Fill \/ Ask \/ Read
  <2>1. UNCHANGED there
    BY <1>3, DoesFill, DoesAsk, DoesRead
  <2> QED BY <2>1, MarkedStays DEF there
<1>4. CASE Queue \/ Lost
  <2>1. run' = run /\ (dir' = dir \/ QueuedAgain(n))
    BY <1>4, DoesQueue, DoesLost
  <2> QED BY <1>0, <2>1, MarkedStays, MarkedQueued
<1>5. CASE Anew
  <2>1. Others(n) /\ e.there = d.there /\ CutBy(d, e, run[n]) /\ SameRecord(d, e) /\ e.told = d.told
    BY <1>5, DoesAnew
  <2>2. MarkedAt(d, run[n])
    BY <1>0, MarkedIs
  <2>3. MarkedAt(e, run'[n])
    BY <2>1, <2>2, MarkedCut DEF SameRecord
  <2> QED BY <1>0, <2>1, <2>3, MarkedBut
<1>6. CASE State
  <2>1. /\ run' = run /\ OnlyDir(n) /\ e.there = d.there /\ e.place = d.place /\ e.cut = d.cut
        /\ SameRecord(d, e) /\ e.told = d.told
    BY <1>6, DoesState
  <2> QED BY <1>0, <2>1, MarkedOne
<1> QED BY <1>1, <1>2, <1>3, <1>4, <1>5, <1>6 DEF Follows

LEMMA MarkedHear ==
  ASSUME Typed, Marked, Hear
  PROVE  Marked'
<1> DEFINE n == here.n
           d == dir[n]
           e == dir'[n]
<1>1. /\ n \in Attempts /\ Others(n)
      /\ \/ UNCHANGED there
         \/ e.there = d.there /\ CutBy(d, e, run[n]) /\ SameRecord(d, e) /\ e.told = d.told
  BY DoesHear
<1>2. CASE UNCHANGED there
  BY <1>2, MarkedStays DEF there
<1>3. CASE e.there = d.there /\ CutBy(d, e, run[n]) /\ SameRecord(d, e) /\ e.told = d.told
  <2>1. MarkedAt(d, run[n])
    BY <1>1, MarkedIs
  <2>2. MarkedAt(e, run'[n])
    BY <1>3, <2>1, MarkedCut DEF SameRecord
  <2> QED BY <1>1, <2>2, MarkedBut
<1> QED BY <1>1, <1>2, <1>3

LEMMA MarkedStep ==
  ASSUME Typed, Shape, Marked, [Next]_vars
  PROVE  Marked'
<1>1. ASSUME NEW a \in Attempts, Runner(a) \/ Turns(a) \/ Killed(a) \/ CanceledThere(a) \/ Purged(a)
      PROVE  Marked'
  BY <1>1, MarkedStarts, MarkedWorks, MarkedJobEnds, MarkedMarks, MarkedOut DEF Runner, Typed
<1>2. CASE Submit \/ Die
  <2>1. UNCHANGED there
    BY <1>2, DoesSubmit, DoesDie
  <2> QED BY <2>1, MarkedStays DEF there
<1>3. ASSUME NEW how \in {"canceled", "interrupted"}, EndJob(how)
      PROVE  Marked'
  <2>1. UNCHANGED there
    BY <1>3, DoesEndJob
  <2> QED BY <2>1, MarkedStays DEF there
<1>4. CASE UNCHANGED vars
  <2>1. dir' = dir /\ run' = run
    BY <1>4 DEF vars, there
  <2> QED BY <2>1, MarkedStays
<1> QED BY <1>1, <1>2, <1>3, <1>4, MarkedThread, MarkedHear DEF Next

LEMMA MarkedInit == Init => Marked
<1> SUFFICES ASSUME Init, NEW a \in Attempts PROVE MarkedAt(dir[a], run[a])
  BY DEF Marked
<1>1. ~dir[a].there
  BY DEF Init, NoDir
<1> QED BY <1>1 DEF MarkedAt

\* One that starts and does not run has nothing to do, or is refused: with stages left to do, that
\* is for the one that is over and not marked.
LEMMA StartsGoOn ==
  ASSUME Typed, Shape, Marked, NEW a \in Attempts, Starts(a), dir[a].done # Stages
  PROVE  dir'[a].place = "running" \/ (dir[a].cut /\ Refused(dir[a]))
<1> DEFINE d == dir[a]
<1>1. /\ d \in Dirs /\ d.there /\ d.place = "queued"
      /\ \/ NothingToDo(d)
         \/ Refused(d)
         \/ dir'[a].place = "running"
  BY DoesStarts DEF Typed
<1>2. DirShape(d) /\ MarkedAt(d, run[a])
  BY ShapeIs, MarkedIs
<1> HIDE DEF d
<1>3. PICK k \in 0 .. Final : d.done = 1 .. k /\ (d.over = 1 .. k \/ d.over = 1 .. (k + 1))
  BY <1>2 DEF DirShape
<1>4. d.over # d.done => Refused(d) /\ d.cut
  <2> SUFFICES ASSUME d.over # d.done PROVE Refused(d) /\ d.cut
    OBVIOUS
  <2>1. d.cut
    BY <1>1, <1>2 DEF MarkedAt
  <2>2. d.over = 1 .. (k + 1)
    BY <1>3
  <2>3. d.over \subseteq Stages
    BY <1>1 DEF Dirs
  <2>4. k + 1 \in 1 .. (k + 1)
    BY <1>3
  <2>5. k + 1 \in Stages /\ k + 1 \notin d.done
    BY <1>3, <2>2, <2>3, <2>4
  <2>6. /\ Current(d) \in 1 .. Final + 1
        /\ Current(d) <= Final => Current(d) \in Stages /\ Current(d) \notin d.done
        /\ Current(d) <= k + 1
    BY <1>1, <2>5, CurrentIs
  <2>7. k + 1 <= Final
    BY <2>5, StagesAre
  <2>8. Current(d) <= Final /\ Current(d) \in 1 .. (k + 1)
    BY <1>3, <2>6, <2>7, StagesAre
  <2> QED BY <2>1, <2>2, <2>8 DEF Refused
<1>5. Refused(d) => d.over # d.done
  BY <1>1, CurrentIs DEF Refused
<1>6. NothingToDo(d) => d.over # d.done
  BY <1>1, <1>2 DEF MarkedAt, d
<1> QED BY <1>1, <1>4, <1>5, <1>6 DEF d

\* A runner that starts where stages are left to run runs them, unless an earlier one was stopped
\* between the end of the job of the stage it is at and the mark of that stage.
THEOREM GoesOnHolds == Spec => GoesOn
<1> DEFINE Inv == Typed /\ Shape /\ Marked
<1>1. Init => Inv
  BY TypedInit, MarkedInit
<1>2. Inv /\ [Next]_vars => Inv'
  BY TypedStep, MarkedStep
<1> DEFINE On == \A a \in Attempts :
                   Starts(a) /\ dir[a].done # Stages => dir'[a].place = "running" \/ (dir[a].cut /\ Refused(dir[a]))
<1>3. Inv => On
  BY StartsGoOn
<1>4. Inv /\ [Next]_vars => [On]_vars
  BY <1>3
<1> QED BY <1>1, <1>2, <1>4, PTL DEF Spec, GoesOn

-----------------------------------------------------------------------------
(* What a stage keeps *)

Ok(s) == {e \in Elements(s) : <<s, e>> \notin Failing}
Bad(s) == {e \in Elements(s) : <<s, e>> \in Failing}
Of(q, k) == {q[i] : i \in 1 .. k}
All(q) == Of(q, Len(q))

\* What its journal says is done is in its parts, in the open one and in what was taken without a
\* sign of it, but for an attempt that is complete and lost its last part; and so are its errors.
Kept(d, s) ==
  /\ (UNION All(d.parts[s])) \cup d.open[s] \subseteq d.journal[s]
  /\ LastPurged(d.parts[s]) => Complete(d.told)
  /\ LastPurged(d.parts[s]) \/ d.journal[s] \subseteq (UNION All(d.parts[s])) \cup d.open[s] \cup d.taken[s]
Swept(d, s) == Complete(d.told) /\ d.errors[s] = <<>> /\ d.left[s].errors > 0
StageOk(d, s) ==
  /\ d.journal[s] \subseteq Ok(s) /\ All(d.errors[s]) \subseteq Bad(s)
  /\ Kept(d, s)
  /\ s \in d.over => d.journal[s] = Ok(s) /\ d.open[s] = {} /\ (Swept(d, s) \/ All(d.errors[s]) = Bad(s))
  /\ s \in d.done => s \in d.over /\ d.left[s].parts = Len(d.parts[s]) /\ (Swept(d, s) \/ d.left[s].errors = Len(d.errors[s]))
Sound ==
  \A a \in Attempts : dir[a].there =>
    /\ \A s \in Stages : StageOk(dir[a], s)
    /\ run[a].step = "job" => run[a].failed \subseteq All(dir[a].errors[run[a].s])

\* How the parts and the errors of a stage change.
PartsTaken(d, e, s) ==
  /\ Len(e.parts[s]) = Len(d.parts[s]) /\ Len(d.parts[s]) > 0
  /\ \A i \in 1 .. Len(d.parts[s]) : \/ e.parts[s][i] = d.parts[s][i]
                                     \/ /\ e.parts[s][i] = {}
                                        /\ LastPurged(e.parts[s]) \/ d.parts[s][i] \subseteq e.taken[s]
Grows(d, e, s) ==
  /\ Complete(d.told) => e.told = d.told
  /\ d.journal[s] \subseteq e.journal[s] /\ d.taken[s] \subseteq e.taken[s]
  /\ \/ /\ e.parts[s] = d.parts[s]
        /\ e.journal[s] \subseteq d.journal[s] \cup e.open[s] /\ d.open[s] \subseteq e.open[s]
     \/ /\ ~Complete(d.told) /\ d.open[s] # {} /\ e.parts[s] = Append(d.parts[s], d.open[s])
        /\ e.journal[s] = d.journal[s]
     \/ /\ Complete(d.told) /\ PartsTaken(d, e, s)
        /\ e.journal[s] = d.journal[s] /\ e.open[s] = d.open[s]
  /\ \/ e.errors[s] = d.errors[s] /\ (e.left[s] = d.left[s] \/ ~Complete(d.told))
     \/ ~Complete(d.told) /\ \E x \in Nat : e.errors[s] = Append(d.errors[s], x)
     \/ Complete(d.told) /\ e.errors[s] = <<>> /\ e.left[s] = d.left[s]

LEMMA OfAppend ==
  ASSUME NEW S, NEW q \in Seq(S), NEW x \in S, NEW k \in 0 .. Len(q)
  PROVE  Of(Append(q, x), k) = Of(q, k)
<1>1. \A i \in 1 .. k : Append(q, x)[i] = q[i]
  OBVIOUS
<1> QED BY <1>1 DEF Of

LEMMA AllAppend ==
  ASSUME NEW S, NEW q \in Seq(S), NEW x \in S
  PROVE  All(Append(q, x)) = All(q) \cup {x}
<1>1. Len(Append(q, x)) = Len(q) + 1 /\ Append(q, x)[Len(q) + 1] = x /\ \A i \in 1 .. Len(q) : Append(q, x)[i] = q[i]
  OBVIOUS
<1>2. 1 .. Len(q) + 1 = (1 .. Len(q)) \cup {Len(q) + 1}
  OBVIOUS
<1> QED BY <1>1, <1>2 DEF All, Of

LEMMA AllEmpty == All(<<>>) = {} /\ ~LastPurged(<<>>)
<1>1. Len(<<>>) = 0 /\ 1 .. 0 = {}
  OBVIOUS
<1> QED BY <1>1 DEF All, Of, LastPurged

LEMMA DirFacts ==
  ASSUME NEW d \in Dirs, NEW s \in Stages
  PROVE  /\ d.parts[s] \in Seq(SUBSET Nat) /\ d.errors[s] \in Seq(Nat) /\ d.open[s] \in SUBSET Nat
         /\ d.journal[s] \subseteq Elements(s) /\ d.left[s] \in Counts /\ d.told \in Tellings
         /\ d.parts \in [Stages -> Seq(SUBSET Nat)] /\ d.errors \in [Stages -> Seq(Nat)]
         /\ d.open \in [Stages -> SUBSET Nat] /\ d.journal \in [Stages -> SUBSET Nat]
BY DEF Dirs, Journals

\* A stage of which nothing changes.
LEMMA StageSame ==
  ASSUME NEW d, NEW e, NEW s, StageOk(d, s),
         e.journal[s] = d.journal[s], e.open[s] = d.open[s], e.parts[s] = d.parts[s], e.errors[s] = d.errors[s],
         e.left[s] = d.left[s], e.taken[s] = d.taken[s], s \in e.over <=> s \in d.over, s \in e.done <=> s \in d.done,
         Complete(d.told) => e.told = d.told
  PROVE  StageOk(e, s) /\ Grows(d, e, s)
<1>1. Kept(e, s)
  BY DEF Kept, StageOk
<1>2. Swept(d, s) => Swept(e, s)
  BY DEF Swept
<1> QED BY <1>1, <1>2 DEF StageOk, Grows

\* A part that is closed, of a stage that may end with it.
LEMMA StageClosed ==
  ASSUME NEW d \in Dirs, NEW e \in Dirs, NEW s \in Stages, StageOk(d, s), ~Complete(d.told), Closed(d, e, s),
         e.journal[s] = d.journal[s], e.errors[s] = d.errors[s],
         s \in d.over => s \in e.over,
         s \in e.over => d.journal[s] = Ok(s) /\ All(d.errors[s]) = Bad(s),
         e.left[s] = d.left[s], s \in e.done <=> s \in d.done
  PROVE  StageOk(e, s) /\ Grows(d, e, s)
<1> DEFINE q == d.parts[s]
           o == d.open[s]
<1>0. q \in Seq(SUBSET Nat) /\ o \in SUBSET Nat /\ e.parts[s] \in Seq(SUBSET Nat)
  BY DirFacts
<1>1. /\ ~LastPurged(q) /\ (UNION All(q)) \cup o \subseteq d.journal[s]
      /\ d.journal[s] \subseteq (UNION All(q)) \cup o \cup d.taken[s]
  BY DEF StageOk, Kept
<1>t. e.taken[s] = d.taken[s]
  BY DEF Closed, SameParts
<1>2. s \in d.over => o = {}
  BY DEF StageOk
<1>3. s \in d.done => s \in d.over /\ d.left[s].parts = Len(q) /\ d.left[s].errors = Len(d.errors[s])
  BY DEF StageOk, Swept
<1>4. CASE o = {}
  <2>1. e.parts[s] = q /\ e.open[s] = o
    BY <1>4 DEF Closed, SameParts
  <2>2. Kept(e, s)
    BY <1>1, <1>t, <2>1 DEF Kept
  <2>3. Grows(d, e, s)
    BY <1>t, <2>1 DEF Grows
  <2> QED BY <1>3, <1>4, <2>1, <2>2, <2>3 DEF StageOk
<1>5. CASE o # {}
  <2>1. e.parts[s] = Append(q, o) /\ e.open[s] = {}
    BY <1>5, DirFacts DEF Closed, SameParts
  <2>2. All(e.parts[s]) = All(q) \cup {o}
    BY <1>0, <2>1, AllAppend
  <2>3. ~LastPurged(e.parts[s])
    <3>1. Len(Append(q, o)) = Len(q) + 1 /\ Append(q, o)[Len(q) + 1] = o
      BY <1>0
    <3> QED BY <1>5, <2>1, <3>1 DEF LastPurged
  <2>4. Kept(e, s)
    BY <1>1, <1>t, <2>1, <2>2, <2>3 DEF Kept
  <2>5. s \notin d.over /\ s \notin d.done
    BY <1>2, <1>3, <1>5
  <2>6. Grows(d, e, s)
    BY <1>5, <1>t, <2>1 DEF Grows
  <2> QED BY <1>5, <2>1, <2>4, <2>5, <2>6 DEF StageOk
<1> QED BY <1>4, <1>5

\* An element that fails.
LEMMA StageFails ==
  ASSUME NEW d \in Dirs, NEW e \in Dirs, NEW s \in Stages, StageOk(d, s), ~Complete(d.told), s \notin d.over,
         NEW x \in Nat, x \in Bad(s), e.errors[s] = Append(d.errors[s], x),
         e.journal[s] = d.journal[s], e.open[s] = d.open[s], e.parts[s] = d.parts[s], e.taken[s] = d.taken[s],
         e.left[s] = d.left[s], e.over = d.over, e.done = d.done
  PROVE  StageOk(e, s) /\ Grows(d, e, s)
<1>0. d.errors[s] \in Seq(Nat)
  BY DirFacts
<1>1. All(e.errors[s]) = All(d.errors[s]) \cup {x}
  BY <1>0, AllAppend
<1>2. Kept(e, s)
  BY DEF StageOk, Kept
<1>3. s \notin d.done
  BY DEF StageOk
<1>4. Grows(d, e, s)
  BY DEF Grows
<1> QED BY <1>1, <1>2, <1>3, <1>4 DEF StageOk

\* One that does not.
LEMMA StageWorks ==
  ASSUME NEW d \in Dirs, NEW e \in Dirs, NEW s \in Stages, StageOk(d, s), ~Complete(d.told), s \notin d.over,
         NEW x \in Nat, x \in Ok(s), e.errors[s] = d.errors[s],
         e.journal[s] = d.journal[s] \cup {x}, e.open[s] = d.open[s] \cup {x}, e.parts[s] = d.parts[s],
         e.taken[s] = d.taken[s], e.left[s] = d.left[s], e.over = d.over, e.done = d.done
  PROVE  StageOk(e, s) /\ Grows(d, e, s)
<1>1. Kept(e, s)
  BY DEF StageOk, Kept
<1>2. s \notin d.done
  BY DEF StageOk
<1>3. Grows(d, e, s)
  BY DEF Grows
<1> QED BY <1>1, <1>2, <1>3 DEF StageOk

\* One that is marked.
LEMMA StageMarked ==
  ASSUME NEW d \in Dirs, NEW e \in Dirs, NEW s \in Stages, StageOk(d, s), ~Complete(d.told), s \in d.over,
         e.errors[s] = d.errors[s], e.journal[s] = d.journal[s], e.open[s] = d.open[s], e.parts[s] = d.parts[s],
         e.taken[s] = d.taken[s], e.left[s] = Leaves(d, s), e.over = d.over
  PROVE  StageOk(e, s) /\ Grows(d, e, s)
<1>1. Kept(e, s)
  BY DEF StageOk, Kept
<1>2. e.left[s].parts = Len(d.parts[s]) /\ e.left[s].errors = Len(d.errors[s])
  BY DEF Leaves
<1>3. d.journal[s] = Ok(s) /\ d.open[s] = {} /\ All(d.errors[s]) = Bad(s)
  BY DEF StageOk, Swept
<1> QED BY <1>1, <1>2, <1>3 DEF StageOk, Grows

\* What a purge takes of one.
LEMMA PartsTakenLast ==
  ASSUME NEW d \in Dirs, NEW e, NEW s \in Stages, PartsTaken(d, e, s), LastPurged(d.parts[s])
  PROVE  LastPurged(e.parts[s])
<1>1. Len(d.parts[s]) \in Nat
  BY DirFacts
<1>2. Len(d.parts[s]) \in 1 .. Len(d.parts[s]) /\ Len(e.parts[s]) = Len(d.parts[s])
  BY <1>1 DEF LastPurged, PartsTaken
<1> QED BY <1>2 DEF PartsTaken, LastPurged

LEMMA StageLosesParts ==
  ASSUME NEW d \in Dirs, NEW e \in Dirs, NEW s \in Stages, StageOk(d, s), Complete(d.told), e.told = d.told,
         e.errors[s] = d.errors[s], e.journal[s] = d.journal[s], e.open[s] = d.open[s],
         PartsTaken(d, e, s), d.taken[s] \subseteq e.taken[s],
         e.left[s] = d.left[s], e.over = d.over, e.done = d.done
  PROVE  StageOk(e, s) /\ Grows(d, e, s)
<1> DEFINE q == d.parts[s]
           p == e.parts[s]
<1>1. Kept(d, s)
  BY DEF StageOk
<1>2. LastPurged(q) => LastPurged(p)
  BY PartsTakenLast
<1>3. UNION All(p) \subseteq UNION All(q)
  BY DEF PartsTaken, All, Of
<1>4. LastPurged(p) \/ UNION All(q) \subseteq (UNION All(p)) \cup e.taken[s]
  BY DEF PartsTaken, All, Of
<1> HIDE DEF p, q
<1>5. Kept(e, s)
  BY <1>1, <1>2, <1>3, <1>4 DEF Kept, p, q
<1>6. Swept(d, s) => Swept(e, s)
  BY DEF Swept
<1>7. Grows(d, e, s)
  BY DEF Grows
<1>8. Len(e.parts[s]) = Len(d.parts[s])
  BY DEF PartsTaken
<1> QED BY <1>5, <1>6, <1>7, <1>8 DEF StageOk

LEMMA StageLosesErrors ==
  ASSUME NEW d \in Dirs, NEW e \in Dirs, NEW s \in Stages, StageOk(d, s), Complete(d.told), e.told = d.told, s \in d.done,
         e.errors[s] = <<>>, e.journal[s] = d.journal[s], e.open[s] = d.open[s], e.parts[s] = d.parts[s],
         e.taken[s] = d.taken[s], e.left[s] = d.left[s], e.over = d.over, e.done = d.done
  PROVE  StageOk(e, s) /\ Grows(d, e, s)
<1>1. Kept(e, s)
  BY DEF StageOk, Kept
<1>2. d.left[s].errors \in Nat /\ d.errors[s] \in Seq(Nat)
  BY DirFacts DEF Counts
<1>3. CASE d.left[s].errors > 0
  <2>1. Swept(e, s)
    BY <1>3 DEF Swept
  <2>2. All(e.errors[s]) = {}
    BY AllEmpty
  <2> QED BY <1>1, <2>1, <2>2 DEF StageOk, Grows
<1>4. CASE d.left[s].errors = 0
  <2>1. ~Swept(d, s)
    BY <1>4 DEF Swept
  <2>2. Len(d.errors[s]) = 0
    BY <1>4, <2>1 DEF StageOk
  <2>3. d.errors[s] = <<>>
    BY <1>2, <2>2, EmptySeq
  <2> QED BY <2>3, StageSame
<1> QED BY <1>2, <1>3, <1>4

LEMMA ClosedElse ==
  ASSUME NEW d \in Dirs, NEW e, NEW s \in Stages, Closed(d, e, s), NEW t \in Stages, t # s
  PROVE  e.open[t] = d.open[t] /\ e.parts[t] = d.parts[t] /\ e.taken[t] = d.taken[t]
BY DirFacts DEF Closed, SameParts

LEMMA AllOver ==
  ASSUME NEW a \in Attempts, NEW s, StageOk(dir[a], s), ~Complete(dir[a].told),
         run[a].failed \subseteq All(dir[a].errors[s]), ToDo(a, s) = {}
  PROVE  dir[a].journal[s] = Ok(s) /\ All(dir[a].errors[s]) = Bad(s)
<1> DEFINE J == dir[a].journal[s]
           F == run[a].failed
           B == All(dir[a].errors[s])
<1>1. Elements(s) \subseteq J \cup F
  BY DEF ToDo
<1>2. J \subseteq Ok(s) /\ B \subseteq Bad(s) /\ F \subseteq B
  BY DEF StageOk
<1> HIDE DEF J, F, B
<1>3. J = Ok(s) /\ B = Bad(s)
  BY <1>1, <1>2 DEF Ok, Bad
<1> QED BY <1>3 DEF J, B

\* What the others do to the stages of an attempt.
Advances(a) ==
  dir'[a].there =>
    /\ dir[a].there
    /\ \A s \in Stages : StageOk(dir'[a], s) /\ Grows(dir[a], dir'[a], s)
    /\ run'[a].step = "job" => run'[a].failed \subseteq All(dir'[a].errors[run'[a].s])

LEMMA NoRunIs == NoRun.step = "none"
BY DEF NoRun

LEMMA AdvancesStarts ==
  ASSUME Typed, Shape, Sound, NEW a \in Attempts, Starts(a)
  PROVE  Advances(a)
<1> DEFINE d == dir[a]
           e == dir'[a]
           q == run'[a]
<1>1. TypedThere /\ DirShape(d) /\ RunShape(d, run[a])
  BY ShapeIs DEF Typed
<1>2. /\ d \in Dirs /\ e \in Dirs /\ d.there /\ d.place = "queued"
      /\ SameRecord(d, e) /\ e.errors = d.errors
  BY <1>1, DoesStarts
<1>3. \/ q.step = "none" /\ SameParts(d, e) /\ e.told = d.told
      \/ ~NothingToDo(d) /\ Refused(d) /\ q.step = "none" /\ Closed(d, e, Current(d))
      \/ ~NothingToDo(d) /\ e.told = d.told /\ q.failed = {} /\ Current(d) <= Final /\ Closed(d, e, Current(d))
      \/ q.step = "end" /\ SameParts(d, e) /\ e.told = d.told
  <2>1. run[a].step = "none"
    BY <1>1, <1>2, NoRunIs DEF RunShape
  <2>2. \/ q = NoRun /\ SameParts(d, e) /\ e.told = d.told
        \/ ~NothingToDo(d) /\ Refused(d) /\ q = run[a] /\ Closed(d, e, Current(d))
        \/ /\ ~NothingToDo(d) /\ e.told = d.told /\ q.failed = {}
           /\ \/ Current(d) <= Final /\ Closed(d, e, Current(d))
              \/ q.step = "end" /\ SameParts(d, e)
    BY <1>1, DoesStarts
  <2> QED BY <2>1, <2>2, NoRunIs
<1> HIDE DEF d, e, q
<1>4. \A s \in Stages : StageOk(d, s)
  BY <1>2 DEF Sound, d
<1>5. ASSUME SameParts(d, e), e.told = d.told
      PROVE  \A s \in Stages : StageOk(e, s) /\ Grows(d, e, s)
  BY <1>2, <1>4, <1>5, StageSame DEF SameParts, SameRecord
<1>6. ASSUME ~NothingToDo(d), Current(d) <= Final, Closed(d, e, Current(d))
      PROVE  \A s \in Stages : StageOk(e, s) /\ Grows(d, e, s)
  <2>1. PICK c \in 1 .. Final + 1 : c = Current(d)
    BY <1>2, CurrentIs
  <2>2. c \in Stages /\ Closed(d, e, c) /\ ~Complete(d.told)
    <3>1. c \in Stages
      BY <1>6, <2>1, StagesAre
    <3> QED BY <1>6, <2>1, <3>1 DEF NothingToDo, Complete
  <2>3. StageOk(e, c) /\ Grows(d, e, c)
    <3>1. c \in e.over => d.journal[c] = Ok(c) /\ All(d.errors[c]) = Bad(c)
      BY <1>2, <1>4, <2>2 DEF StageOk, Swept, SameRecord
    <3> QED BY <1>2, <1>4, <2>2, <3>1, StageClosed DEF SameRecord
  <2>4. \A s \in Stages : s # c => StageOk(e, s) /\ Grows(d, e, s)
    BY <1>2, <1>4, <2>2, StageSame, ClosedElse DEF SameRecord
  <2> QED BY <2>3, <2>4
<1>7. \A s \in Stages : StageOk(e, s) /\ Grows(d, e, s)
  <2>1. Refused(d) => Current(d) <= Final
    BY DEF Refused
  <2> QED BY <1>3, <1>5, <1>6, <2>1
<1>8. q.step = "job" => q.failed = {}
  BY <1>3
<1> QED BY <1>2, <1>7, <1>8 DEF Advances, d, e, q

LEMMA RunningIs ==
  ASSUME Typed, Shape, Sound, NEW a \in Attempts, dir[a].there, run[a].step # "none"
  PROVE  /\ dir[a] \in Dirs /\ run[a] \in Runners /\ ~Complete(dir[a].told)
         /\ \A s \in Stages : StageOk(dir[a], s)
         /\ run[a].step = "job" => run[a].s \in Stages /\ run[a].s \notin dir[a].over
                                   /\ run[a].failed \subseteq All(dir[a].errors[run[a].s])
         /\ run[a].step \in {"reduce", "mark"} => run[a].s \in Stages /\ run[a].s \in dir[a].over
<1> DEFINE d == dir[a]
           r == run[a]
<1>1. d \in Dirs /\ r \in Runners /\ d.place = "running"
  BY RunsThere DEF Typed, TypedThere
<1>2. RunShape(d, r)
  BY ShapeIs
<1>3. ~Complete(d.told)
  BY <1>1, <1>2 DEF RunShape, NothingToDo, Complete
<1>4. r.step = "job" => r.s \in Stages /\ r.s \notin d.over
  <2>1. r.step = "job" => r.s \in Stages /\ d.over = 1 .. (r.s - 1)
    BY <1>1, <1>2 DEF RunShape
  <2> QED BY <2>1 DEF Stages
<1>5. r.step \in {"reduce", "mark"} => r.s \in Stages /\ r.s \in d.over
  <2>1. r.step \in {"reduce", "mark"} => r.s \in Stages /\ d.over = 1 .. r.s
    BY <1>1, <1>2 DEF RunShape
  <2> QED BY <2>1 DEF Stages
<1> QED BY <1>1, <1>3, <1>4, <1>5 DEF Sound

LEMMA AdvancesWorks ==
  ASSUME Typed, Shape, Sound, NEW a \in Attempts, Works(a)
  PROVE  Advances(a)
<1> DEFINE d == dir[a]
           e == dir'[a]
           r == run[a]
           q == run'[a]
<1>1. /\ d \in Dirs /\ e \in Dirs /\ r \in Runners /\ q \in Runners /\ d.there /\ e.told = d.told
      /\ e.over = d.over /\ e.done = d.done /\ e.left = d.left /\ e.parts = d.parts /\ e.taken = d.taken
      /\ r.step = "job" /\ q.step = "job" /\ q.s = r.s
  BY DoesWorks DEF Typed
<1>2. /\ ~Complete(d.told) /\ (\A s \in Stages : StageOk(d, s))
      /\ r.s \in Stages /\ r.s \notin d.over /\ r.failed \subseteq All(d.errors[r.s])
  BY <1>1, RunningIs
<1>3. PICK s \in Stages, x \in Nat :
        /\ r.s = s /\ x \in Elements(s) /\ x \notin d.journal[s]
        /\ FailsAt(d, e, r, q, s, x) \/ WorksAt(d, e, r, q, s, x)
  BY DoesWorks DEF Typed
<1> HIDE DEF d, e, r, q
<1>4. CASE FailsAt(d, e, r, q, s, x)
  <2>1. e.errors[s] = Append(d.errors[s], x) /\ \A t \in Stages : t # s => e.errors[t] = d.errors[t]
    BY <1>1, <1>4, DirFacts DEF FailsAt
  <2>2. x \in Bad(s) /\ e.journal = d.journal /\ e.open = d.open /\ q.failed = r.failed \cup {x}
    BY <1>3, <1>4 DEF Bad, FailsAt
  <2>3. StageOk(e, s) /\ Grows(d, e, s)
    <3>1. /\ e.journal[s] = d.journal[s] /\ e.open[s] = d.open[s] /\ e.parts[s] = d.parts[s] /\ e.left[s] = d.left[s]
          /\ e.taken[s] = d.taken[s] /\ s \notin d.over
      BY <1>1, <1>2, <1>3, <2>2
    <3>2. e.errors[s] = Append(d.errors[s], x)
      BY <2>1
    <3>3. StageOk(d, s) /\ ~Complete(d.told) /\ d \in Dirs /\ e \in Dirs /\ e.over = d.over /\ e.done = d.done
      BY <1>1, <1>2
    <3> QED BY <2>2, <3>1, <3>2, <3>3, StageFails
  <2>4. \A t \in Stages : t # s => StageOk(e, t) /\ Grows(d, e, t)
    BY <1>1, <1>2, <2>1, <2>2, StageSame
  <2>5. q.failed \subseteq All(e.errors[q.s])
    <3>1. d.errors[s] \in Seq(Nat)
      BY <1>1, DirFacts
    <3>2. All(e.errors[s]) = All(d.errors[s]) \cup {x}
      BY <2>1, <3>1, AllAppend
    <3> QED BY <1>1, <1>2, <1>3, <2>2, <3>2
  <2> QED BY <1>1, <2>3, <2>4, <2>5 DEF Advances, d, e, q
<1>5. CASE WorksAt(d, e, r, q, s, x)
  <2>1. /\ e.open[s] = d.open[s] \cup {x} /\ e.journal[s] = d.journal[s] \cup {x}
        /\ \A t \in Stages : t # s => e.open[t] = d.open[t] /\ e.journal[t] = d.journal[t]
    BY <1>1, <1>5, DirFacts DEF WorksAt
  <2>2. x \in Ok(s) /\ e.errors = d.errors /\ q = r
    BY <1>3, <1>5 DEF Ok, WorksAt
  <2>3. StageOk(e, s) /\ Grows(d, e, s)
    BY <1>1, <1>2, <1>3, <2>1, <2>2, StageWorks
  <2>4. \A t \in Stages : t # s => StageOk(e, t) /\ Grows(d, e, t)
    BY <1>1, <1>2, <2>1, <2>2, StageSame
  <2>5. q.failed \subseteq All(e.errors[q.s])
    BY <1>1, <1>2, <2>2
  <2> QED BY <1>1, <2>3, <2>4, <2>5 DEF Advances, d, e, q
<1> QED BY <1>3, <1>4, <1>5

LEMMA AdvancesTurns ==
  ASSUME Typed, Shape, Sound, NEW a \in Attempts, Turns(a)
  PROVE  Advances(a)
<1> DEFINE d == dir[a]
           e == dir'[a]
           r == run[a]
<1>1. /\ d \in Dirs /\ e \in Dirs /\ r \in Runners /\ run'[a] = r /\ d.there
      /\ SameRecord(d, e) /\ e.errors = d.errors
      /\ r.step = "job" /\ r.s \in Stages /\ (SameParts(d, e) \/ Closed(d, e, r.s))
  BY DoesTurns DEF Typed
<1>2. /\ ~Complete(d.told) /\ (\A s \in Stages : StageOk(d, s))
      /\ r.s \notin d.over /\ r.failed \subseteq All(d.errors[r.s])
  BY <1>1, RunningIs
<1> HIDE DEF d, e, r
<1>3. \A t \in Stages : t # r.s => StageOk(e, t) /\ Grows(d, e, t)
  <2> SUFFICES ASSUME NEW t \in Stages, t # r.s PROVE StageOk(e, t) /\ Grows(d, e, t)
    OBVIOUS
  <2>1. e.open[t] = d.open[t] /\ e.parts[t] = d.parts[t] /\ e.taken[t] = d.taken[t]
    BY <1>1, ClosedElse DEF SameParts
  <2> QED BY <1>1, <1>2, <2>1, StageSame DEF SameRecord
<1>4. StageOk(e, r.s) /\ Grows(d, e, r.s)
  <2>1. CASE SameParts(d, e)
    BY <1>1, <1>2, <2>1, StageSame DEF SameRecord, SameParts
  <2>2. CASE Closed(d, e, r.s)
    BY <1>1, <1>2, <2>2, StageClosed DEF SameRecord
  <2> QED BY <1>1, <2>1, <2>2
<1>5. r.failed \subseteq All(e.errors[r.s])
  BY <1>1, <1>2
<1> QED BY <1>1, <1>3, <1>4, <1>5 DEF Advances, d, e, r

LEMMA AdvancesJobEnds ==
  ASSUME Typed, Shape, Sound, NEW a \in Attempts, JobEnds(a)
  PROVE  Advances(a)
<1> DEFINE d == dir[a]
           e == dir'[a]
           r == run[a]
           q == run'[a]
<1>1. /\ d \in Dirs /\ e \in Dirs /\ d.there /\ e.errors = d.errors
      /\ e.journal = d.journal /\ e.done = d.done /\ e.left = d.left
      /\ r.step = "job" /\ r.s \in Stages /\ Closed(d, e, r.s)
      /\ e.over = d.over \cup {r.s} /\ ToDo(a, r.s) = {}
      /\ q.step \in {"reduce", "mark"}
  BY DoesJobEnds DEF Typed
<1>2. /\ ~Complete(d.told) /\ (\A s \in Stages : StageOk(d, s))
      /\ r.s \notin d.over /\ r.failed \subseteq All(d.errors[r.s])
  BY <1>1, RunningIs
<1>3. d.journal[r.s] = Ok(r.s) /\ All(d.errors[r.s]) = Bad(r.s)
  BY <1>1, <1>2, AllOver
<1> HIDE DEF d, e, r, q
<1>4. \A t \in Stages : t # r.s => StageOk(e, t) /\ Grows(d, e, t)
  <2> SUFFICES ASSUME NEW t \in Stages, t # r.s PROVE StageOk(e, t) /\ Grows(d, e, t)
    OBVIOUS
  <2>1. e.open[t] = d.open[t] /\ e.parts[t] = d.parts[t] /\ e.taken[t] = d.taken[t]
    BY <1>1, ClosedElse
  <2>2. t \in e.over <=> t \in d.over
    BY <1>1
  <2> QED BY <1>1, <1>2, <2>1, <2>2, StageSame
<1>5. StageOk(e, r.s) /\ Grows(d, e, r.s)
  BY <1>1, <1>2, <1>3, StageClosed
<1> QED BY <1>1, <1>4, <1>5 DEF Advances, d, e, r, q

LEMMA AdvancesReduces ==
  ASSUME Typed, Shape, Sound, NEW a \in Attempts, Reduces(a)
  PROVE  Advances(a)
<1> DEFINE d == dir[a]
           e == dir'[a]
           r == run[a]
           q == run'[a]
<1>1. /\ d \in Dirs /\ e \in Dirs /\ d.there /\ SameParts(d, e) /\ e.errors = d.errors /\ e.told = d.told
      /\ e.journal = d.journal /\ e.over = d.over /\ e.done = d.done /\ e.left = d.left
      /\ r.step = "reduce" /\ q.step = "mark"
  BY DoesReduces DEF Typed
<1>2. \A s \in Stages : StageOk(d, s)
  BY <1>1, RunningIs
<1> HIDE DEF d, e, r, q
<1>3. \A t \in Stages : StageOk(e, t) /\ Grows(d, e, t)
  BY <1>1, <1>2, StageSame DEF SameParts
<1> QED BY <1>1, <1>3 DEF Advances, d, e, r, q

LEMMA AdvancesMarks ==
  ASSUME Typed, Shape, Sound, NEW a \in Attempts, Marks(a)
  PROVE  Advances(a)
<1> DEFINE d == dir[a]
           e == dir'[a]
           r == run[a]
           q == run'[a]
<1>1. /\ d \in Dirs /\ e \in Dirs /\ d.there /\ SameParts(d, e) /\ e.errors = d.errors /\ e.told = d.told
      /\ e.journal = d.journal /\ e.over = d.over
      /\ r.step = "mark" /\ r.s \in Stages /\ e.left[r.s] = Leaves(d, r.s)
      /\ q.failed = {}
  BY DoesMarks DEF Typed
<1>2. e.done = d.done \cup {r.s} /\ \A t \in Stages : t # r.s => e.left[t] = d.left[t]
  BY DoesMarks DEF Typed
<1>3. /\ ~Complete(d.told) /\ (\A s \in Stages : StageOk(d, s)) /\ r.s \in d.over
  BY <1>1, RunningIs
<1> HIDE DEF d, e, r, q
<1>4. \A t \in Stages : t # r.s => StageOk(e, t) /\ Grows(d, e, t)
  <2> SUFFICES ASSUME NEW t \in Stages, t # r.s PROVE StageOk(e, t) /\ Grows(d, e, t)
    OBVIOUS
  <2>1. t \in e.done <=> t \in d.done
    BY <1>2
  <2> QED BY <1>1, <1>2, <1>3, <2>1, StageSame DEF SameParts
<1>5. StageOk(e, r.s) /\ Grows(d, e, r.s)
  BY <1>1, <1>3, StageMarked DEF SameParts
<1>6. e.there
  BY DoesMarks DEF Typed, SameFlags, d, e
<1> QED BY <1>1, <1>4, <1>5 DEF Advances, d, e, r, q

LEMMA AdvancesEnds ==
  ASSUME Typed, Shape, Sound, NEW a \in Attempts, Ends(a)
  PROVE  Advances(a)
<1> DEFINE d == dir[a]
           e == dir'[a]
<1>1. /\ d \in Dirs /\ e \in Dirs /\ d.there /\ SameRecord(d, e) /\ SameParts(d, e) /\ e.errors = d.errors
      /\ run[a].step = "end" /\ run'[a] = NoRun
  BY DoesEnds DEF Typed
<1>2. ~Complete(d.told) /\ (\A s \in Stages : StageOk(d, s))
  BY <1>1, RunningIs
<1> HIDE DEF d, e
<1>3. \A t \in Stages : StageOk(e, t) /\ Grows(d, e, t)
  BY <1>1, <1>2, StageSame DEF SameParts, SameRecord
<1> QED BY <1>1, <1>3, NoRunIs DEF Advances, d, e

LEMMA AdvancesOut ==
  ASSUME Typed, Shape, Sound, NEW a \in Attempts, Killed(a) \/ CanceledThere(a) \/ Collapses(a)
  PROVE  Advances(a)
<1> DEFINE d == dir[a]
           e == dir'[a]
           r == run[a]
<1>1. CASE Collapses(a)
  <2>1. ~dir'[a].there
    BY <1>1, DoesCollapses DEF Typed, SameFlags
  <2> QED BY <2>1 DEF Advances
<1>2. CASE CanceledThere(a)
  <2>1. /\ d.there /\ SameRecord(d, e) /\ SameParts(d, e) /\ e.errors = d.errors /\ e.told = d.told
        /\ run'[a] = NoRun
    BY <1>2, DoesCanceledThere DEF Typed
  <2>2. \A s \in Stages : StageOk(d, s)
    BY <2>1 DEF Sound
  <2> HIDE DEF d, e
  <2>3. \A t \in Stages : StageOk(e, t) /\ Grows(d, e, t)
    BY <2>1, <2>2, StageSame DEF SameParts, SameRecord
  <2> QED BY <2>1, <2>3, NoRunIs DEF Advances, d, e
<1>3. CASE Killed(a)
  <2>0. r.step = "job" => r.s \in Stages
    <3>1. d.there
      BY <1>3 DEF Killed
    <3> QED BY <3>1, RunningIs
  <2>1. /\ d \in Dirs /\ e \in Dirs /\ d.there /\ d.place = "running" /\ SameRecord(d, e) /\ e.errors = d.errors
        /\ run'[a] = NoRun
        /\ \/ SameParts(d, e) /\ e.told = d.told
           \/ r.step = "job" /\ Closed(d, e, r.s)
    BY <1>3, <2>0, DoesKilled DEF Typed
  <2>2. \A s \in Stages : StageOk(d, s)
    BY <2>1 DEF Sound
  <2>3. r.step = "job" => r.s \notin d.over /\ ~Complete(d.told)
    BY <2>1, RunningIs
  <2> HIDE DEF d, e, r
  <2>4. CASE SameParts(d, e) /\ e.told = d.told
    <3>1. \A t \in Stages : StageOk(e, t) /\ Grows(d, e, t)
      BY <2>1, <2>2, <2>4, StageSame DEF SameParts, SameRecord
    <3> QED BY <2>1, <3>1, NoRunIs DEF Advances, d, e
  <2>5. CASE r.step = "job" /\ Closed(d, e, r.s)
    <3>1. r.s \in Stages
      BY <2>0, <2>5
    <3>2. \A t \in Stages : t # r.s => StageOk(e, t) /\ Grows(d, e, t)
      BY <2>1, <2>2, <2>3, <2>5, <3>1, ClosedElse, StageSame DEF SameRecord
    <3>3. StageOk(e, r.s) /\ Grows(d, e, r.s)
      BY <2>1, <2>2, <2>3, <2>5, <3>1, StageClosed DEF SameRecord
    <3> QED BY <2>1, <3>2, <3>3, NoRunIs DEF Advances, d, e
  <2> QED BY <2>1, <2>4, <2>5
<1> QED BY <1>1, <1>2, <1>3

LEMMA AdvancesPurged ==
  ASSUME Typed, Shape, Sound, NEW a \in Attempts, Purged(a)
  PROVE  Advances(a)
<1> DEFINE d == dir[a]
           e == dir'[a]
<1>1. d \in Dirs /\ e \in Dirs /\ d.there /\ run' = run
  BY DoesPurged DEF Typed
<1>2. CASE ~e.there
  BY <1>2 DEF Advances
<1>3. CASE Complete(d.told) /\ SameRecord(d, e) /\ e.open = d.open /\ e.told = d.told
           /\ \E s \in Stages : TakenAt(d, e, s)
  <2>1. PICK s \in Stages : TakenAt(d, e, s)
    BY <1>3
  <2>2. \A t \in Stages : StageOk(d, t)
    BY <1>1 DEF Sound
  <2>3. d.done = Stages
    <3>1. DirShape(d)
      BY ShapeIs
    <3> QED BY <1>3, <3>1 DEF DirShape
  <2>4. run[a].step # "job"
    BY <1>1, <1>3, RunningIs
  <2> HIDE DEF d, e
  <2>5. CASE e.parts = d.parts /\ e.taken = d.taken /\ e.errors = [d.errors EXCEPT ![s] = <<>>]
    <3>1. e.errors[s] = <<>> /\ \A t \in Stages : t # s => e.errors[t] = d.errors[t]
      BY <1>1, <2>5, DirFacts
    <3>2. StageOk(e, s) /\ Grows(d, e, s)
      BY <1>1, <1>3, <2>2, <2>3, <2>5, <3>1, StageLosesErrors DEF SameRecord
    <3>3. \A t \in Stages : t # s => StageOk(e, t) /\ Grows(d, e, t)
      BY <1>1, <1>3, <2>2, <2>5, <3>1, StageSame DEF SameRecord
    <3> QED BY <1>1, <2>4, <3>2, <3>3 DEF Advances, d, e
  <2>6. CASE /\ e.errors = d.errors
             /\ \A t \in Stages : t # s => e.parts[t] = d.parts[t] /\ e.taken[t] = d.taken[t]
             /\ Len(e.parts[s]) = Len(d.parts[s])
             /\ Len(d.parts[s]) > 0
             /\ d.taken[s] \subseteq e.taken[s]
             /\ \A i \in DOMAIN d.parts[s] : \/ e.parts[s][i] = d.parts[s][i]
                                             \/ /\ e.parts[s][i] = {}
                                                /\ LastPurged(e.parts[s]) \/ d.parts[s][i] \subseteq e.taken[s]
    <3>0. DOMAIN d.parts[s] = 1 .. Len(d.parts[s])
      BY <1>1, DirFacts
    <3>1. PartsTaken(d, e, s)
      BY <2>6, <3>0 DEF PartsTaken
    <3>2. StageOk(e, s) /\ Grows(d, e, s)
      BY <1>1, <1>3, <2>2, <2>6, <3>1, StageLosesParts DEF SameRecord
    <3>3. \A t \in Stages : t # s => StageOk(e, t) /\ Grows(d, e, t)
      BY <1>1, <1>3, <2>2, <2>6, StageSame DEF SameRecord
    <3> QED BY <1>1, <2>4, <3>2, <3>3 DEF Advances, d, e
  <2> QED BY <2>1, <2>5, <2>6 DEF TakenAt
<1> QED BY <1>2, <1>3, DoesPurged DEF Typed

\* What the thread leaves as it is.
Sames(d, e) == SameRecord(d, e) /\ SameParts(d, e) /\ e.errors = d.errors /\ e.told = d.told
Untouched(b) == dir'[b].there =>
                  /\ dir[b].there /\ Sames(dir[b], dir'[b])
                  /\ run'[b] = run[b] \/ run'[b] = NoRun

LEMMA SamesSelf ==
  ASSUME NEW d, NEW e, e = d
  PROVE  Sames(d, e)
BY DEF Sames, SameRecord, SameParts

LEMMA SoundBut ==
  ASSUME Sound, NEW n \in Attempts, \A b \in Attempts : b # n => Untouched(b),
         Advances(n) \/ Untouched(n)
  PROVE  Sound'
<1> SUFFICES ASSUME NEW b \in Attempts, dir'[b].there
             PROVE  /\ \A s \in Stages : StageOk(dir'[b], s)
                    /\ run'[b].step = "job" => run'[b].failed \subseteq All(dir'[b].errors[run'[b].s])
  BY DEF Sound
<1>1. CASE Untouched(b)
  <2>1. /\ dir[b].there /\ Sames(dir[b], dir'[b])
        /\ run'[b] = run[b] \/ run'[b] = NoRun
    BY <1>1 DEF Untouched
  <2>2. \A s \in Stages : StageOk(dir[b], s)
    BY <2>1 DEF Sound
  <2>3. \A s \in Stages : StageOk(dir'[b], s)
    BY <2>1, <2>2, StageSame DEF Sames, SameRecord, SameParts
  <2>4. run'[b].step = "job" => run'[b] = run[b]
    BY <2>1, NoRunIs
  <2>5. run[b].step = "job" => run[b].failed \subseteq All(dir[b].errors[run[b].s])
    BY <2>1 DEF Sound
  <2>6. dir'[b].errors = dir[b].errors
    BY <2>1 DEF Sames
  <2> QED BY <2>3, <2>4, <2>5, <2>6
<1>2. CASE Advances(b)
  BY <1>2 DEF Advances
<1> QED BY <1>1, <1>2

LEMMA AdvancesAll ==
  ASSUME Typed, Shape, Sound, NEW a \in Attempts,
         Runner(a) \/ Turns(a) \/ Killed(a) \/ CanceledThere(a) \/ Purged(a)
  PROVE  Advances(a) /\ \A b \in Attempts : b # a => Untouched(b)
<1>1. Advances(a)
  BY AdvancesStarts, AdvancesWorks, AdvancesTurns, AdvancesJobEnds, AdvancesReduces, AdvancesMarks, AdvancesEnds,
     AdvancesOut, AdvancesPurged DEF Runner
<1>2. Others(a)
  BY CalmRunner DEF Typed
<1>3. \A b \in Attempts : b # a => Untouched(b)
  BY <1>2, SamesSelf DEF Others, Untouched
<1> QED BY <1>1, <1>3

LEMMA SoundStays ==
  ASSUME Sound, dir' = dir, run' = run
  PROVE  Sound'
BY DEF Sound

LEMMA UntouchedBut ==
  ASSUME NEW n \in Attempts, Others(n) \/ (OnlyDir(n) /\ run' = run)
  PROVE  \A b \in Attempts : b # n => Untouched(b)
BY SamesSelf DEF Others, OnlyDir, Untouched

LEMMA SoundOne ==
  ASSUME Sound, NEW n \in Attempts, Others(n) \/ (OnlyDir(n) /\ run' = run),
         run'[n] = run[n] \/ run'[n] = NoRun,
         dir'[n].there => dir[n].there, Sames(dir[n], dir'[n])
  PROVE  Sound'
<1>1. Untouched(n)
  BY DEF Untouched
<1> QED BY <1>1, UntouchedBut, SoundBut

LEMMA SoundQueued ==
  ASSUME Typed, Sound, run' = run, QueuedAgain(here.n)
  PROVE  Sound'
<1> DEFINE n == here.n
<1>1. n \in Attempts
  BY DEF Typed, TypedHere, Followers
<1>2. /\ OnlyDir(n) /\ dir'[n].there = dir[n].there
      /\ SameRecord(dir[n], dir'[n]) /\ SameParts(dir[n], dir'[n])
      /\ dir'[n].errors = dir[n].errors /\ dir'[n].told = dir[n].told
  BY <1>1, QueuedIs
<1>3. Sames(dir[n], dir'[n])
  BY <1>2 DEF Sames
<1> QED BY <1>1, <1>2, <1>3, SoundOne

LEMMA SoundPlace ==
  ASSUME Typed, Sound, Place
  PROVE  Sound'
<1>1. run' = run
  BY DoesPlace
<1>2. \/ dir' = dir
      \/ \E a \in Attempts :
           /\ OnlyDir(a) /\ dir'[a].there = dir[a].there
           /\ SameRecord(dir[a], dir'[a]) /\ SameParts(dir[a], dir'[a])
           /\ dir'[a].errors = dir[a].errors /\ dir'[a].told = dir[a].told
  BY DoesPlace
<1>3. CASE dir' = dir
  BY <1>1, <1>3, SoundStays
<1>4. ASSUME NEW a \in Attempts, OnlyDir(a), dir'[a].there = dir[a].there,
             SameRecord(dir[a], dir'[a]), SameParts(dir[a], dir'[a]),
             dir'[a].errors = dir[a].errors, dir'[a].told = dir[a].told
      PROVE  Sound'
  <2>1. Sames(dir[a], dir'[a])
    BY <1>4 DEF Sames
  <2> QED BY <1>1, <1>4, <2>1, SoundOne
<1> QED BY <1>2, <1>3, <1>4

LEMMA StageNone ==
  ASSUME NEW d, d.over = {}, d.done = {},
         \A s \in Stages : d.journal[s] = {} /\ d.open[s] = {} /\ d.parts[s] = <<>> /\ d.errors[s] = <<>>
  PROVE  \A s \in Stages : StageOk(d, s)
<1> SUFFICES ASSUME NEW s \in Stages PROVE StageOk(d, s)
  OBVIOUS
<1>1. All(d.parts[s]) = {} /\ ~LastPurged(d.parts[s]) /\ All(d.errors[s]) = {}
  BY AllEmpty
<1>2. Kept(d, s)
  BY <1>1 DEF Kept
<1> QED BY <1>1, <1>2 DEF StageOk

LEMMA SoundUpload ==
  ASSUME Typed, Shape, Sound, Upload
  PROVE  Sound'
<1> DEFINE n == here.n
           e == dir'[n]
<1>1. /\ run' = run /\ n \in Attempts /\ OnlyDir(n) /\ dir[n].place = "out"
      /\ SameRecord(dir[n], e) /\ SameParts(dir[n], e) /\ e.errors = dir[n].errors
  BY DoesUpload
<1>2. CASE dir[n].there
  <2>1. e.told = dir[n].told
    BY DoesUpload
  <2>2. Sames(dir[n], e)
    BY <1>1, <2>1 DEF Sames
  <2> QED BY <1>1, <1>2, <2>2, SoundOne
<1>3. CASE ~dir[n].there
  <2>1. dir[n] = [NoDir EXCEPT !.place = dir[n].place] /\ RunShape(dir[n], run[n])
    BY <1>1, <1>3, ShapeIs DEF DirShape
  <2>2. /\ dir[n].over = {} /\ dir[n].done = {}
        /\ \A s \in Stages : dir[n].journal[s] = {} /\ dir[n].open[s] = {} /\ dir[n].parts[s] = <<>> /\ dir[n].errors[s] = <<>>
    BY <1>1, <2>1, NoDirIs
  <2>3. /\ e.over = {} /\ e.done = {}
        /\ \A s \in Stages : e.journal[s] = {} /\ e.open[s] = {} /\ e.parts[s] = <<>> /\ e.errors[s] = <<>>
    BY <1>1, <2>2 DEF SameRecord, SameParts
  <2>4. \A s \in Stages : StageOk(e, s)
    BY <2>3, StageNone
  <2>5. run[n].step = "none"
    BY <1>1, <2>1, NoRunIs DEF RunShape
  <2>6. \A b \in Attempts : b # n /\ dir'[b].there =>
           /\ \A s \in Stages : StageOk(dir'[b], s)
           /\ run'[b].step = "job" => run'[b].failed \subseteq All(dir'[b].errors[run'[b].s])
    BY <1>1 DEF Sound, OnlyDir
  <2> QED BY <1>1, <2>4, <2>5, <2>6 DEF Sound
<1> QED BY <1>2, <1>3

LEMMA SoundStep ==
  ASSUME Typed, Shape, Sound, [Next]_vars
  PROVE  Sound'
<1>1. ASSUME NEW a \in Attempts, Runner(a) \/ Turns(a) \/ Killed(a) \/ CanceledThere(a) \/ Purged(a)
      PROVE  Sound'
  <2>1. Advances(a) /\ \A b \in Attempts : b # a => Untouched(b)
    BY <1>1, AdvancesAll
  <2> QED BY <2>1, SoundBut
<1>2. CASE Fill \/ Ask \/ Read \/ Submit \/ Die \/ \E how \in {"canceled", "interrupted"} : EndJob(how)
  <2>1. dir' = dir /\ run' = run
    BY <1>2, DoesFill, DoesAsk, DoesRead, DoesSubmit, DoesDie, DoesEndJob DEF there
  <2> QED BY <2>1, SoundStays
<1>3. CASE Queue
  <2>1. run' = run /\ (dir' = dir \/ QueuedAgain(here.n))
    BY <1>3, DoesQueue
  <2> QED BY <2>1, SoundStays, SoundQueued
<1>4. CASE Lost
  <2>1. run' = run /\ (dir' = dir \/ QueuedAgain(here.n))
    BY <1>4, DoesLost
  <2> QED BY <2>1, SoundStays, SoundQueued
<1>5. CASE State
  <2> DEFINE n == here.n
  <2>1. /\ run' = run /\ n \in Attempts /\ OnlyDir(n) /\ dir'[n].there = dir[n].there
        /\ SameRecord(dir[n], dir'[n]) /\ SameParts(dir[n], dir'[n])
        /\ dir'[n].errors = dir[n].errors /\ dir'[n].told = dir[n].told
    BY <1>5, DoesState
  <2>2. Sames(dir[n], dir'[n])
    BY <2>1 DEF Sames
  <2> QED BY <2>1, <2>2, SoundOne
<1>6. CASE Anew
  <2> DEFINE n == here.n
  <2>1. /\ n \in Attempts /\ Others(n) /\ run'[n] = NoRun /\ dir'[n].there = dir[n].there
        /\ SameRecord(dir[n], dir'[n]) /\ SameParts(dir[n], dir'[n])
        /\ dir'[n].errors = dir[n].errors /\ dir'[n].told = dir[n].told
    BY <1>6, DoesAnew
  <2>2. Sames(dir[n], dir'[n])
    BY <2>1 DEF Sames
  <2> QED BY <2>1, <2>2, SoundOne
<1>7. CASE Hear
  <2> DEFINE n == here.n
  <2>1. /\ n \in Attempts /\ Others(n)
        /\ \/ UNCHANGED there
           \/ /\ run'[n] = NoRun /\ dir'[n].there = dir[n].there
              /\ SameRecord(dir[n], dir'[n]) /\ SameParts(dir[n], dir'[n])
              /\ dir'[n].errors = dir[n].errors /\ dir'[n].told = dir[n].told
    BY <1>7, DoesHear
  <2>2. CASE UNCHANGED there
    BY <2>2, SoundStays DEF there
  <2>3. CASE /\ run'[n] = NoRun /\ dir'[n].there = dir[n].there
             /\ SameRecord(dir[n], dir'[n]) /\ SameParts(dir[n], dir'[n])
             /\ dir'[n].errors = dir[n].errors /\ dir'[n].told = dir[n].told
    <3>1. Sames(dir[n], dir'[n])
      BY <2>3 DEF Sames
    <3> QED BY <2>1, <2>3, <3>1, SoundOne
  <2> QED BY <2>1, <2>2, <2>3
<1>8. CASE UNCHANGED vars
  BY <1>8, SoundStays DEF vars, there
<1> QED BY <1>1, <1>2, <1>3, <1>4, <1>5, <1>6, <1>7, <1>8, SoundPlace, SoundUpload DEF Next, Follows

LEMMA SoundInit == Init => Sound
BY DEF Init, Sound, NoDir

-----------------------------------------------------------------------------
(* What came back *)

\* What is done is in what came, in what is open or comes after the last part that was counted, or was
\* taken without a sign of it, unless the last part is gone and was not counted; of the errors, the
\* lines that were counted came.
Rest(q, k) == UNION {q[i] : i \in (k + 1) .. Len(q)}
SyncedParts(d, s, k, g) ==
  /\ k <= Len(d.parts[s]) /\ g \subseteq d.journal[s]
  /\ \/ LastPurged(d.parts[s]) /\ k < Len(d.parts[s])
     \/ d.journal[s] \subseteq g \cup d.taken[s] \cup d.open[s] \cup Rest(d.parts[s], k)
SyncedErrors(d, s, k, g) ==
  \/ Swept(d, s)
  \/ k <= Len(d.errors[s]) /\ g = Of(d.errors[s], k)
Synced(d, h, g) ==
  /\ \A s \in Streamed : SyncedParts(d, s, h.parts[s], g.results[s])
  /\ \A s \in Stages : SyncedErrors(d, s, h.errors[s], g.errors[s])
Zeroed(h) == (\A s \in Stages : h.parts[s] = 0 /\ h.errors[s] = 0) /\ h.reduced = Reduced
Nothing(g) == (\A s \in Stages : g.results[s] = {} /\ g.errors[s] = {}) /\ g.reduced = {}
AllIn(g) ==
  /\ \A s \in Streamed : g.results[s] \subseteq Ok(s) /\ Ok(s) \ g.results[s] \subseteq g.taken[s]
  /\ \A s \in Stages : g.errors[s] = Bad(s)
  /\ g.reduced = Reduced
Reading == {"fill", "submit", "follow", "read", "state"}

\* The job has what the thread counted, of the attempt it follows.
InStep ==
  /\ pc = "off" => job # "running"
  /\ pc \in {"place", "upload"} => here.first
  /\ here.first => Zeroed(here) /\ (job = "running" => Nothing(got))
  /\ job = "running" => got.reduced = Reduced \ here.reduced
  /\ pc \in Reading /\ job = "running" => (dir[here.n].there => Synced(dir[here.n], here, got))
  /\ pc = "read" => (dir[here.n].there /\ Complete(told) => dir[here.n].told = told)
  /\ pc \in {"read", "state"} => ~here.first
  /\ job = "completed" => pc = "off" /\ AllIn(got)

LEMMA RestAppend ==
  ASSUME NEW q \in Seq(SUBSET Nat), NEW x \in SUBSET Nat, NEW k \in Nat, k <= Len(q)
  PROVE  Rest(Append(q, x), k) = Rest(q, k) \cup x
<1>1. Len(Append(q, x)) = Len(q) + 1 /\ Append(q, x)[Len(q) + 1] = x /\ \A i \in 1 .. Len(q) : Append(q, x)[i] = q[i]
  OBVIOUS
<1>2. Len(q) \in Nat /\ (k + 1) .. (Len(q) + 1) = ((k + 1) .. Len(q)) \cup {Len(q) + 1}
  OBVIOUS
<1>3. \A i \in (k + 1) .. Len(q) : Append(q, x)[i] = q[i]
  BY <1>1, <1>2
<1>4. Rest(Append(q, x), k) = UNION {Append(q, x)[i] : i \in ((k + 1) .. Len(q)) \cup {Len(q) + 1}}
  BY <1>1, <1>2 DEF Rest
<1> QED BY <1>1, <1>3, <1>4 DEF Rest

LEMMA SyncedPartsGrow ==
  ASSUME NEW d \in Dirs, NEW e \in Dirs, NEW s \in Stages, StageOk(d, s), Complete(d.told) => s \in d.over,
         Grows(d, e, s), NEW k \in Nat, NEW g, SyncedParts(d, s, k, g)
  PROVE  SyncedParts(e, s, k, g)
<1> DEFINE q == d.parts[s]
           o == d.open[s]
           p == e.parts[s]
<1>0. q \in Seq(SUBSET Nat) /\ o \in SUBSET Nat /\ p \in Seq(SUBSET Nat) /\ Len(q) \in Nat
  BY DirFacts
<1>a. /\ k <= Len(q) /\ g \subseteq d.journal[s]
      /\ \/ LastPurged(q) /\ k < Len(q)
         \/ d.journal[s] \subseteq g \cup d.taken[s] \cup o \cup Rest(q, k)
  BY DEF SyncedParts
<1>b. d.journal[s] \subseteq e.journal[s] /\ d.taken[s] \subseteq e.taken[s]
  BY DEF Grows
<1>1. CASE p = q /\ e.journal[s] \subseteq d.journal[s] \cup e.open[s] /\ o \subseteq e.open[s]
  <2> HIDE DEF q, o
  <2> QED BY <1>1, <1>a, <1>b DEF SyncedParts, q
<1>2. CASE ~Complete(d.told) /\ o # {} /\ p = Append(q, o) /\ e.journal[s] = d.journal[s]
  <2>1. ~LastPurged(q)
    BY <1>2 DEF StageOk, Kept
  <2> HIDE DEF q, o, p
  <2>r. Rest(Append(q, o), k) = Rest(q, k) \cup o
    <3>1. q \in Seq(SUBSET Nat) /\ o \in SUBSET Nat /\ k \in Nat /\ k <= Len(q)
      BY <1>0, <1>a
    <3> QED BY ONLY <3>1, RestAppend
  <2>l. Len(Append(q, o)) = Len(q) + 1
    BY ONLY <1>0
  <2>2. Rest(p, k) = Rest(q, k) \cup o /\ Len(p) = Len(q) + 1
    BY <1>2, <2>r, <2>l
  <2>3. k <= Len(p)
    BY <1>0, <1>a, <2>2
  <2>4. d.journal[s] \subseteq g \cup e.taken[s] \cup Rest(p, k)
    BY <1>a, <1>b, <2>1, <2>2
  <2> QED BY <1>2, <1>a, <2>3, <2>4 DEF SyncedParts, p
<1>3. CASE Complete(d.told) /\ PartsTaken(d, e, s) /\ e.journal[s] = d.journal[s] /\ e.open[s] = o
  <2>1. Len(p) = Len(q)
    BY <1>3 DEF PartsTaken
  <2>2. LastPurged(q) => LastPurged(p)
    BY <1>3, PartsTakenLast
  <2>3. CASE LastPurged(p) /\ k < Len(q)
    BY <1>3, <1>a, <2>1, <2>3 DEF SyncedParts
  <2>4. CASE ~LastPurged(p) \/ k = Len(q)
    <3>1. d.journal[s] \subseteq g \cup d.taken[s] \cup o \cup Rest(q, k)
      BY <1>0, <1>a, <2>2, <2>4
    <3>2. Rest(q, k) \subseteq Rest(p, k) \cup e.taken[s]
      <4>1. CASE k = Len(q)
        <5>1. (k + 1) .. Len(q) = {}
          BY <1>0, <4>1
        <5> QED BY <5>1 DEF Rest
      <4>2. CASE ~LastPurged(p)
        <5>1. \A i \in (k + 1) .. Len(q) : q[i] \subseteq p[i] \cup e.taken[s]
          <6>1. \A i \in (k + 1) .. Len(q) : i \in 1 .. Len(q)
            BY <1>0
          <6> QED BY <1>3, <4>2, <6>1 DEF PartsTaken
        <5> HIDE DEF p, q
        <5> QED BY <2>1, <5>1 DEF Rest
      <4> QED BY <2>4, <4>1, <4>2
    <3> HIDE DEF p, q, o
    <3> QED BY <1>3, <1>a, <1>b, <2>1, <3>1, <3>2 DEF SyncedParts, p
  <2> QED BY <1>0, <1>a, <2>3, <2>4
<1> QED BY <1>1, <1>2, <1>3 DEF Grows

LEMMA SyncedErrorsGrow ==
  ASSUME NEW d \in Dirs, NEW e \in Dirs, NEW s \in Stages, StageOk(d, s), Complete(d.told) => s \in d.done,
         Grows(d, e, s), NEW k \in Nat, NEW g, SyncedErrors(d, s, k, g)
  PROVE  SyncedErrors(e, s, k, g)
<1> DEFINE q == d.errors[s]
<1>0. q \in Seq(Nat) /\ d.left[s].errors \in Nat
  BY DirFacts DEF Counts
<1>1. CASE Swept(d, s)
  <2>1. Complete(d.told) /\ e.told = d.told /\ e.left[s] = d.left[s] /\ e.errors[s] = <<>>
    BY <1>1 DEF Swept, Grows
  <2>2. Swept(e, s)
    BY <1>1, <2>1 DEF Swept
  <2> QED BY <2>2 DEF SyncedErrors
<1>2. CASE ~Swept(d, s)
  <2>1. k <= Len(q) /\ g = Of(q, k)
    BY <1>2 DEF SyncedErrors
  <2>2. CASE e.errors[s] = q
    BY <2>1, <2>2 DEF SyncedErrors
  <2>3. CASE \E x \in Nat : e.errors[s] = Append(q, x)
    <3>1. PICK x \in Nat : e.errors[s] = Append(q, x)
      BY <2>3
    <3>2. k \in 0 .. Len(q) /\ Len(Append(q, x)) = Len(q) + 1
      BY <1>0, <2>1
    <3>3. Of(Append(q, x), k) = Of(q, k) /\ k <= Len(Append(q, x))
      BY <1>0, <3>2, OfAppend
    <3> QED BY <2>1, <3>1, <3>3 DEF SyncedErrors
  <2>4. CASE Complete(d.told) /\ e.errors[s] = <<>> /\ e.left[s] = d.left[s]
    <3>1. CASE d.left[s].errors > 0
      <4>1. Swept(e, s)
        BY <2>4, <3>1 DEF Swept, Grows
      <4> QED BY <4>1 DEF SyncedErrors
    <3>2. CASE d.left[s].errors = 0
      <4>1. Len(q) = 0
        BY <1>2, <2>4, <3>2 DEF StageOk
      <4>2. q = <<>>
        BY <1>0, <4>1, EmptySeq
      <4> QED BY <2>2, <2>4, <4>2
    <3> QED BY <1>0, <3>1, <3>2
  <2> QED BY <2>2, <2>3, <2>4 DEF Grows
<1> QED BY <1>1, <1>2

LEMMA CompleteIs ==
  ASSUME Shape, Sound, NEW n \in Attempts, dir[n].there
  PROVE  /\ \A s \in Stages : StageOk(dir[n], s)
         /\ Complete(dir[n].told) => dir[n].done = Stages /\ dir[n].told.left = dir[n].left
         /\ Complete(dir[n].told) => \A s \in Stages : s \in dir[n].done /\ s \in dir[n].over
<1>1. DirShape(dir[n])
  BY ShapeIs
<1>2. \A s \in Stages : StageOk(dir[n], s)
  BY DEF Sound
<1>3. Complete(dir[n].told) => dir[n].done = Stages /\ dir[n].told.left = dir[n].left
  BY <1>1 DEF DirShape
<1>4. Complete(dir[n].told) => \A s \in Stages : s \in dir[n].done /\ s \in dir[n].over
  BY <1>2, <1>3 DEF StageOk
<1> QED BY <1>2, <1>3, <1>4

LEMMA ZeroSynced ==
  ASSUME NEW d \in Dirs, NEW h, NEW g, Zeroed(h), Nothing(g), \A s \in Stages : Kept(d, s)
  PROVE  Synced(d, h, g)
<1>1. Streamed \subseteq Stages
  BY CampaignAssumption
<1>2. ASSUME NEW s \in Stages
      PROVE  SyncedParts(d, s, h.parts[s], g.results[s])
  <2>1. d.parts[s] \in Seq(SUBSET Nat)
    BY DirFacts
  <2>2. h.parts[s] = 0 /\ g.results[s] = {}
    BY DEF Zeroed, Nothing
  <2>3. Rest(d.parts[s], 0) = UNION All(d.parts[s]) /\ 0 <= Len(d.parts[s]) /\ (LastPurged(d.parts[s]) => 0 < Len(d.parts[s]))
    BY <2>1 DEF All, Of, Rest, LastPurged
  <2>4. Kept(d, s)
    OBVIOUS
  <2> QED BY <2>2, <2>3, <2>4 DEF SyncedParts, Kept
<1>3. ASSUME NEW s \in Stages
      PROVE  SyncedErrors(d, s, h.errors[s], g.errors[s])
  <2>1. d.errors[s] \in Seq(Nat)
    BY DirFacts
  <2>2. h.errors[s] = 0 /\ g.errors[s] = {}
    BY DEF Zeroed, Nothing
  <2>3. Of(d.errors[s], 0) = {} /\ 0 <= Len(d.errors[s])
    BY <2>1 DEF Of
  <2> QED BY <2>2, <2>3 DEF SyncedErrors
<1> QED BY <1>1, <1>2, <1>3 DEF Synced

LEMMA SyncedSame ==
  ASSUME NEW d, NEW e, NEW h, NEW k, NEW g, Synced(d, h, g), Sames(d, e), SameCounts(h, k)
  PROVE  Synced(e, k, g)
<1>1. e.parts = d.parts /\ e.errors = d.errors /\ e.left = d.left /\ e.told = d.told
      /\ e.journal = d.journal /\ e.open = d.open /\ e.taken = d.taken
      /\ k.parts = h.parts /\ k.errors = h.errors
  BY DEF Sames, SameParts, SameRecord, SameCounts
<1>2. \A s \in Streamed : SyncedParts(e, s, k.parts[s], g.results[s])
  BY <1>1 DEF Synced, SyncedParts
<1>3. \A s \in Stages : SyncedErrors(e, s, k.errors[s], g.errors[s])
  BY <1>1 DEF Synced, SyncedErrors, Swept
<1> QED BY <1>2, <1>3 DEF Synced

LEMMA SyncedGrow ==
  ASSUME Typed, Shape, Sound, NEW n \in Attempts, Advances(n), dir'[n] \in Dirs, dir'[n].there, NEW h \in Followers, NEW g,
         Synced(dir[n], h, g)
  PROVE  Synced(dir'[n], h, g)
<1> DEFINE d == dir[n]
           e == dir'[n]
<1>1. d.there /\ d \in Dirs /\ e \in Dirs /\ \A s \in Stages : Grows(d, e, s)
  BY DEF Advances, Typed, TypedThere
<1>2. /\ \A s \in Stages : StageOk(d, s)
      /\ Complete(d.told) => \A s \in Stages : s \in d.done /\ s \in d.over
  BY <1>1, CompleteIs
<1>3. Streamed \subseteq Stages /\ h.parts \in [Stages -> Nat] /\ h.errors \in [Stages -> Nat]
  BY CampaignAssumption DEF Followers
<1> HIDE DEF d, e
<1>4. ASSUME NEW s \in Streamed
      PROVE  SyncedParts(e, s, h.parts[s], g.results[s])
  <2>1. s \in Stages /\ h.parts[s] \in Nat /\ SyncedParts(d, s, h.parts[s], g.results[s])
    BY <1>3 DEF Synced, d
  <2> QED BY <1>1, <1>2, <2>1, SyncedPartsGrow
<1>5. ASSUME NEW s \in Stages
      PROVE  SyncedErrors(e, s, h.errors[s], g.errors[s])
  <2>1. h.errors[s] \in Nat /\ SyncedErrors(d, s, h.errors[s], g.errors[s])
    BY <1>3 DEF Synced, d
  <2> QED BY <1>1, <1>2, <2>1, SyncedErrorsGrow
<1> QED BY <1>4, <1>5 DEF Synced, e

\* What is read is what was not counted.
LEMMA ReadParts ==
  ASSUME NEW d \in Dirs, NEW s \in Stages, StageOk(d, s), NEW k \in Nat, NEW g, SyncedParts(d, s, k, g),
         NEW N, N = {i \in 1 .. Len(d.parts[s]) : i > k /\ d.parts[s][i] # {}},
         NEW m \in Nat, m = k \/ m \in N, m >= k, \A i \in N : m >= i
  PROVE  SyncedParts(d, s, m, g \cup UNION {d.parts[s][i] : i \in N})
<1> DEFINE q == d.parts[s]
           g2 == g \cup UNION {q[i] : i \in N}
<1>0. q \in Seq(SUBSET Nat) /\ Len(q) \in Nat /\ k <= Len(q)
  BY DirFacts DEF SyncedParts
<1>1. m <= Len(q)
  BY <1>0
<1>2. g2 \subseteq d.journal[s]
  <2>1. \A i \in N : q[i] \subseteq UNION All(q)
    BY DEF All, Of
  <2>2. UNION All(q) \subseteq d.journal[s] /\ g \subseteq d.journal[s]
    BY DEF StageOk, Kept, SyncedParts
  <2> HIDE DEF q
  <2> QED BY <2>1, <2>2
<1>3. Rest(q, k) \subseteq g2
  <2> SUFFICES ASSUME NEW i \in (k + 1) .. Len(q), NEW x \in q[i] PROVE x \in g2
    BY DEF Rest
  <2>1. i \in 1 .. Len(q) /\ i > k
    BY <1>0
  <2>2. i \in N
    BY <2>1
  <2> QED BY <2>2
<1>4. CASE LastPurged(q) /\ k < Len(q)
  <2>1. Len(q) \notin N
    BY <1>4 DEF LastPurged
  <2>2. m < Len(q)
    BY <1>0, <1>1, <1>4, <2>1
  <2> QED BY <1>1, <1>2, <1>4, <2>2 DEF SyncedParts
<1>5. CASE d.journal[s] \subseteq g \cup d.taken[s] \cup d.open[s] \cup Rest(q, k)
  <2>1. d.journal[s] \subseteq g2 \cup d.taken[s] \cup d.open[s]
    BY <1>3, <1>5
  <2> HIDE DEF g2
  <2>2. SyncedParts(d, s, m, g2)
    BY <1>1, <1>2, <2>1 DEF SyncedParts
  <2> QED BY <2>2 DEF g2
<1> QED BY <1>4, <1>5 DEF SyncedParts

LEMMA ReadErrors ==
  ASSUME NEW d \in Dirs, NEW s \in Stages, NEW k \in Nat, NEW g, SyncedErrors(d, s, k, g),
         NEW N, N = {d.errors[s][i] : i \in (k + 1) .. Len(d.errors[s])}
  PROVE  SyncedErrors(d, s, Len(d.errors[s]), g \cup N)
<1> DEFINE q == d.errors[s]
<1>0. q \in Seq(Nat) /\ Len(q) \in Nat
  BY DirFacts
<1>1. CASE Swept(d, s)
  BY <1>1 DEF SyncedErrors
<1>2. CASE k <= Len(q) /\ g = Of(q, k)
  <2>1. 1 .. Len(q) = (1 .. k) \cup ((k + 1) .. Len(q))
    BY <1>0, <1>2
  <2>2. g \cup N = Of(q, Len(q))
    BY <1>2, <2>1 DEF Of
  <2> QED BY <1>0, <2>2 DEF SyncedErrors
<1> QED BY <1>1, <1>2 DEF SyncedErrors

LEMMA SyncedRead ==
  ASSUME Typed, NEW d \in Dirs, \A s \in Stages : StageOk(d, s), Synced(d, here, got)
  PROVE  Synced(d, Counted(d), Came(d))
<1> DEFINE h == Counted(d)
           g == Came(d)
<1>1. /\ h \in Followers
      /\ \A s \in Stages : h.errors[s] = Len(d.errors[s]) /\ g.errors[s] = got.errors[s] \cup NewErrors(d, s)
      /\ \A s \in Streamed : /\ h.parts[s] = here.parts[s] \/ h.parts[s] \in NewParts(d, s)
                             /\ h.parts[s] >= here.parts[s] /\ \A i \in NewParts(d, s) : h.parts[s] >= i
                             /\ g.results[s] = got.results[s] \cup UNION {d.parts[s][i] : i \in NewParts(d, s)}
  BY CountedIs
<1>2. /\ Streamed \subseteq Stages /\ h.parts \in [Stages -> Nat]
      /\ here.parts \in [Stages -> Nat] /\ here.errors \in [Stages -> Nat]
  BY <1>1, CampaignAssumption DEF Followers, Typed, TypedHere
<1> HIDE DEF h, g
<1>3. ASSUME NEW s \in Streamed
      PROVE  SyncedParts(d, s, h.parts[s], g.results[s])
  <2>1. s \in Stages /\ here.parts[s] \in Nat /\ h.parts[s] \in Nat /\ SyncedParts(d, s, here.parts[s], got.results[s])
    BY <1>2 DEF Synced
  <2>2. DOMAIN d.parts[s] = 1 .. Len(d.parts[s])
    BY <2>1, DirFacts
  <2>3. NewParts(d, s) = {i \in 1 .. Len(d.parts[s]) : i > here.parts[s] /\ d.parts[s][i] # {}}
    BY <2>2 DEF NewParts
  <2>4. g.results[s] = got.results[s] \cup UNION {d.parts[s][i] : i \in NewParts(d, s)}
    BY <1>1
  <2>5. SyncedParts(d, s, h.parts[s], got.results[s] \cup UNION {d.parts[s][i] : i \in NewParts(d, s)})
    BY <1>1, <2>1, <2>3, ReadParts
  <2> QED BY <2>4, <2>5
<1>4. ASSUME NEW s \in Stages
      PROVE  SyncedErrors(d, s, h.errors[s], g.errors[s])
  <2>1. here.errors[s] \in Nat /\ SyncedErrors(d, s, here.errors[s], got.errors[s])
    BY <1>2 DEF Synced
  <2>2. NewErrors(d, s) = {d.errors[s][i] : i \in (here.errors[s] + 1) .. Len(d.errors[s])}
    BY DEF NewErrors
  <2>3. SyncedErrors(d, s, Len(d.errors[s]), got.errors[s] \cup NewErrors(d, s))
    BY <2>1, <2>2, ReadErrors
  <2> QED BY <1>1, <2>3
<1> QED BY <1>3, <1>4 DEF Synced, h, g

\* When nothing of what was left is missing, all came.
LEMMA NothingMissingIs ==
  ASSUME NEW d \in Dirs, NEW h \in Followers, NEW g, \A s \in Stages : StageOk(d, s), Synced(d, h, g),
         d.told = told, Complete(told), d.done = Stages, d.told.left = d.left, ~Missing(h),
         \A s \in Stages : h.errors[s] = Len(d.errors[s]), g.reduced = Reduced \ h.reduced, g.taken = d.taken
  PROVE  AllIn(g)
<1>0. Streamed \subseteq Stages /\ h.parts \in [Stages -> Nat] /\ h.errors \in [Stages -> Nat]
  BY CampaignAssumption DEF Followers
<1>1. \A s \in Stages : s \in d.done /\ s \in d.over
  BY DEF StageOk
<1>2. told.left = d.left
  OBVIOUS
<1>3. ASSUME NEW s \in Streamed
      PROVE  g.results[s] \subseteq Ok(s) /\ Ok(s) \ g.results[s] \subseteq g.taken[s]
  <2>1. s \in Stages /\ h.parts[s] \in Nat /\ SyncedParts(d, s, h.parts[s], g.results[s]) /\ StageOk(d, s)
    BY <1>0 DEF Synced
  <2>2. d.left[s].parts = Len(d.parts[s]) /\ Len(d.parts[s]) \in Nat
    BY <1>1, <2>1, DirFacts DEF StageOk
  <2>3. ~(h.parts[s] < d.left[s].parts)
    BY <1>2 DEF Missing
  <2>4. h.parts[s] = Len(d.parts[s])
    BY <2>1, <2>2, <2>3 DEF SyncedParts
  <2>5. Rest(d.parts[s], h.parts[s]) = {}
    <3>1. (h.parts[s] + 1) .. Len(d.parts[s]) = {}
      BY <2>2, <2>4
    <3> QED BY <3>1 DEF Rest
  <2>6. d.journal[s] = Ok(s) /\ d.open[s] = {}
    BY <1>1, <2>1 DEF StageOk
  <2>7. ~(h.parts[s] < Len(d.parts[s]))
    BY <2>2, <2>4
  <2> QED BY <2>1, <2>5, <2>6, <2>7 DEF SyncedParts
<1>4. ASSUME NEW s \in Stages
      PROVE  g.errors[s] = Bad(s)
  <2>1. h.errors[s] \in Nat /\ SyncedErrors(d, s, h.errors[s], g.errors[s]) /\ StageOk(d, s) /\ d.errors[s] \in Seq(Nat)
    BY <1>0, DirFacts DEF Synced
  <2>2. ~(h.errors[s] < d.left[s].errors)
    BY <1>2 DEF Missing
  <2>3. ~Swept(d, s)
    <3>1. d.errors[s] = <<>> => Len(d.errors[s]) = 0
      BY <2>1
    <3> QED BY <2>1, <2>2, <3>1 DEF Swept
  <2>4. d.left[s].errors = Len(d.errors[s]) /\ All(d.errors[s]) = Bad(s)
    BY <1>1, <2>1, <2>3 DEF StageOk
  <2>5. h.errors[s] = Len(d.errors[s]) /\ g.errors[s] = Of(d.errors[s], h.errors[s])
    BY <2>1, <2>2, <2>3, <2>4 DEF SyncedErrors
  <2> QED BY <2>4, <2>5 DEF All
<1>5. g.reduced = Reduced
  BY DEF Missing
<1> QED BY <1>3, <1>4, <1>5 DEF AllIn

LEMMA InStepThere ==
  ASSUME Typed, Typed', Shape, Sound, InStep, NEW a \in Attempts, Advances(a), Others(a), UNCHANGED <<client, job, heard>>
  PROVE  InStep'
<1> DEFINE n == here.n
<1>1. pc' = pc /\ here' = here /\ told' = told /\ got' = got /\ job' = job
  BY DEF client
<1>2. n \in Attempts /\ here \in Followers /\ dir'[n] \in Dirs
  BY DEF Typed, TypedHere, TypedThere, Followers
<1>3. dir'[n].there => dir[n].there /\ (Complete(dir[n].told) => dir'[n].told = dir[n].told)
  <2>1. CASE n = a
    <3>1. 1 \in Stages
      BY StagesAre
    <3> QED BY <2>1, <3>1 DEF Advances, Grows
  <2>2. CASE n # a
    BY <1>2, <2>2 DEF Others
  <2> QED BY <2>1, <2>2
<1>4. dir'[n].there /\ Synced(dir[n], here, got) => Synced(dir'[n], here, got)
  <2>1. CASE n = a
    BY <1>2, <2>1, SyncedGrow
  <2>2. CASE n # a
    <3>1. dir'[n] = dir[n]
      BY <1>2, <2>2 DEF Others
    <3> QED BY <3>1
  <2> QED BY <2>1, <2>2
<1> QED BY <1>1, <1>3, <1>4 DEF InStep

LEMMA ZeroedSame ==
  ASSUME NEW h, NEW k, Zeroed(h), SameCounts(h, k)
  PROVE  Zeroed(k)
BY DEF Zeroed, SameCounts

LEMMA InStepIdle ==
  ASSUME Idle, job' = "completed" => AllIn(got')
  PROVE  InStep'
<1>1. pc' = "off" /\ job' # "running" /\ Zeroed(here')
  BY DEF Idle, Zeroed
<1> QED BY <1>1 DEF InStep, Reading

LEMMA InStepPlace ==
  ASSUME Typed, Sound, InStep, Place
  PROVE  InStep'
<1>1. Typed' /\ pc = "place" /\ got' = got /\ job' = job /\ pc' \in {"upload", "follow", "fill"}
      /\ SameElse(here, here') /\ SameCounts(here, here')
  <2>1. Typed' /\ pc = "place" /\ UNCHANGED <<run, told, got>> /\ Alone
        /\ SameElse(here, here') /\ SameCounts(here, here')
    BY DoesPlace
  <2>2. pc' \in {"upload", "follow", "fill"}
    BY DEF Place, Goes
  <2> QED BY <2>1, <2>2 DEF Alone
<1>2. here.first /\ Zeroed(here) /\ (job = "running" => Nothing(got)) /\ job # "completed"
      /\ (job = "running" => got.reduced = Reduced \ here.reduced)
  BY <1>1 DEF InStep
<1>3. here'.first /\ Zeroed(here') /\ here'.reduced = here.reduced
  BY <1>1, <1>2, ZeroedSame DEF SameElse, SameCounts
<1>4. here'.n \in Attempts /\ dir'[here'.n] \in Dirs
  BY <1>1 DEF Typed, TypedHere, TypedThere, Followers
<1>5. dir'[here'.n].there => \A s \in Stages : Kept(dir'[here'.n], s)
  <2>1. Sound'
    BY SoundPlace
  <2> QED BY <1>4, <2>1 DEF Sound, StageOk
<1>6. job' = "running" /\ dir'[here'.n].there => Synced(dir'[here'.n], here', got')
  BY <1>1, <1>2, <1>3, <1>4, <1>5, ZeroSynced
<1> QED BY <1>1, <1>2, <1>3, <1>6 DEF InStep

LEMMA InStepUpload ==
  ASSUME Typed, Shape, Sound, InStep, Upload
  PROVE  InStep'
<1> DEFINE n == here.n
<1>1. pc = "upload" /\ pc' = "fill" /\ here' = here /\ got' = got /\ job' = job /\ dir'[n] \in Dirs
  BY DoesUpload DEF Alone
<1>2. here.first /\ Zeroed(here) /\ (job = "running" => Nothing(got)) /\ job # "completed"
      /\ (job = "running" => got.reduced = Reduced \ here.reduced)
  BY <1>1 DEF InStep
<1>3. dir'[n].there => \A s \in Stages : Kept(dir'[n], s)
  <2>1. Sound' /\ n \in Attempts
    BY SoundUpload DEF Typed, TypedHere, Followers
  <2> QED BY <2>1 DEF Sound, StageOk
<1>4. job = "running" /\ dir'[n].there => Synced(dir'[n], here, got)
  BY <1>1, <1>2, <1>3, ZeroSynced
<1> QED BY <1>1, <1>2, <1>4 DEF InStep

LEMMA InStepFill ==
  ASSUME Typed, InStep, Fill
  PROVE  InStep'
<1>1. /\ pc = "fill" /\ dir' = dir /\ told' = told /\ got' = got
      /\ \/ dir[here.n].there /\ pc' = "submit" /\ here' = here /\ job' = job
         \/ Idle /\ job' = IF job = "running" THEN "failed" ELSE job
  BY DoesFill DEF there
<1>2. job # "completed"
  BY <1>1 DEF InStep
<1>3. CASE Idle /\ job' = IF job = "running" THEN "failed" ELSE job
  BY <1>2, <1>3, InStepIdle
<1>4. CASE dir[here.n].there /\ pc' = "submit" /\ here' = here /\ job' = job
  BY <1>1, <1>2, <1>4 DEF InStep, Reading
<1> QED BY <1>1, <1>3, <1>4

LEMMA SamesQueued ==
  ASSUME Typed, run' = run, QueuedAgain(here.n)
  PROVE  Sames(dir[here.n], dir'[here.n]) /\ dir'[here.n].there = dir[here.n].there
<1>1. here.n \in Attempts
  BY DEF Typed, TypedHere, Followers
<1>2. /\ dir'[here.n].there = dir[here.n].there
      /\ SameRecord(dir[here.n], dir'[here.n]) /\ SameParts(dir[here.n], dir'[here.n])
      /\ dir'[here.n].errors = dir[here.n].errors /\ dir'[here.n].told = dir[here.n].told
  BY <1>1, QueuedIs
<1> QED BY <1>2 DEF Sames

LEMMA InStepQueue ==
  ASSUME Typed, InStep, Queue
  PROVE  InStep'
<1>1. /\ pc = "submit" /\ run' = run /\ told' = told /\ got' = got
      /\ \/ /\ QueuedAgain(here.n) /\ pc' = "follow" /\ job' = job
            /\ here'.n = here.n /\ ~here'.first /\ SameCounts(here, here')
         \/ dir' = dir /\ Idle /\ job' = IF job = "running" THEN "failed" ELSE job
  BY DoesQueue
<1>2. job # "completed"
  BY <1>1 DEF InStep
<1>3. CASE Idle /\ job' = IF job = "running" THEN "failed" ELSE job
  BY <1>2, <1>3, InStepIdle
<1>4. CASE /\ QueuedAgain(here.n) /\ pc' = "follow" /\ job' = job
           /\ here'.n = here.n /\ ~here'.first /\ SameCounts(here, here')
  <2>1. Sames(dir[here.n], dir'[here.n]) /\ dir'[here.n].there = dir[here.n].there
    BY <1>1, <1>4, SamesQueued
  <2>2. job = "running" => (dir'[here'.n].there => Synced(dir'[here'.n], here', got'))
    <3>1. job = "running" /\ dir'[here.n].there => Synced(dir[here.n], here, got)
      BY <1>1, <2>1 DEF InStep, Reading
    <3> QED BY <1>1, <1>4, <2>1, <3>1, SyncedSame
  <2>3. job = "running" => got'.reduced = Reduced \ here'.reduced
    BY <1>1, <1>4 DEF InStep, SameCounts
  <2> QED BY <1>2, <1>4, <2>2, <2>3 DEF InStep
<1> QED BY <1>1, <1>3, <1>4

LEMMA InStepLost ==
  ASSUME Typed, InStep, Lost
  PROVE  InStep'
<1>1. /\ run' = run /\ told' = told /\ got' = got
      /\ \/ dir' = dir
         \/ pc = "submit" /\ QueuedAgain(here.n)
      /\ \/ Idle /\ job' = IF job = "running" THEN "failed" ELSE job
         \/ /\ here' = here /\ job' = job
            /\ \/ pc \in {"follow", "state"} /\ pc' = pc
               \/ pc \in {"place", "upload", "fill", "submit"} /\ here.first /\ pc' = "place"
  BY DoesLost
<1>2. job # "completed"
  BY DEF InStep, Lost
<1>3. CASE Idle /\ job' = IF job = "running" THEN "failed" ELSE job
  BY <1>2, <1>3, InStepIdle
<1>4. CASE here' = here /\ job' = job /\ pc \in {"follow", "state"} /\ pc' = pc
  <2>1. dir' = dir
    BY <1>1, <1>4
  <2> QED BY <1>1, <1>2, <1>4, <2>1 DEF InStep, Reading
<1>5. CASE here' = here /\ job' = job /\ here.first /\ pc' = "place"
  BY <1>1, <1>2, <1>5 DEF InStep, Reading
<1> QED BY <1>1, <1>3, <1>4, <1>5

LEMMA InStepAsk ==
  ASSUME Typed, InStep, Ask
  PROVE  InStep'
<1>1. /\ pc = "follow" /\ dir' = dir /\ got' = got
      /\ \/ Idle /\ job' = IF job = "running" THEN "failed" ELSE job
         \/ /\ pc' = "read" /\ job' = job
            /\ told' = (IF dir[here.n].there THEN dir[here.n].told ELSE Untold)
            /\ here'.n = here.n /\ ~here'.first /\ SameCounts(here, here')
  BY DoesAsk DEF there
<1>2. job # "completed"
  BY <1>1 DEF InStep
<1>3. CASE Idle /\ job' = IF job = "running" THEN "failed" ELSE job
  BY <1>2, <1>3, InStepIdle
<1>4. CASE /\ pc' = "read" /\ job' = job
           /\ told' = (IF dir[here.n].there THEN dir[here.n].told ELSE Untold)
           /\ here'.n = here.n /\ ~here'.first /\ SameCounts(here, here')
  <2>1. Sames(dir[here.n], dir'[here.n])
    BY <1>1, SamesSelf
  <2>2. job = "running" => (dir'[here'.n].there => Synced(dir'[here'.n], here', got'))
    <3>1. job = "running" /\ dir'[here.n].there => Synced(dir[here.n], here, got)
      BY <1>1 DEF InStep, Reading
    <3> QED BY <1>1, <1>4, <2>1, <3>1, SyncedSame
  <2>3. job = "running" => got'.reduced = Reduced \ here'.reduced
    BY <1>1, <1>4 DEF InStep, SameCounts
  <2>4. dir'[here'.n].there => dir'[here'.n].told = told'
    BY <1>1, <1>4
  <2> QED BY <1>2, <1>4, <2>2, <2>3, <2>4 DEF InStep
<1> QED BY <1>1, <1>3, <1>4

LEMMA InStepRead ==
  ASSUME Typed, Shape, Sound, InStep, Read
  PROVE  InStep'
<1> DEFINE d == dir[here.n]
           h == Counted(d)
           g == Came(d)
<1>1. /\ pc = "read" /\ dir' = dir /\ d \in Dirs /\ got' = (IF job = "running" THEN g ELSE NothingGot)
      /\ \/ Idle /\ job' = (IF job = "running" THEN "failed" ELSE job)
         \/ /\ Idle /\ job' = (IF job = "running" THEN "completed" ELSE job)
            /\ d.there /\ Complete(told) /\ ~Missing(h)
         \/ pc' = "again" /\ here' = h /\ job' = job
         \/ /\ pc' = "follow" /\ job' = job /\ here'.n = here.n /\ here'.first = here.first /\ SameCounts(h, here')
         \/ pc' = "state" /\ job' = job /\ here' = h /\ d.there
  BY DoesRead DEF there
<1>2. here.n \in Attempts /\ here \in Followers /\ job # "completed"
  BY <1>1 DEF InStep, Typed, TypedHere, Followers
<1>3. /\ h \in Followers /\ h.n = here.n /\ h.first = here.first
      /\ h.reduced = here.reduced \ d.reduced /\ g.reduced = got.reduced \cup (here.reduced \cap d.reduced)
      /\ g.taken = d.taken /\ \A s \in Stages : h.errors[s] = Len(d.errors[s])
  BY <1>1, CountedIs DEF SameElse
<1>4. job = "running" => g.reduced = Reduced \ h.reduced
  <2>1. job = "running" => got.reduced = Reduced \ here.reduced
    BY DEF InStep
  <2>2. here.reduced \subseteq Reduced
    BY <1>2 DEF Followers
  <2> QED BY <1>3, <2>1, <2>2
<1>5. job = "running" /\ d.there => Synced(d, h, g) /\ \A s \in Stages : StageOk(d, s)
  <2>1. d.there => \A s \in Stages : StageOk(d, s)
    BY <1>2, CompleteIs
  <2>2. job = "running" /\ d.there => Synced(d, here, got)
    BY <1>1 DEF InStep, Reading
  <2> QED BY <1>1, <2>1, <2>2, SyncedRead
<1>6. ~here.first
  BY <1>1 DEF InStep
<1> HIDE DEF d, h, g
<1>7. CASE Idle /\ job' = (IF job = "running" THEN "failed" ELSE job)
  BY <1>2, <1>7, InStepIdle
<1>8. CASE /\ Idle /\ job' = (IF job = "running" THEN "completed" ELSE job)
           /\ d.there /\ Complete(told) /\ ~Missing(h)
  <2>1. CASE job # "running"
    BY <1>2, <1>8, <2>1, InStepIdle
  <2>2. CASE job = "running"
    <3>1. d.told = told
      BY <1>1, <1>8 DEF InStep, d
    <3>2. d.done = Stages /\ d.told.left = d.left
      BY <1>2, <1>8, <3>1, CompleteIs DEF d
    <3>3. AllIn(g)
      BY <1>1, <1>3, <1>4, <1>5, <1>8, <2>2, <3>1, <3>2, NothingMissingIs
    <3> QED BY <1>1, <1>8, <2>2, <3>3, InStepIdle
  <2> QED BY <2>1, <2>2
<1>9. CASE pc' = "again" /\ here' = h /\ job' = job
  BY <1>1, <1>2, <1>3, <1>4, <1>6, <1>9 DEF InStep, Reading
<1>10. CASE pc' = "follow" /\ job' = job /\ here'.n = here.n /\ here'.first = here.first /\ SameCounts(h, here')
  <2>1. job = "running" /\ d.there => Synced(d, here', g)
    BY <1>5, <1>10, SamesSelf, SyncedSame
  <2>2. job = "running" => got'.reduced = Reduced \ here'.reduced
    BY <1>1, <1>4, <1>10 DEF SameCounts
  <2>3. dir'[here'.n] = d
    BY <1>1, <1>10 DEF d
  <2>4. job = "running" => (dir'[here'.n].there => Synced(dir'[here'.n], here', got'))
    BY <1>1, <2>1, <2>3
  <2> QED BY <1>2, <1>6, <1>10, <2>2, <2>4 DEF InStep
<1>11. CASE pc' = "state" /\ job' = job /\ here' = h /\ d.there
  <2>1. dir'[here'.n] = d
    BY <1>1, <1>3, <1>11 DEF d
  <2>2. job = "running" => (dir'[here'.n].there => Synced(dir'[here'.n], here', got'))
    BY <1>1, <1>5, <1>11, <2>1
  <2> QED BY <1>1, <1>2, <1>3, <1>4, <1>6, <1>11, <2>2 DEF InStep
<1> QED BY <1>1, <1>7, <1>8, <1>9, <1>10, <1>11

\* Nothing was counted yet, and nothing came.
LEMMA InStepFresh ==
  ASSUME Typed', pc' \in {"place", "upload"}, here'.first, SameCounts(Fresh, here'), got' = NothingGot, job' # "completed"
  PROVE  InStep'
<1>1. Zeroed(here') /\ here'.reduced = Reduced
  BY FreshIs DEF Zeroed, SameCounts
<1>2. Nothing(got') /\ got'.reduced = Reduced \ here'.reduced
  BY <1>1, NothingGotIs DEF Nothing
<1> QED BY <1>1, <1>2 DEF InStep, Reading

LEMMA InStepState ==
  ASSUME Typed, InStep, State
  PROVE  InStep'
<1> DEFINE n == here.n
           d == dir[n]
           e == dir'[n]
<1>1. /\ pc = "state" /\ got' = got
      /\ e.there = d.there /\ SameRecord(d, e) /\ SameParts(d, e) /\ e.errors = d.errors /\ e.told = d.told
      /\ \/ Idle /\ job' = IF job = "running" THEN "failed" ELSE job
         \/ /\ pc' = "submit" /\ job' = job
            /\ here'.n = n /\ here'.first = here.first /\ SameCounts(here, here')
  BY DoesState
<1>2. job # "completed" /\ ~here.first
  BY <1>1 DEF InStep
<1>3. CASE Idle /\ job' = IF job = "running" THEN "failed" ELSE job
  BY <1>2, <1>3, InStepIdle
<1>4. CASE /\ pc' = "submit" /\ job' = job
           /\ here'.n = n /\ here'.first = here.first /\ SameCounts(here, here')
  <2>1. Sames(d, e)
    BY <1>1 DEF Sames
  <2>2. job = "running" => (dir'[here'.n].there => Synced(dir'[here'.n], here', got'))
    <3>1. job = "running" /\ d.there => Synced(d, here, got)
      BY <1>1 DEF InStep, Reading
    <3> QED BY <1>1, <1>4, <2>1, <3>1, SyncedSame
  <2>3. job = "running" => got'.reduced = Reduced \ here'.reduced
    BY <1>1, <1>4 DEF InStep, SameCounts
  <2> QED BY <1>2, <1>4, <2>2, <2>3 DEF InStep
<1> QED BY <1>1, <1>3, <1>4

LEMMA InStepHear ==
  ASSUME Typed, InStep, Hear
  PROVE  InStep'
<1> DEFINE n == here.n
           d == dir[n]
           e == dir'[n]
<1>1. /\ UNCHANGED <<pc, told, got, job>> /\ job # "running"
      /\ \/ pc = "off" /\ here' = Fresh
         \/ pc # "off" /\ here'.n = n /\ here'.first = here.first /\ SameCounts(here, here')
  BY DoesHear
<1>2. e.there = d.there /\ e.told = d.told
  <2>1. UNCHANGED there => e = d
    BY DEF there
  <2> QED BY <2>1, DoesHear
<1>3. CASE pc = "off" /\ here' = Fresh
  <2>1. Zeroed(here')
    BY <1>3, FreshIs DEF Zeroed
  <2> QED BY <1>1, <1>3, <2>1 DEF InStep, Reading
<1>4. CASE pc # "off" /\ here'.n = n /\ here'.first = here.first /\ SameCounts(here, here')
  <2>1. here.first => Zeroed(here')
    BY <1>4, ZeroedSame DEF InStep
  <2>2. pc' = pc /\ told' = told /\ got' = got /\ job' = job
    BY <1>1
  <2>3. job # "completed"
    BY <1>4 DEF InStep
  <2> QED BY <1>1, <1>2, <1>4, <2>1, <2>2, <2>3 DEF InStep
<1> QED BY <1>1, <1>3, <1>4

LEMMA InStepEndJob ==
  ASSUME Typed, InStep, NEW how \in {"canceled", "interrupted"}, EndJob(how)
  PROVE  InStep'
<1>1. /\ UNCHANGED <<there, pc, here, told, heard, slipped>> /\ job' = how
  BY DoesEndJob
<1>2. dir' = dir /\ pc' = pc /\ here' = here /\ told' = told /\ job' \notin {"running", "completed"}
  BY <1>1 DEF there
<1> QED BY <1>2 DEF InStep

LEMMA InStepDie ==
  ASSUME Typed, Die
  PROVE  InStep'
<1>1. pc' = "off" /\ job' = "interrupted" /\ here' = Fresh
  BY DoesDie
<1>2. Zeroed(here')
  BY <1>1, FreshIs DEF Zeroed
<1> QED BY <1>1, <1>2 DEF InStep, Reading

LEMMA InStepStep ==
  ASSUME Typed, Shape, Sound, InStep, [Next]_vars
  PROVE  InStep'
<1>0. Typed'
  BY TypedStep
<1>1. ASSUME NEW a \in Attempts, Runner(a) \/ Turns(a) \/ Killed(a) \/ CanceledThere(a) \/ Purged(a)
      PROVE  InStep'
  <2>1. Advances(a)
    BY <1>1, AdvancesAll
  <2>2. Others(a) /\ UNCHANGED <<client, job, heard>>
    BY <1>1, CalmRunner DEF Typed
  <2> QED BY <1>0, <2>1, <2>2, InStepThere
<1>2. CASE Submit
  <2>1. pc' = "place" /\ job' = "running" /\ here' = Fresh /\ got' = NothingGot
    BY <1>2, DoesSubmit
  <2>2. here'.first /\ SameCounts(Fresh, here')
    BY <2>1, FreshIs DEF SameCounts
  <2> QED BY <1>0, <2>1, <2>2, InStepFresh
<1>3. CASE Anew
  <2>1. pc = "again" /\ pc' = "upload" /\ Alone /\ here'.first /\ SameCounts(Fresh, here') /\ got' = NothingGot
    BY <1>3, DoesAnew
  <2>2. job' # "completed"
    BY <2>1 DEF InStep, Alone
  <2> QED BY <1>0, <2>1, <2>2, InStepFresh
<1>4. CASE UNCHANGED vars
  <2>1. dir' = dir /\ pc' = pc /\ here' = here /\ told' = told /\ got' = got /\ job' = job
    BY <1>4 DEF vars, there, client
  <2> QED BY <2>1 DEF InStep
<1>5. CASE Place \/ Upload \/ Fill \/ Queue \/ Lost \/ Ask \/ Read \/ State
  BY <1>5, InStepPlace, InStepUpload, InStepFill, InStepQueue, InStepLost, InStepAsk, InStepRead, InStepState
<1> QED BY <1>1, <1>2, <1>3, <1>4, <1>5, InStepHear, InStepDie, InStepEndJob DEF Next, Follows

LEMMA InStepInit == Init => InStep
<1> SUFFICES ASSUME Init PROVE InStep
  OBVIOUS
<1>1. pc = "off" /\ job = "none" /\ here = Fresh
  BY DEF Init
<1>2. Zeroed(here)
  BY <1>1, FreshIs DEF Zeroed
<1> QED BY <1>1, <1>2 DEF InStep, Reading

LEMMA TypeIs ==
  ASSUME Typed, Shape
  PROVE  TypeOK
<1>1. /\ here.n \in Attempts /\ here.parts \in [Stages -> Nat] /\ here.errors \in [Stages -> Nat]
      /\ here.reduced \subseteq Reduced
  BY DEF Typed, TypedHere, Followers
<1>2. ASSUME NEW a \in Attempts
      PROVE  /\ dir[a].place \in {"out", "queued", "running"} /\ run[a].s \in 0 .. Final + 1
             /\ dir[a].place = "running" /\ dir[a].there => run[a] # NoRun
             /\ \A s \in Stages : dir[a].journal[s] \cup dir[a].open[s] \subseteq Elements(s)
  <2>1. dir[a] \in Dirs /\ run[a] \in Runners /\ RunShape(dir[a], run[a])
    BY ShapeIs DEF Typed, TypedThere
  <2>2. dir[a].place \in {"out", "queued", "running"} /\ dir[a].journal \in Journals /\ dir[a].open \in Journals
    BY ONLY <2>1 DEF Dirs
  <2>3. run[a].s \in 0 .. Final + 1
    BY ONLY <2>1 DEF Runners
  <2>4. dir[a].place = "running" /\ dir[a].there => run[a] # NoRun
    BY ONLY <2>1, NoRunIs DEF RunShape
  <2> QED BY <2>2, <2>3, <2>4 DEF Journals
<1> QED BY <1>1, <1>2 DEF TypeOK, Typed, TypedHere

\* A job that completed was given all there is of the campaign: each element that failed in whatever
\* stage, what was made of the others, and each result that is asked for, but for those a purge took
\* before they were read while it left the last part of their stage.
THEOREM AllDeliveredHolds == Spec => []AllDelivered
<1> DEFINE Inv == Typed /\ Shape /\ Sound /\ InStep
<1>1. Init => Inv
  BY TypedInit, SoundInit, InStepInit
<1>2. Inv /\ [Next]_vars => Inv'
  BY TypedStep, SoundStep, InStepStep
<1>3. Inv => AllDelivered
  BY TypeIs DEF AllDelivered, InStep, AllIn, Ok, Bad
<1> QED BY <1>1, <1>2, <1>3, PTL DEF Spec
==============================================================================
