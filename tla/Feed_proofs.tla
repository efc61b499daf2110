----------------------------- MODULE Feed_proofs -----------------------------
(***************************************************************************)
(* Proofs about one job as its feeder and the loop share it: how far the   *)
(* source is read ahead, and that a job is over when all of it is counted. *)
(***************************************************************************)
EXTENDS Feed, FiniteSetTheorems, WellFoundedInduction, TLAPS

-----------------------------------------------------------------------------
(* The inductive invariant *)

\* With tasks flying as `f` says, `v` chunks are with the executor: `s` adds them up.
Carries(f, v) ==
  \E s \in [0 .. Largest -> Int] :
    /\ s[0] = 0 /\ s[Largest] = v
    /\ \A n \in 1 .. Largest : s[n] = s[n - 1] + n * f[n]

\* The window of a job grows only with what its tasks may hold.
WindowFits == elastic /\ batch = 0 => window <= Stretched(PackMax)

\* Where the feeder is: it has a chunk in its hand, for which there was room when it looked, or
\* the source ended.
FeederAt ==
  /\ fpc \in {"check", "clear", "recheck", "wait", "look", "append"} => given < SourceMax
  /\ fpc \in {"look", "append"} => ready + open < 2 * WidestFirst
  /\ source # "reading" => fpc = "left"

\* Where the loop is: it starts tasks of a running job alone, while its window is not full, and
\* drops the line of a stopped one alone.
LoopAt ==
  /\ lpc \in {"starve", "recheck", "take", "pack"} => status = "running"
  /\ lpc \in {"starve", "recheck", "take"} => open < window
  /\ lpc = "take" => ready > 0
  /\ lpc # "pack" => hand = 0
  /\ lpc \in {"drop", "release"} => status = "stopped"

\* Every chunk the source gave is in line or has left it, and every one that is open is somewhere.
Counted ==
  /\ status = "running" =>
       /\ given = seq + ready /\ open <= seq
       /\ Carries(flying, open - hand - late - backoff)
  /\ source = "ended" /\ status # "stopped" => total = given
  /\ status = "over" =>
       /\ source = "ended" /\ ready = 0 /\ late = 0 /\ backoff = 0
       /\ \A n \in 1 .. Largest : flying[n] = 0

Bounded == open <= WidestFirst /\ ready + open <= 2 * WidestFirst

Fed == TypeOK /\ WindowFits /\ FeederAt /\ LoopAt /\ Counted /\ Bounded

-----------------------------------------------------------------------------
(* Adding up *)

\* A set of numbers that has a member has a least one.
LEMMA Least ==
  ASSUME NEW T \in SUBSET Nat, T # {}
  PROVE  \E n \in T : \A m \in T : n <= m
<1> DEFINE I == {0 .. n : n \in T}
<1>1. \A n \in Nat : IsFiniteSet(0 .. n)
  BY FS_Interval
<1>2. I \subseteq FiniteSubsetsOf(Nat)
  <2> SUFFICES ASSUME NEW n \in T PROVE 0 .. n \in FiniteSubsetsOf(Nat)
    OBVIOUS
  <2>1. 0 .. n \in SUBSET Nat
    OBVIOUS
  <2> QED BY <1>1, <2>1 DEF FiniteSubsetsOf
<1>3. I # {}
  OBVIOUS
<1> HIDE DEF I
<1>4. PICK J \in I : \A K \in I : ~(<<K, J>> \in StrictSubsetOrdering(Nat))
  BY <1>2, <1>3, FS_StrictSubsetOrderingWellFounded, WFMin
<1>5. PICK n \in T : J = 0 .. n
  BY <1>4 DEF I
<1>6. ASSUME NEW m \in T, m < n PROVE FALSE
  <2>1. 0 .. m \in SUBSET Nat /\ 0 .. n \in SUBSET Nat
    OBVIOUS
  <2>2. 0 .. m \subseteq 0 .. n /\ 0 .. m # 0 .. n
    BY <1>6
  <2>3. <<0 .. m, 0 .. n>> \in StrictSubsetOrdering(Nat)
    BY <2>1, <2>2 DEF StrictSubsetOrdering
  <2>4. 0 .. m \in I
    BY DEF I
  <2> QED BY <1>4, <1>5, <2>3, <2>4
<1> QED BY <1>6

\* The larger of two numbers.
LEMMA MaxIs ==
  ASSUME NEW a \in Nat, NEW b \in Nat
  PROVE  Max({a, b}) \in {a, b} /\ Max({a, b}) >= a /\ Max({a, b}) >= b
<1>1. \E x \in {a, b} : \A y \in {a, b} : x >= y
  OBVIOUS
<1> QED BY <1>1 DEF Max

\* The smaller of two numbers.
LEMMA MinIs ==
  ASSUME NEW a \in Int, NEW b \in Int
  PROVE  Min({a, b}) \in {a, b} /\ Min({a, b}) <= a /\ Min({a, b}) <= b
<1>1. \E x \in {a, b} : \A y \in {a, b} : x <= y
  OBVIOUS
<1> QED BY <1>1 DEF Min

\* A product is no smaller than one of a smaller number.
LEMMA TimesGrows ==
  ASSUME NEW k \in Nat, NEW a \in Nat, NEW b \in Nat, a <= b
  PROVE  k * a \in Nat /\ k * a <= k * b
<1>1. PICK c \in Nat : b = a + c
  <2>1. b - a \in Nat /\ b = a + (b - a)
    OBVIOUS
  <2> QED BY <2>1
<1>2. k * b = k * a + k * c /\ k * c \in Nat /\ k * a \in Nat
  BY <1>1
<1> QED BY <1>2

\* Without tasks nothing is carried.
LEMMA NothingCarried == Carries([n \in 0 .. Largest |-> 0], 0)
<1> DEFINE s == [n \in 0 .. Largest |-> 0]
           f == [n \in 0 .. Largest |-> 0]
<1>1. Largest \in Nat
  BY FeedAssumption DEF FeedAssumption
<1>2. s \in [0 .. Largest -> Int] /\ s[0] = 0 /\ s[Largest] = 0
  BY <1>1
<1>3. \A n \in 1 .. Largest : s[n] = s[n - 1] + n * f[n]
  BY <1>1
<1> QED BY <1>2, <1>3 DEF Carries

\* A task that comes back takes away what it has.
LEMMA TaskLess ==
  ASSUME NEW f \in [0 .. Largest -> Nat], NEW v \in Int, Carries(f, v), NEW n \in 0 .. Largest
  PROVE  Carries([f EXCEPT ![n] = @ - 1], v - n)
<1>1. Largest \in Nat
  BY FeedAssumption DEF FeedAssumption
<1>2. PICK s \in [0 .. Largest -> Int] :
        s[0] = 0 /\ s[Largest] = v /\ \A m \in 1 .. Largest : s[m] = s[m - 1] + m * f[m]
  BY DEF Carries
<1> DEFINE t == [m \in 0 .. Largest |-> IF m >= n THEN s[m] - n ELSE s[m]]
           g == [f EXCEPT ![n] = @ - 1]
<1>3. t \in [0 .. Largest -> Int] /\ t[0] = 0 /\ t[Largest] = v - n
  <2>1. n \in Nat /\ n <= Largest
    BY <1>1
  <2>2. t \in [0 .. Largest -> Int]
    BY <2>1
  <2>3. t[0] = IF 0 >= n THEN s[0] - n ELSE s[0]
    BY <1>1
  <2>4. t[Largest] = IF Largest >= n THEN s[Largest] - n ELSE s[Largest]
    BY <1>1
  <2> HIDE DEF t
  <2> QED BY <1>1, <1>2, <2>1, <2>2, <2>3, <2>4
<1>4. ASSUME NEW m \in 1 .. Largest PROVE t[m] = t[m - 1] + m * g[m]
  <2>0. m \in Nat /\ m \in 0 .. Largest /\ m - 1 \in 0 .. Largest /\ s[m] = s[m - 1] + m * f[m]
        /\ s[m - 1] \in Int /\ f[m] \in Nat /\ n \in Nat
    BY <1>1, <1>2
  <2>1. CASE m < n
    <3>1. t[m] = s[m] /\ t[m - 1] = s[m - 1] /\ g[m] = f[m]
      BY <2>0, <2>1
    <3> QED BY <2>0, <3>1
  <2>2. CASE m = n
    <3>1. t[m] = s[m] - m /\ t[m - 1] = s[m - 1] /\ g[m] = f[m] - 1
      BY <2>0, <2>2
    <3>2. m * (f[m] - 1) = m * f[m] - m
      BY <2>0
    <3>3. m * f[m] \in Int
      BY <2>0
    <3> HIDE DEF t, g
    <3>4. m * g[m] = m * f[m] - m
      BY <3>1, <3>2
    <3> QED BY <2>0, <3>1, <3>3, <3>4
  <2>3. CASE m > n
    <3>1. t[m] = s[m] - n /\ t[m - 1] = s[m - 1] - n /\ g[m] = f[m]
      BY <2>0, <2>3
    <3>2. m * f[m] \in Int
      BY <2>0
    <3> HIDE DEF t, g
    <3> QED BY <2>0, <3>1, <3>2
  <2> QED BY <2>0, <2>1, <2>2, <2>3
<1> HIDE DEF t
<1> QED BY <1>3, <1>4 DEF Carries

\* A task that is sent adds what it has.
LEMMA TaskMore ==
  ASSUME NEW f \in [0 .. Largest -> Int], NEW v \in Int, Carries(f, v), NEW n \in 0 .. Largest
  PROVE  Carries([f EXCEPT ![n] = @ + 1], v + n)
<1>1. Largest \in Nat
  BY FeedAssumption DEF FeedAssumption
<1>2. PICK s \in [0 .. Largest -> Int] :
        s[0] = 0 /\ s[Largest] = v /\ \A m \in 1 .. Largest : s[m] = s[m - 1] + m * f[m]
  BY DEF Carries
<1> DEFINE t == [m \in 0 .. Largest |-> IF m >= n THEN s[m] + n ELSE s[m]]
           g == [f EXCEPT ![n] = @ + 1]
<1>3. t \in [0 .. Largest -> Int] /\ t[0] = 0 /\ t[Largest] = v + n
  <2>1. n \in Nat /\ n <= Largest
    BY <1>1
  <2>2. t \in [0 .. Largest -> Int]
    BY <2>1
  <2>3. t[0] = IF 0 >= n THEN s[0] + n ELSE s[0]
    BY <1>1
  <2>4. t[Largest] = IF Largest >= n THEN s[Largest] + n ELSE s[Largest]
    BY <1>1
  <2> HIDE DEF t
  <2> QED BY <1>1, <1>2, <2>1, <2>2, <2>3, <2>4
<1>4. ASSUME NEW m \in 1 .. Largest PROVE t[m] = t[m - 1] + m * g[m]
  <2>0. m \in Nat /\ m \in 0 .. Largest /\ m - 1 \in 0 .. Largest /\ s[m] = s[m - 1] + m * f[m]
        /\ s[m - 1] \in Int /\ f[m] \in Int /\ n \in Nat
    BY <1>1, <1>2
  <2>1. CASE m < n
    <3>1. t[m] = s[m] /\ t[m - 1] = s[m - 1] /\ g[m] = f[m]
      BY <2>0, <2>1
    <3> QED BY <2>0, <3>1
  <2>2. CASE m = n
    <3>1. t[m] = s[m] + m /\ t[m - 1] = s[m - 1] /\ g[m] = f[m] + 1
      BY <2>0, <2>2
    <3>2. m * (f[m] + 1) = m * f[m] + m
      BY <2>0
    <3>3. m * f[m] \in Int
      BY <2>0
    <3> HIDE DEF t, g
    <3>4. m * g[m] = m * f[m] + m
      BY <3>1, <3>2
    <3> QED BY <2>0, <3>1, <3>3, <3>4
  <2>3. CASE m > n
    <3>1. t[m] = s[m] + n /\ t[m - 1] = s[m - 1] + n /\ g[m] = f[m]
      BY <2>0, <2>3
    <3>2. m * f[m] \in Int
      BY <2>0
    <3> HIDE DEF t, g
    <3> QED BY <2>0, <3>1, <3>2
  <2> QED BY <2>0, <2>1, <2>2, <2>3
<1> HIDE DEF t
<1> QED BY <1>3, <1>4 DEF Carries

\* What every task has is carried, and nothing less than nothing.
LEMMA AllCarried ==
  ASSUME NEW f \in [0 .. Largest -> Nat], NEW v \in Int, Carries(f, v)
  PROVE  v >= 0 /\ \A n \in 0 .. Largest : f[n] > 0 => n <= v
<1>1. Largest \in Nat
  BY FeedAssumption DEF FeedAssumption
<1>2. PICK s \in [0 .. Largest -> Int] :
        s[0] = 0 /\ s[Largest] = v /\ \A m \in 1 .. Largest : s[m] = s[m - 1] + m * f[m]
  BY DEF Carries
<1> DEFINE Fine(m) == s[m] >= 0 /\ \A n \in 0 .. m : f[n] > 0 => n <= s[m]
           Bad == {m \in 0 .. Largest : ~Fine(m)}
<1>3. Fine(0)
  BY <1>1, <1>2
<1>4. ASSUME NEW m \in 1 .. Largest, Fine(m - 1) PROVE Fine(m)
  <2>1. m \in Nat /\ m > 0 /\ m \in 0 .. Largest /\ f[m] \in Nat /\ s[m - 1] \in Int /\ s[m] = s[m - 1] + m * f[m]
    BY <1>1, <1>2
  <2>2. PICK p \in Nat : p = m * f[m]
    BY <2>1
  <2>3. f[m] > 0 => m <= p
    <3>1. ASSUME f[m] > 0 PROVE m <= p
      <4>1. 1 <= f[m] /\ m * 1 = m
        BY <2>1, <3>1
      <4>2. m * 1 <= m * f[m]
        BY <2>1, <4>1, TimesGrows
      <4> QED BY <2>2, <4>1, <4>2
    <3> QED BY <3>1
  <2>4. s[m] = s[m - 1] + p
    BY <2>1, <2>2
  <2>5. s[m] >= 0
    BY <1>4, <2>1, <2>4
  <2>6. ASSUME NEW n \in 0 .. m, f[n] > 0 PROVE n <= s[m]
    <3>1. CASE n = m
      BY <1>4, <2>1, <2>3, <2>4, <2>6, <3>1
    <3>2. CASE n \in 0 .. m - 1
      BY <1>4, <2>1, <2>2, <2>4, <2>6, <3>2
    <3> QED BY <2>1, <3>1, <3>2
  <2> QED BY <2>5, <2>6
<1> HIDE DEF Fine
<1>5. ASSUME NEW m \in Bad PROVE FALSE
  <2>1. Bad \in SUBSET Nat
    BY <1>1
  <2>2. PICK l \in Bad : \A k \in Bad : l <= k
    BY <2>1, Least
  <2>3. l # 0 /\ l \in 0 .. Largest /\ ~Fine(l)
    BY <1>3, <2>2
  <2>4. l \in 1 .. Largest /\ l - 1 \in 0 .. Largest /\ ~(l <= l - 1)
    BY <1>1, <2>3
  <2>5. Fine(l - 1)
    BY <2>2, <2>4
  <2>6. Fine(l)
    BY <1>4, <2>4, <2>5
  <2> QED BY <2>3, <2>6
<1>6. Fine(Largest)
  BY <1>1, <1>5
<1>7. s[Largest] >= 0 /\ \A n \in 0 .. Largest : f[n] > 0 => n <= s[Largest]
  BY <1>6 DEF Fine
<1> QED BY <1>2, <1>7

-----------------------------------------------------------------------------
(* The window *)

\* What a window may be.
LEMMA WidestIs ==
  ASSUME TypeOK
  PROVE  /\ WidestFirst \in Nat /\ window <= WidestFirst /\ WidestFirst >= 1
         /\ Stretched(PackMax) \in Nat
         /\ \A n \in 1 .. PackMax :
              /\ Stretched(n) \in Nat /\ Stretched(n) > 0
              /\ Stretched(n) <= Stretched(PackMax)
<1>0. Capacity \in Nat /\ Capacity > 0 /\ PackMax \in Nat /\ PackMax > 0
  BY FeedAssumption DEF FeedAssumption
<1>1. PICK k \in Nat : k = 2 * Capacity /\ k > 0
  BY <1>0
<1>2. \A n \in Nat : Stretched(n) = k * n
  BY <1>0, <1>1 DEF Stretched
<1>3. Stretched(PackMax) \in Nat
  BY <1>0, <1>2
<1>4. ASSUME NEW n \in 1 .. PackMax
      PROVE  Stretched(n) \in Nat /\ Stretched(n) > 0 /\ Stretched(n) <= Stretched(PackMax)
  <2>1. n \in Nat /\ 1 <= n /\ n <= PackMax
    BY <1>0
  <2>2. k * n \in Nat /\ k * n <= k * PackMax /\ k * 1 <= k * n /\ k * 1 = k
    BY <1>0, <1>1, <2>1, TimesGrows
  <2> QED BY <1>0, <1>1, <1>2, <2>1, <2>2
<1>5. window \in Nat /\ window >= 1
  BY DEF TypeOK
<1>6. WidestFirst \in Nat /\ window <= WidestFirst
  <2>1. CASE elastic
    BY <1>3, <1>5, <2>1, MaxIs DEF WidestFirst
  <2>2. CASE ~elastic
    BY <1>5, <2>2 DEF WidestFirst
  <2> QED BY <2>1, <2>2
<1> QED BY <1>3, <1>4, <1>5, <1>6

\* A task that ran well may change how many chunks go to the next one, and with that the window.
LEMMA WindowMoves ==
  ASSUME Next
  PROVE  /\ UNCHANGED settings
         /\ \/ UNCHANGED <<size, window>>
            \/ /\ batch = 0 /\ size' \in 1 .. PackMax
               /\ window' = IF elastic THEN Stretched(size') ELSE window
<1>1. CASE FeederStep
  BY <1>1 DEF FeederStep, Pull, Check, Clear, Recheck, Wait, Look, AppendChunk, Asked, Enough, Answer, Tell, End,
              ofLoop
<1>2. CASE LoopStep
  BY <1>2 DEF LoopStep, DispatchStep, Start, Starve, RecheckReady, Take, Pack, Launch, HalfEmpty, SetRoom,
              Drop, Release
<1>3. CASE OnFed \/ OnSourceEnd \/ Requeue \/ Stop
  BY <1>3 DEF OnFed, OnSourceEnd, Requeue, Stop
<1>4. ASSUME NEW n, OnSpared(n) \/ OnPart(n) \/ OnDelivered(n)
      PROVE  UNCHANGED <<settings, size, window>>
  BY <1>4 DEF OnSpared, OnPart, OnDelivered
<1>5. ASSUME NEW n, NEW well, NEW again, OnDone(n, well, again)
      PROVE  /\ UNCHANGED settings
             /\ \/ UNCHANGED <<size, window>>
                \/ /\ batch = 0 /\ size' \in 1 .. PackMax
                   /\ window' = IF elastic THEN Stretched(size') ELSE window
  BY <1>5 DEF OnDone, Repace
<1> QED BY <1>1, <1>2, <1>3, <1>4, <1>5 DEF Next, LoopTurn, TaskBack, SomeDelivered

\* The widest it may be stays.
LEMMA WidestStays ==
  ASSUME TypeOK, WindowFits, Next
  PROVE  /\ WindowFits' /\ WidestFirst' = WidestFirst /\ window' <= WidestFirst
         /\ window' \in Nat \ {0} /\ size' \in 1 .. Largest /\ batch' \in Nat /\ elastic' \in BOOLEAN
<1>0. /\ PackMax \in Nat /\ PackMax > 0 /\ Largest \in Nat /\ PackMax <= Largest
      /\ window \in Nat /\ window > 0 /\ size \in 1 .. Largest /\ batch \in Nat /\ elastic \in BOOLEAN
  BY FeedAssumption DEF FeedAssumption, TypeOK
<1>1. UNCHANGED <<batch, elastic>>
  BY WindowMoves DEF settings
<1>2. CASE UNCHANGED <<size, window>>
  BY <1>0, <1>1, <1>2, WidestIs DEF WindowFits, WidestFirst, Stretched
<1>3. CASE batch = 0 /\ size' \in 1 .. PackMax /\ window' = IF elastic THEN Stretched(size') ELSE window
  <2>1. size' \in 1 .. Largest
    BY <1>0, <1>3
  <2>2. CASE ~elastic
    BY <1>0, <1>1, <1>3, <2>1, <2>2, WidestIs DEF WindowFits, WidestFirst
  <2>3. CASE elastic
    <3>1. PICK p \in Nat : p = Stretched(PackMax)
      BY WidestIs
    <3>2. window' = Stretched(size') /\ window' \in Nat /\ window' > 0 /\ window' <= p
      BY <1>3, <2>3, <3>1, WidestIs
    <3>3. window <= p
      BY <1>3, <2>3, <3>1 DEF WindowFits
    <3>4. WidestFirst = Max({window, p}) /\ WidestFirst' = Max({window', p})
      BY <1>1, <2>3, <3>1 DEF WidestFirst, Stretched
    <3>5. PICK w \in Nat : w = window'
      BY <3>2
    <3>6. Max({window, p}) = p /\ Max({w, p}) = p
      BY <1>0, <3>2, <3>3, <3>5, MaxIs
    <3>7. WindowFits'
      BY <3>1, <3>2 DEF WindowFits, Stretched
    <3> QED BY <1>0, <1>1, <2>1, <3>2, <3>4, <3>5, <3>6, <3>7
  <2> QED BY <2>2, <2>3
<1> QED BY <1>1, <1>2, <1>3, WindowMoves

-----------------------------------------------------------------------------
(* The feeder *)

\* The feeder leaves alone what is the loop's.
LEMMA FeederDoes ==
  ASSUME FeederStep
  PROVE  /\ UNCHANGED ofLoop
         /\ \/ UNCHANGED <<given, ready>>
            \/ fpc = "append" /\ fpc' = "asked" /\ given' = given + 1 /\ ready' = ready + 1 /\ source' = source
         /\ source' = source \/ (source' = "told" /\ fpc' = "left")
<1>1. CASE Pull \/ Check \/ Clear \/ Recheck \/ Wait \/ Look
  BY <1>1 DEF Pull, Check, Clear, Recheck, Wait, Look, sharedOfFeeder
<1>2. CASE AppendChunk
  BY <1>2 DEF AppendChunk, Feeder
<1>3. CASE Asked \/ Enough \/ Answer \/ Tell \/ End
  BY <1>3 DEF Asked, Enough, Answer, Tell, End, sharedOfFeeder, Feeder
<1> QED BY <1>1, <1>2, <1>3 DEF FeederStep

\* Its own state is of its type.
LEMMA FeederType ==
  ASSUME Fed, FeederStep
  PROVE  /\ given' \in 0 .. SourceMax /\ ready' \in Nat /\ room' \in BOOLEAN /\ hungry' \in BOOLEAN /\ fed' \in Nat
         /\ source' \in {"reading", "told", "ended"}
         /\ fpc' \in {"pull", "check", "clear", "recheck", "wait", "look", "append", "asked", "enough",
                      "answer", "tell", "end", "left"}
<1>0. /\ TypeOK /\ FeederAt /\ SourceMax \in Nat
  BY FeedAssumption DEF FeedAssumption, Fed
<1>1. CASE Pull \/ Check \/ Clear
  BY <1>0, <1>1 DEF TypeOK, Pull, Check, Clear, LookForRoom, Feeder, sharedOfFeeder
<1>2. CASE Recheck \/ Wait \/ Look
  BY <1>0, <1>2 DEF TypeOK, Recheck, Wait, Look, Feeder, sharedOfFeeder
<1>3. CASE AppendChunk
  BY <1>0, <1>3 DEF TypeOK, FeederAt, AppendChunk, Feeder
<1>4. CASE Asked
  BY <1>0, <1>4 DEF TypeOK, Asked, Feeder, sharedOfFeeder
<1>6. CASE Enough
  BY <1>0, <1>6 DEF TypeOK, Enough, Feeder, sharedOfFeeder
<1>5. CASE Answer \/ End
  BY <1>0, <1>5 DEF TypeOK, Answer, End, Feeder
<1>7. CASE Tell
  BY <1>0, <1>7 DEF TypeOK, Tell, Feeder
<1> QED BY <1>1, <1>2, <1>3, <1>4, <1>5, <1>6, <1>7 DEF FeederStep

\* It has a chunk in its hand only with room for it, ...
LEMMA FeederGoes ==
  ASSUME Fed, FeederStep
  PROVE  FeederAt'
<1>0. /\ TypeOK /\ FeederAt /\ open <= WidestFirst
      /\ WidestFirst \in Nat /\ window <= WidestFirst /\ WidestFirst' = WidestFirst
      /\ ready \in Nat /\ open \in Nat /\ window \in Nat /\ given \in Nat /\ SourceMax \in Nat
      /\ open' = open /\ window' = window
  <2>1. Next
    BY DEF Next
  <2>2. open' = open /\ window' = window
    BY FeederDoes DEF ofLoop
  <2> QED BY <2>1, <2>2, WidestIs, WidestStays, FeedAssumption DEF FeedAssumption, Fed, Bounded, TypeOK
<1>1. ASSUME LookForRoom, fpc' = "look" PROVE ready + open < 2 * WidestFirst
  BY <1>0, <1>1 DEF LookForRoom
<1>2. CASE Pull
  BY <1>0, <1>1, <1>2 DEF Pull, LookForRoom, Feeder, FeederAt, sharedOfFeeder, TypeOK
<1>3. CASE Check
  BY <1>0, <1>1, <1>3 DEF Check, LookForRoom, FeederAt, sharedOfFeeder
<1>4. CASE Clear \/ Wait
  BY <1>0, <1>4 DEF Clear, Wait, Feeder, FeederAt, sharedOfFeeder
<1>5. CASE Recheck \/ Look
  BY <1>0, <1>5 DEF Recheck, Look, Feeder, FeederAt, sharedOfFeeder
<1>6. CASE AppendChunk \/ Asked \/ Enough
  BY <1>0, <1>6 DEF AppendChunk, Asked, Enough, Feeder, FeederAt, sharedOfFeeder
<1>7. CASE Answer \/ Tell \/ End
  BY <1>0, <1>7 DEF Answer, Tell, End, Feeder, FeederAt
<1> QED BY <1>2, <1>3, <1>4, <1>5, <1>6, <1>7 DEF FeederStep

\* ... and what it adds is counted.
LEMMA FeederStepKeeps ==
  ASSUME Fed, FeederStep
  PROVE  Fed'
<1>0. TypeOK /\ WindowFits /\ FeederAt /\ LoopAt /\ Counted /\ Bounded /\ Next
  BY DEF Fed, Next
<1>1. UNCHANGED <<batch, elastic, size, window, status, seq, open, hand, flying, late, backoff, trips, total, lpc>>
  BY FeederDoes DEF ofLoop, settings, tasks
<1>2. TypeOK'
  BY <1>0, <1>1, FeederType DEF TypeOK
<1>3. FeederAt'
  BY FeederGoes
<1>4. /\ WindowFits' /\ WidestFirst' = WidestFirst
  BY <1>0, WidestStays
<1>5. /\ WidestFirst \in Nat /\ ready \in Nat /\ open \in Nat /\ given \in Nat /\ seq \in Nat
  BY <1>0, WidestIs DEF TypeOK
<1>6. CASE UNCHANGED <<given, ready>>
  <2>1. LoopAt' /\ Bounded'
    BY <1>0, <1>1, <1>4, <1>6 DEF LoopAt, Bounded
  <2>2. source' = source \/ source' = "told"
    BY FeederDoes
  <2>3. CASE status = "over"
    <3>1. source' = source
      <4>1. fpc = "left"
        BY <1>0, <2>3 DEF Counted, FeederAt
      <4> QED BY <4>1 DEF FeederStep, Pull, Check, Clear, Recheck, Wait, Look, AppendChunk, Asked, Enough, Answer,
                          Tell, End, Feeder
    <3> QED BY <1>0, <1>1, <1>2, <1>3, <1>4, <1>6, <2>1, <2>3, <3>1 DEF Fed, Counted
  <2>4. CASE status # "over"
    <3>1. Counted'
      BY <1>0, <1>1, <1>6, <2>2, <2>4 DEF Counted, Carries
    <3> QED BY <1>2, <1>3, <1>4, <2>1, <3>1 DEF Fed
  <2> QED BY <2>3, <2>4
<1>7. CASE fpc = "append" /\ given' = given + 1 /\ ready' = ready + 1 /\ source' = source
  <2>1. source = "reading"
    BY <1>0, <1>7 DEF FeederAt, TypeOK
  <2>2. ready + open < 2 * WidestFirst
    BY <1>0, <1>7 DEF FeederAt
  <2>3. Bounded'
    BY <1>0, <1>1, <1>4, <1>5, <1>7, <2>2 DEF Bounded
  <2>4. LoopAt'
    BY <1>0, <1>1, <1>5, <1>7 DEF LoopAt
  <2>5. Counted'
    BY <1>0, <1>1, <1>5, <1>7, <2>1 DEF Counted, Carries
  <2> QED BY <1>2, <1>3, <1>4, <2>3, <2>4, <2>5 DEF Fed
<1> QED BY <1>6, <1>7, FeederDoes

-----------------------------------------------------------------------------
(* The loop *)

\* What every step of the loop keeps.
Goes ==
  /\ UNCHANGED <<given, fpc>>
  /\ source' = source \/ source = "told"
  /\ TypeOK' /\ LoopAt' /\ Counted'
  /\ open' <= WidestFirst /\ ready' + open' <= ready + open

\* What is known of numbers before a step.
LEMMA Numbers ==
  ASSUME Fed
  PROVE  /\ TypeOK /\ WindowFits /\ FeederAt /\ LoopAt /\ Counted /\ Bounded
         /\ WidestFirst \in Nat /\ window <= WidestFirst /\ window \in Nat /\ open <= WidestFirst
         /\ ready \in Nat /\ open \in Nat /\ seq \in Nat /\ hand \in Nat /\ late \in Nat /\ backoff \in Nat
         /\ given \in Nat /\ trips \in Nat /\ total \in Int /\ Largest \in Nat /\ TripsMax \in Nat
         /\ batch \in Nat /\ size \in Nat /\ fed \in Nat
         /\ flying \in [0 .. Largest -> Nat]
<1>1. TypeOK
  BY DEF Fed
<1>2. Largest \in Nat /\ TripsMax \in Nat /\ SourceMax \in Nat
  BY FeedAssumption DEF FeedAssumption
<1>3. WidestFirst \in Nat /\ window <= WidestFirst
  BY <1>1, WidestIs
<1> QED BY <1>1, <1>2, <1>3 DEF Fed, Bounded, TypeOK

\* What a chunk takes that leaves the line.
LEMMA OneTaken ==
  ASSUME Fed, lpc \in {"take", "pack"}, lpc' = "pack", TakeOne, ready > 0, open < window, hand < Largest,
         UNCHANGED <<settings, size, window, status, tasks, room, hungry, fed, source, total, given, fpc>>
  PROVE  Goes
<1>0. /\ ready \in Nat /\ open \in Nat /\ seq \in Nat /\ hand \in Nat /\ late \in Nat /\ backoff \in Nat
      /\ window \in Nat /\ WidestFirst \in Nat /\ window <= WidestFirst /\ Largest \in Nat /\ given \in Nat
  BY Numbers
<1>1. ready' = ready - 1 /\ seq' = seq + 1 /\ open' = open + 1 /\ hand' = hand + 1
  BY DEF TakeOne
<1>2. UNCHANGED <<batch, elastic, flying, late, backoff, trips>>
  BY DEF settings, tasks
<1>9. ready' \in Nat /\ seq' \in Nat /\ open' \in Nat /\ hand' \in 0 .. Largest
  BY <1>0, <1>1
<1>3. TypeOK'
  <2>1. TypeOK
    BY Numbers
  <2> QED BY <1>2, <1>9, <2>1 DEF TypeOK
<1>4. LoopAt'
  BY Numbers DEF LoopAt
<1>5. status = "running"
  BY Numbers DEF LoopAt
<1>6. open' - hand' - late' - backoff' = open - hand - late - backoff
  BY <1>0, <1>1, <1>2
<1>7. Carries(flying, open - hand - late - backoff)
  BY <1>5, Numbers DEF Counted
<1>8. Counted'
  <2>1. given' = seq' + ready' /\ open' <= seq'
    <3>1. given = seq + ready /\ open <= seq
      BY <1>5, Numbers DEF Counted
    <3> QED BY <1>0, <1>1, <3>1
  <2>2. Carries(flying', open' - hand' - late' - backoff')
    BY <1>2, <1>6, <1>7
  <2>3. source' = "ended" => total' = given'
    BY <1>5, Numbers DEF Counted
  <2> QED BY <1>5, <2>1, <2>2, <2>3 DEF Counted, Carries
<1>10. open' <= WidestFirst /\ ready' + open' <= ready + open
  BY <1>0, <1>1
<1> QED BY <1>3, <1>4, <1>8, <1>10 DEF Goes

\* No task is meant to have more chunks than the job has for a task.
LEMMA MostIs ==
  ASSUME Fed
  PROVE  MostInTask <= size /\ MostInTask \in Int
<1>1. Capacity \in Nat /\ Capacity > 0
  BY FeedAssumption DEF FeedAssumption
<1>2. PICK part \in Int : part = (ready + hand + Capacity - 1) \div Capacity
  <2>1. (ready + hand + Capacity - 1) \div Capacity \in Int
    BY <1>1, Numbers, SMTT(30)
  <2> QED BY <2>1
<1>4. size \in Int
  BY Numbers
<1>3. Min({size, part}) <= size /\ Min({size, part}) \in Int
  <2>1. Min({size, part}) \in {size, part} /\ Min({size, part}) <= size
    BY <1>2, <1>4, MinIs
  <2> QED BY <1>2, <1>4, <2>1
<1> QED BY <1>2, <1>3, <1>4 DEF MostInTask

\* Starting a task, up to the moment it is sent.
LEMMA DispatchGoes ==
  ASSUME Fed, DispatchStep
  PROVE  Goes
<1>0. Next
  BY DEF Next, LoopTurn, LoopStep
<1>1. CASE Start
  <2>0. Need >= 1
    BY Numbers DEF Need, Default
  <2>1. UNCHANGED <<batch, elastic, flying, late, backoff, trips>>
    BY <1>1 DEF Start, settings, tasks
  <2>2. TypeOK'
    BY <1>1, <2>1, Numbers DEF Start, TypeOK, ofFeeder
  <2>3. LoopAt'
    BY <1>1, <2>0, Numbers, SMTT(30) DEF Start, LoopAt, MayStart, Need, Default
  <2>4. Counted'
    BY <1>1, <2>1, Numbers DEF Start, Counted, Carries, ofFeeder
  <2> QED BY <1>1, <2>2, <2>3, <2>4, Numbers DEF Start, Goes, ofFeeder
<1>2. CASE Starve
  <2>1. UNCHANGED <<batch, elastic, flying, late, backoff, trips>>
    BY <1>2 DEF Starve, settings, tasks
  <2>2. TypeOK'
    BY <1>2, <2>1, Numbers DEF Starve, Loop, TypeOK, ofFeeder
  <2>3. LoopAt'
    BY <1>2, Numbers DEF Starve, Loop, LoopAt
  <2>4. Counted'
    BY <1>2, <2>1, Numbers DEF Starve, Counted, Carries, ofFeeder
  <2> QED BY <1>2, <2>2, <2>3, <2>4, Numbers DEF Starve, Goes, ofFeeder
<1>3. CASE RecheckReady
  <2>0. Need >= 1
    BY Numbers DEF Need, Default
  <2>1. UNCHANGED <<batch, elastic, flying, late, backoff, trips>>
    BY <1>3 DEF RecheckReady, settings, tasks
  <2>2. TypeOK'
    BY <1>3, <2>1, Numbers DEF RecheckReady, Loop, TypeOK, ofFeeder
  <2>3. LoopAt'
    <3>1. lpc' \in {"idle", "take"} /\ (lpc' = "take" => ready > 0) /\ lpc = "recheck"
      <4>1. Need \in Nat
        BY Numbers DEF Need, Default
      <4>2. ready \in Nat
        BY Numbers
      <4>3. lpc = "recheck" /\ lpc' = IF ready < Need THEN "idle" ELSE "take"
        BY <1>3 DEF RecheckReady, Loop
      <4> HIDE DEF Need
      <4> QED BY ONLY <2>0, <4>1, <4>2, <4>3
    <3> QED BY <1>3, <3>1, Numbers DEF RecheckReady, LoopAt
  <2>4. Counted'
    BY <1>3, <2>1, Numbers DEF RecheckReady, Counted, Carries, ofFeeder
  <2> QED BY <1>3, <2>2, <2>3, <2>4, Numbers DEF RecheckReady, Goes, ofFeeder
<1>4. CASE Take
  <2>1. lpc = "take" /\ lpc' = "pack" /\ TakeOne
    BY <1>4 DEF Take, Loop
  <2>2. ready > 0 /\ open < window /\ hand = 0 /\ Largest > 0
    BY <2>1, Numbers DEF LoopAt, TypeOK
  <2> QED BY <1>4, <2>1, <2>2, OneTaken DEF Take, ofFeeder
<1>5. CASE Pack
  <2>1. lpc = "pack" /\ lpc' = "pack" /\ TakeOne /\ PackOn
    BY <1>5 DEF Pack, Loop
  <2>2. ready > 0 /\ open < window /\ hand < size /\ size <= Largest
    BY <2>1, Numbers, MostIs, SMTT(30) DEF PackOn, TypeOK
  <2>3. hand < Largest
    BY <2>2, Numbers
  <2> QED BY <1>5, <2>1, <2>2, <2>3, OneTaken DEF Pack, ofFeeder
<1>6. CASE Launch
  <2>1. /\ lpc = "pack" /\ lpc' = "room" /\ hand' = 0 /\ flying' = [flying EXCEPT ![hand] = @ + 1]
        /\ UNCHANGED <<batch, elastic, late, backoff, trips, status, open, seq, ready, given, fpc, source, total>>
    BY <1>6 DEF Launch, Loop, settings, ofFeeder
  <2>2. hand \in 0 .. Largest /\ flying' \in [0 .. Largest -> Nat]
    <3>1. hand \in 0 .. Largest /\ flying \in [0 .. Largest -> Nat]
      BY Numbers DEF TypeOK
    <3>2. flying[hand] + 1 \in Nat
      BY ONLY <3>1
    <3> QED BY ONLY <2>1, <3>1, <3>2
  <2>3. TypeOK'
    BY <1>6, <2>1, <2>2, Numbers DEF Launch, TypeOK
  <2>4. LoopAt' /\ status = "running"
    BY <2>1, Numbers DEF LoopAt
  <2>5. Carries(flying, open - hand - late - backoff)
    BY <2>4, Numbers DEF Counted
  <2>6. Carries(flying', open - hand - late - backoff + hand)
    <3>1. flying \in [0 .. Largest -> Int]
      BY Numbers
    <3>2. open \in Int /\ hand \in Int /\ late \in Int /\ backoff \in Int
      BY Numbers
    <3>3. open - hand - late - backoff \in Int
      BY ONLY <3>2
    <3> QED BY <2>1, <2>2, <2>5, <3>1, <3>3, TaskMore
  <2>7. open - hand - late - backoff + hand = open' - hand' - late' - backoff'
    <3>1. open \in Int /\ hand \in Int /\ late \in Int /\ backoff \in Int
      BY Numbers
    <3>2. open' = open /\ hand' = 0 /\ late' = late /\ backoff' = backoff
      BY <2>1
    <3> QED BY ONLY <3>1, <3>2
  <2>8. Counted'
    BY <2>1, <2>4, <2>6, <2>7, Numbers DEF Counted, Carries
  <2> QED BY <2>1, <2>3, <2>4, <2>8, Numbers DEF Goes
<1>7. CASE HalfEmpty
  <2>1. UNCHANGED <<batch, elastic, flying, late, backoff, trips>>
    BY <1>7 DEF HalfEmpty, settings, tasks
  <2>2. TypeOK'
    BY <1>7, <2>1, Numbers DEF HalfEmpty, Loop, TypeOK, ofFeeder
  <2>3. LoopAt'
    BY <1>7, Numbers DEF HalfEmpty, Loop, LoopAt
  <2>4. Counted'
    BY <1>7, <2>1, Numbers DEF HalfEmpty, Counted, Carries, ofFeeder
  <2> QED BY <1>7, <2>2, <2>3, <2>4, Numbers DEF HalfEmpty, Goes, ofFeeder
<1>8. CASE SetRoom
  <2>1. UNCHANGED <<batch, elastic, flying, late, backoff, trips>>
    BY <1>8 DEF SetRoom, settings, tasks
  <2>2. TypeOK'
    BY <1>8, <2>1, Numbers DEF SetRoom, Loop, TypeOK, ofFeeder
  <2>3. LoopAt'
    BY <1>8, Numbers DEF SetRoom, Loop, LoopAt
  <2>4. Counted'
    BY <1>8, <2>1, Numbers DEF SetRoom, Counted, Carries, ofFeeder
  <2> QED BY <1>8, <2>2, <2>3, <2>4, Numbers DEF SetRoom, Goes, ofFeeder
<1> QED BY <1>1, <1>2, <1>3, <1>4, <1>5, <1>6, <1>7, <1>8 DEF DispatchStep

\* A job is over when the last of its chunks is counted, and then there is none of them anywhere.
LEMMA OverIs ==
  ASSUME NEW isFed, NEW line, NEW n \in Int, FinishIfOver(isFed, line, n), status = "running",
         NEW f \in [0 .. Largest -> Nat], NEW l \in Nat, NEW b \in Nat, Carries(f, n - l - b)
  PROVE  \/ status' = "running"
         \/ /\ status' = "over" /\ isFed = "ended" /\ line = 0 /\ l = 0 /\ b = 0
            /\ \A k \in 1 .. Largest : f[k] = 0
<1>1. status' = IF Over(isFed, line, n) THEN "over" ELSE "running"
  BY DEF FinishIfOver
<1>2. ASSUME Over(isFed, line, n)
      PROVE  isFed = "ended" /\ line = 0 /\ l = 0 /\ b = 0 /\ \A k \in 1 .. Largest : f[k] = 0
  <2>1. isFed = "ended" /\ line = 0 /\ n = 0
    BY <1>2 DEF Over
  <2>2. PICK v \in Int : v = n - l - b
    OBVIOUS
  <2>3. v >= 0 /\ \A k \in 0 .. Largest : f[k] > 0 => k <= v
    BY <2>2, AllCarried
  <2>4. l = 0 /\ b = 0 /\ v = 0
    BY <2>1, <2>2, <2>3
  <2>5. Largest \in Nat
    BY FeedAssumption DEF FeedAssumption
  <2>6. ASSUME NEW k \in 1 .. Largest PROVE f[k] = 0
    <3>1. k \in 0 .. Largest /\ k > 0 /\ f[k] \in Nat
      BY <2>5
    <3> QED BY <2>3, <2>4, <3>1
  <2> QED BY <2>1, <2>4, <2>6
<1> QED BY <1>1, <1>2

\* Numbers: with fewer chunks open the bounds still hold, and what is left of the open ones.
LEMMA FewerOpen ==
  ASSUME NEW o \in Nat, NEW o2 \in Nat, NEW w \in Nat, NEW r \in Nat, o2 <= o, o <= w
  PROVE  o2 <= w /\ r + o2 <= r + o
OBVIOUS

\* The loop hears of new chunks, wakes the feeder or stops the job.
LEMMA NoticeGoes ==
  ASSUME Fed, OnFed \/ Drop \/ Release \/ Stop
  PROVE  Goes
<1>1. CASE OnFed
  <2>1. UNCHANGED <<batch, elastic, flying, late, backoff, trips>>
    BY <1>1 DEF OnFed, settings, tasks
  <2>2. TypeOK'
    <3>1. TypeOK /\ fed' \in Nat
      BY <1>1, Numbers, SMTT(30) DEF OnFed
    <3> QED BY <1>1, <2>1, <3>1 DEF OnFed, Listening, TypeOK, ofFeeder
  <2>3. LoopAt'
    BY <1>1, Numbers DEF OnFed, Listening, LoopAt
  <2>4. Counted'
    BY <1>1, <2>1, Numbers DEF OnFed, Counted, Carries, ofFeeder
  <2> QED BY <1>1, <2>2, <2>3, <2>4, Numbers, SMTT(30) DEF OnFed, Goes, ofFeeder
<1>2. CASE Drop
  <2>1. UNCHANGED <<batch, elastic, flying, late, backoff, trips>> /\ ready' = 0 /\ lpc = "drop" /\ lpc' = "release"
    BY <1>2 DEF Drop, Loop, settings, tasks
  <2>2. TypeOK'
    BY <1>2, <2>1, Numbers DEF Drop, TypeOK, ofFeeder
  <2>3. LoopAt'
    BY <1>2, <2>1, Numbers DEF Drop, LoopAt
  <2>4. Counted'
    <3>1. Counted
      BY Numbers
    <3>2. status = "stopped"
      BY <2>1, Numbers DEF LoopAt
    <3> QED BY <1>2, <2>1, <3>1, <3>2 DEF Drop, Counted, ofFeeder
  <2>5. open' <= WidestFirst /\ ready' + open' <= ready + open
    <3>1. open' = open /\ ready' = 0 /\ ready \in Nat /\ open \in Nat /\ open <= WidestFirst
      BY <1>2, <2>1, Numbers DEF Drop
    <3> QED BY <3>1
  <2> QED BY <1>2, <2>2, <2>3, <2>4, <2>5 DEF Drop, Goes, ofFeeder
<1>3. CASE Release
  <2>1. UNCHANGED <<batch, elastic, flying, late, backoff, trips>>
    BY <1>3 DEF Release, settings, tasks
  <2>2. TypeOK'
    BY <1>3, <2>1, Numbers DEF Release, Loop, TypeOK, ofFeeder
  <2>3. LoopAt'
    BY <1>3, Numbers DEF Release, Loop, LoopAt
  <2>4. Counted'
    BY <1>3, <2>1, Numbers DEF Release, Counted, Carries, ofFeeder
  <2> QED BY <1>3, <2>2, <2>3, <2>4, Numbers DEF Release, Goes, ofFeeder
<1>4. CASE Stop
  <2>1. UNCHANGED <<batch, elastic, flying, late, backoff, trips>>
    BY <1>4 DEF Stop, settings, tasks
  <2>2. TypeOK'
    BY <1>4, <2>1, Numbers DEF Stop, TypeOK, ofFeeder
  <2>3. LoopAt'
    BY <1>4, Numbers DEF Stop, LoopAt
  <2>4. Counted'
    BY <1>4, <2>1, Numbers DEF Stop, Counted, Carries, ofFeeder
  <2> QED BY <1>4, <2>2, <2>3, <2>4, Numbers DEF Stop, Goes, ofFeeder
<1> QED BY <1>1, <1>2, <1>3, <1>4

\* Events find the loop with no task in its hand.
LEMMA ListeningAt ==
  ASSUME Fed, Listening
  PROVE  hand = 0 /\ ((hand' = hand) => LoopAt')
BY Numbers DEF Listening, LoopAt

\* The source ended: the total of the job is what it gave.
LEMMA SourceEndGoes ==
  ASSUME Fed, OnSourceEnd
  PROVE  Goes
<1>1. /\ UNCHANGED <<batch, elastic, flying, late, backoff, trips, size, window, ready, seq, open, hand, room, hungry, fed,
                     given, fpc>>
      /\ source = "told" /\ source' = "ended" /\ FinishIfOver(source', ready, open)
      /\ total' = IF status = "running" THEN seq + ready ELSE total
  BY DEF OnSourceEnd, settings, tasks, ofFeeder
<1>2. LoopAt' /\ hand = 0
  BY <1>1, ListeningAt DEF OnSourceEnd
<1>3. status' \in {"running", "over", "stopped"} /\ (status # "running" => status' = status)
  BY <1>1, Numbers DEF FinishIfOver, TypeOK
<1>4. TypeOK'
  <2>1. TypeOK /\ total' \in Int
    BY <1>1, Numbers
  <2> QED BY <1>1, <1>3, <2>1 DEF TypeOK, OnSourceEnd, Listening
<1>5. CASE status = "running"
  <2>1. given = seq + ready /\ open <= seq /\ Carries(flying, open - hand - late - backoff)
    BY <1>5, Numbers DEF Counted
  <2>2. Carries(flying, open - late - backoff)
    <3>1. open - hand - late - backoff = open - late - backoff
      BY <1>2, Numbers
    <3> QED BY <2>1, <3>1
  <2>3. \/ status' = "running"
        \/ status' = "over" /\ ready = 0 /\ late = 0 /\ backoff = 0 /\ \A k \in 1 .. Largest : flying[k] = 0
    <3>1. PICK e : e = source'
      OBVIOUS
    <3>2. flying \in [0 .. Largest -> Nat] /\ late \in Nat /\ backoff \in Nat /\ open \in Int
      BY Numbers
    <3>3. FinishIfOver(e, ready, open)
      BY <1>1, <3>1
    <3>4. \/ status' = "running"
          \/ status' = "over" /\ e = "ended" /\ ready = 0 /\ late = 0 /\ backoff = 0 /\ \A k \in 1 .. Largest : flying[k] = 0
      BY <1>5, <2>2, <3>2, <3>3, OverIs
    <3> QED BY <3>4
  <2>4. total' = given
    BY <1>1, <1>5, <2>1, Numbers
  <2>5. Counted'
    BY <1>1, <2>1, <2>3, <2>4 DEF Counted, Carries
  <2>6. open' <= WidestFirst /\ ready' + open' <= ready + open
    BY <1>1, Numbers
  <2> QED BY <1>1, <1>2, <1>4, <2>5, <2>6 DEF Goes
<1>6. CASE status # "running"
  <2>1. status = "stopped"
    BY <1>1, <1>6, Numbers DEF Counted, TypeOK
  <2> QED BY <1>1, <1>2, <1>3, <1>4, <2>1, Numbers DEF Goes, Counted
<1> QED BY <1>5, <1>6

\* A task came back.
LEMMA DoneGoes ==
  ASSUME Fed, NEW n \in 0 .. Largest, NEW well \in 0 .. n, NEW again \in 0 .. n - well, OnDone(n, well, again)
  PROVE  Goes
<1>0. Next
  BY DEF Next, LoopTurn, TaskBack
<1>1. /\ UNCHANGED <<batch, elastic, ready, seq, hand, room, hungry, fed, source, total, given, fpc>>
      /\ flying[n] > 0 /\ flying' = [flying EXCEPT ![n] = @ - 1] /\ trips + again <= TripsMax
  BY DEF OnDone, settings, ofFeeder
<1>2. LoopAt' /\ hand = 0
  BY <1>1, ListeningAt DEF OnDone
<1>3. /\ Largest \in Nat /\ n \in Nat /\ well \in Nat /\ again \in Nat /\ well + again <= n
      /\ open \in Nat /\ late \in Nat /\ backoff \in Nat /\ trips \in Nat /\ ready \in Nat /\ TripsMax \in Nat
      /\ open <= WidestFirst /\ WidestFirst \in Nat /\ seq \in Nat
  BY Numbers
<1>4. flying \in [0 .. Largest -> Nat] /\ flying' \in [0 .. Largest -> Nat]
  <2>0. flying \in [0 .. Largest -> Nat]
    BY Numbers
  <2>1. flying[n] \in Nat /\ flying[n] > 0
    BY <1>1, <2>0
  <2>2. flying[n] - 1 \in Nat
    BY <2>1
  <2> QED BY <1>1, <2>0, <2>2
<1>5. window' \in Nat \ {0} /\ size' \in 1 .. Largest
  BY <1>0, Numbers, WidestStays
<1>6. CASE status = "running"
  <2>1. /\ late' = late + well /\ backoff' = backoff + again /\ trips' = trips + again
        /\ open' = open - (n - well - again) /\ FinishIfOver(source, ready, open')
    BY <1>6 DEF OnDone
  <2>2. given = seq + ready /\ open <= seq /\ Carries(flying, open - hand - late - backoff)
    BY <1>6, Numbers DEF Counted
  <2>3. PICK v \in Int : v = open - late - backoff
    BY <1>3
  <2>4. Carries(flying, v)
    <3>1. open - hand - late - backoff = v
      BY <1>2, <1>3, <2>3
    <3> QED BY <2>2, <3>1
  <2>5. v >= n
    BY <1>1, <1>4, <2>4, AllCarried
  <2>6. Carries(flying', v - n)
    BY <1>1, <1>4, <2>4, TaskLess
  <2>7. open' \in Nat /\ open' <= open /\ late' \in Nat /\ backoff' \in Nat /\ trips' \in 0 .. TripsMax
    BY <1>1, <1>3, <2>1, <2>3, <2>5
  <2>8. open' - late' - backoff' = v - n
    BY <1>3, <2>1, <2>3
  <2>9. \/ status' = "running"
        \/ /\ status' = "over" /\ source = "ended" /\ ready = 0 /\ late' = 0 /\ backoff' = 0
           /\ \A k \in 1 .. Largest : flying'[k] = 0
    <3>1. PICK o \in Int, l \in Nat, b \in Nat : o = open' /\ l = late' /\ b = backoff'
      BY <2>7
    <3>2. PICK f \in [0 .. Largest -> Nat] : f = flying'
      BY <1>4
    <3>3. FinishIfOver(source, ready, o) /\ Carries(f, o - l - b)
      BY <2>1, <2>6, <2>8, <3>1, <3>2
    <3>4. \/ status' = "running"
          \/ status' = "over" /\ source = "ended" /\ ready = 0 /\ l = 0 /\ b = 0 /\ \A k \in 1 .. Largest : f[k] = 0
      BY <1>6, <3>3, OverIs
    <3> QED BY <3>1, <3>2, <3>4
  <2>10. TypeOK'
    <3>1. TypeOK
      BY Numbers
    <3>2. lpc' \in {"idle", "awake"}
      BY DEF OnDone, Listening
    <3> QED BY <1>1, <1>4, <1>5, <2>7, <2>9, <3>1, <3>2 DEF TypeOK
  <2>11. Counted'
    <3>1. open' <= seq
      <4>1. open <= seq /\ open \in Nat /\ seq \in Nat
        BY <1>3, <2>2
      <4>2. open' \in Nat /\ open' <= open
        BY <2>7
      <4> QED BY <4>1, <4>2
    <3>2. open' - hand' - late' - backoff' = v - n
      <4>1. hand' = 0 /\ open' \in Nat /\ late' \in Nat /\ backoff' \in Nat
        BY <1>1, <1>2, <2>7
      <4>2. PICK o \in Nat, l \in Nat, b \in Nat : o = open' /\ l = late' /\ b = backoff'
        BY <4>1
      <4>3. o - 0 - l - b = o - l - b
        OBVIOUS
      <4>4. o - l - b = v - n
        BY <2>8, <4>2
      <4> QED BY <4>1, <4>2, <4>3, <4>4
    <3>3. source = "ended" => total = given
      BY <1>6, Numbers DEF Counted
    <3>4. Carries(flying', open' - hand' - late' - backoff')
      BY <2>6, <3>2
    <3> QED BY <1>1, <2>2, <2>9, <3>1, <3>3, <3>4 DEF Counted, Carries
  <2>12. open' <= WidestFirst /\ ready' + open' <= ready + open
    <3>1. ready' = ready /\ ready \in Nat /\ open \in Nat /\ open <= WidestFirst /\ WidestFirst \in Nat
      BY <1>1, <1>3
    <3>2. open' \in Nat /\ open' <= open
      BY <2>7
    <3> QED BY <3>1, <3>2, FewerOpen
  <2> QED BY <1>1, <1>2, <2>10, <2>11, <2>12 DEF Goes
<1>7. CASE status # "running"
  <2>1. UNCHANGED <<late, backoff, trips, open, status, size, window>>
    BY <1>7 DEF OnDone
  <2>2. TypeOK'
    <3>1. TypeOK
      BY Numbers
    <3>2. lpc' \in {"idle", "awake"}
      BY DEF OnDone, Listening
    <3> QED BY <1>1, <1>4, <2>1, <3>1, <3>2 DEF TypeOK
  <2>3. ASSUME status = "over", NEW k \in 1 .. Largest PROVE flying'[k] = 0
    <3>1. flying[k] = 0 /\ k \in 0 .. Largest
      BY <1>3, <2>3, Numbers DEF Counted
    <3> QED BY <1>1, <1>4, <3>1
  <2>4. Counted'
    BY <1>1, <1>7, <2>1, <2>3, Numbers DEF Counted
  <2>5. open' <= WidestFirst /\ ready' + open' <= ready + open
    BY <1>1, <1>3, <2>1
  <2> QED BY <1>1, <1>2, <2>2, <2>4, <2>5 DEF Goes
<1> QED BY <1>6, <1>7

\* The chunks of a task that was spared go back in line.
LEMMA SparedGoes ==
  ASSUME Fed, NEW n \in 0 .. Largest, OnSpared(n)
  PROVE  Goes
<1>1. /\ UNCHANGED <<batch, elastic, size, window, status, hand, late, backoff, room, hungry, fed, source, total,
                     given, fpc>>
      /\ flying[n] > 0 /\ flying' = [flying EXCEPT ![n] = @ - 1] /\ trips + n <= TripsMax /\ status = "running"
      /\ trips' = trips + n /\ ready' = ready + n /\ open' = open - n /\ seq' = seq - n
      /\ lpc' \in {"idle", "awake"}
  BY DEF OnSpared, settings, ofFeeder, Listening
<1>2. LoopAt' /\ hand = 0
  BY <1>1, ListeningAt DEF OnSpared
<1>3. /\ n \in Nat /\ open \in Nat /\ late \in Nat /\ backoff \in Nat /\ trips \in Nat /\ ready \in Nat
      /\ TripsMax \in Nat /\ open <= WidestFirst /\ WidestFirst \in Nat /\ seq \in Nat /\ Largest \in Nat
  BY Numbers
<1>4. flying \in [0 .. Largest -> Nat] /\ flying' \in [0 .. Largest -> Nat]
  <2>0. flying \in [0 .. Largest -> Nat]
    BY Numbers
  <2>1. flying[n] \in Nat /\ flying[n] > 0
    BY <1>1, <2>0
  <2>2. flying[n] - 1 \in Nat
    BY <2>1
  <2> QED BY <1>1, <2>0, <2>2
<1>5. given = seq + ready /\ open <= seq /\ Carries(flying, open - hand - late - backoff)
  BY <1>1, Numbers DEF Counted
<1>6. PICK v \in Int : v = open - late - backoff
  BY <1>3
<1>7. Carries(flying, v)
  <2>1. open - hand - late - backoff = v
    BY <1>2, <1>3, <1>6
  <2> QED BY <1>5, <2>1
<1>8. n <= v /\ Carries(flying', v - n)
  BY <1>1, <1>4, <1>7, AllCarried, TaskLess
<1>9. open' \in Nat /\ seq' \in Nat /\ open' <= seq' /\ trips' \in 0 .. TripsMax /\ ready' \in Nat
  <2>1. n <= v /\ open <= seq
    BY <1>5, <1>8
  <2> QED BY <1>1, <1>3, <1>6, <2>1
<1>10. TypeOK'
  <2>1. TypeOK
    BY Numbers
  <2> QED BY <1>1, <1>4, <1>9, <2>1 DEF TypeOK
<1>11. Counted'
  <2>1. open' - hand' - late' - backoff' = v - n
    BY <1>1, <1>2, <1>3, <1>6
  <2>2. given' = seq' + ready'
    <3>1. given = seq + ready
      BY <1>5
    <3> QED BY <1>1, <1>3, <3>1
  <2>3. source = "ended" => total = given
    BY <1>1, Numbers DEF Counted
  <2>4. Carries(flying', open' - hand' - late' - backoff')
    BY <1>8, <2>1
  <2> QED BY <1>1, <1>9, <2>2, <2>3, <2>4 DEF Counted, Carries
<1>12. open' <= WidestFirst /\ ready' + open' <= ready + open
  BY <1>1, <1>3, <1>9
<1> QED BY <1>1, <1>2, <1>10, <1>11, <1>12 DEF Goes

\* Functions: two updates are one after the other.
LEMMA Twice ==
  ASSUME NEW D, NEW R, NEW g \in [D -> R], NEW f \in [D -> R], NEW a \in D, NEW b \in D, a # b,
         f = [g EXCEPT ![a] = @ - 1]
  PROVE  [g EXCEPT ![a] = @ - 1, ![b] = @ + 1] = [f EXCEPT ![b] = @ + 1]
<1>1. ASSUME NEW k \in D
      PROVE  [g EXCEPT ![a] = @ - 1, ![b] = @ + 1][k] = [f EXCEPT ![b] = @ + 1][k]
  <2>1. f[k] = IF k = a THEN g[a] - 1 ELSE g[k]
    OBVIOUS
  <2> QED BY <2>1
<1>2. PICK l : l = [g EXCEPT ![a] = @ - 1, ![b] = @ + 1]
  OBVIOUS
<1>3. PICK r : r = [f EXCEPT ![b] = @ + 1]
  OBVIOUS
<1>4. DOMAIN l = D /\ DOMAIN r = D /\ l = [k \in D |-> l[k]] /\ r = [k \in D |-> r[k]]
  BY <1>2, <1>3
<1>5. \A k \in D : l[k] = r[k]
  BY <1>1, <1>2, <1>3
<1>6. l = r
  BY <1>4, <1>5
<1> QED BY <1>2, <1>3, <1>6

\* A chunk ended ahead of its task.
LEMMA PartGoes ==
  ASSUME Fed, NEW n \in 0 .. Largest, OnPart(n)
  PROVE  Goes
<1>0. PICK well \in 0 .. 1, again \in 0 .. 1 :
        /\ well + again <= 1 /\ trips + again <= TripsMax
        /\ late' = late + well /\ backoff' = backoff + again /\ trips' = trips + again
        /\ open' = open - (1 - well - again)
  BY DEF OnPart
<1>1. /\ UNCHANGED <<batch, elastic, size, window, ready, seq, hand, room, hungry, fed, source, total, given, fpc>>
      /\ n > 0 /\ flying[n] > 0 /\ status = "running" /\ FinishIfOver(source, ready, open')
      /\ flying' = [flying EXCEPT ![n] = @ - 1, ![n - 1] = @ + 1]
      /\ lpc' \in {"idle", "awake"}
  BY DEF OnPart, settings, ofFeeder, Listening
<1>2. LoopAt' /\ hand = 0
  BY <1>1, ListeningAt DEF OnPart
<1>3. /\ n \in Nat /\ open \in Nat /\ late \in Nat /\ backoff \in Nat /\ Largest \in Nat /\ trips \in Nat /\ TripsMax \in Nat
      /\ ready \in Nat /\ WidestFirst \in Nat /\ open <= WidestFirst /\ seq \in Nat
      /\ well \in {0, 1} /\ again \in {0, 1}
  BY Numbers
<1>4. PICK f \in [0 .. Largest -> Nat] : f = [flying EXCEPT ![n] = @ - 1]
  <2>0. flying \in [0 .. Largest -> Nat]
    BY Numbers
  <2>1. flying[n] \in Nat /\ flying[n] > 0
    BY <1>1, <2>0
  <2>2. flying[n] - 1 \in Nat
    BY <2>1
  <2> QED BY <2>0, <2>2
<1>5. PICK m \in 0 .. Largest : m = n - 1
  BY <1>1, <1>3
<1>6. flying' = [f EXCEPT ![m] = @ + 1] /\ flying' \in [0 .. Largest -> Nat]
  <2>1. flying' = [f EXCEPT ![m] = @ + 1]
    <3>1. flying' = [flying EXCEPT ![n] = @ - 1, ![m] = @ + 1]
      BY <1>1, <1>5
    <3>2. m # n /\ flying \in [0 .. Largest -> Nat]
      <4>1. m # n
        BY ONLY <1>3, <1>5
      <4> QED BY <4>1, Numbers
    <3> QED BY <1>4, <3>1, <3>2, Twice
  <2>2. f[m] + 1 \in Nat
    BY <1>4, <1>5
  <2> QED BY <1>4, <2>1, <2>2
<1>7. given = seq + ready /\ open <= seq /\ Carries(flying, open - hand - late - backoff)
  BY <1>1, Numbers DEF Counted
<1>8. PICK v \in Int : v = open - late - backoff
  BY <1>3
<1>9. Carries(flying, v)
  <2>1. open - hand - late - backoff = v
    BY <1>2, <1>3, <1>8
  <2> QED BY <1>7, <2>1
<1>10. Carries(f, v - n)
  <2>1. flying \in [0 .. Largest -> Nat]
    BY Numbers
  <2> QED BY <1>4, <1>9, <2>1, TaskLess
<1>11. Carries(flying', v - n + m)
  <2>1. f \in [0 .. Largest -> Int] /\ v - n \in Int
    BY <1>3, <1>4
  <2> QED BY <1>6, <1>10, <2>1, TaskMore
<1>12. open' \in Nat /\ open' <= open /\ late' \in Nat /\ backoff' \in Nat /\ trips' \in 0 .. TripsMax
  <2>1. n <= v /\ v \in Int
    BY <1>1, <1>9, AllCarried, Numbers
  <2>2. open >= 1
    BY <1>1, <1>3, <1>8, <2>1
  <2> QED BY <1>0, <1>3, <2>2
<1>13. open' - late' - backoff' = v - n + m
  BY <1>0, <1>3, <1>5, <1>8
<1>14. \/ status' = "running"
       \/ /\ status' = "over" /\ source = "ended" /\ ready = 0 /\ late' = 0 /\ backoff' = 0
          /\ \A k \in 1 .. Largest : flying'[k] = 0
  <2>1. PICK o \in Int, l \in Nat, b \in Nat : o = open' /\ l = late' /\ b = backoff'
    BY <1>12
  <2>2. PICK g \in [0 .. Largest -> Nat] : g = flying'
    BY <1>6
  <2>3. FinishIfOver(source, ready, o) /\ Carries(g, o - l - b)
    BY <1>1, <1>11, <1>13, <2>1, <2>2
  <2>4. \/ status' = "running"
        \/ status' = "over" /\ source = "ended" /\ ready = 0 /\ l = 0 /\ b = 0 /\ \A k \in 1 .. Largest : g[k] = 0
    BY <1>1, <2>3, OverIs
  <2> QED BY <2>1, <2>2, <2>4
<1>15. TypeOK'
  <2>1. TypeOK
    BY Numbers
  <2> QED BY <1>1, <1>6, <1>12, <1>14, <2>1 DEF TypeOK
<1>16. Counted'
  <2>1. open' <= seq
    <3>1. open <= seq
      BY <1>7
    <3> QED BY <1>3, <1>12, <3>1
  <2>2. open' - hand' - late' - backoff' = v - n + m
    <3>1. hand' = 0
      BY <1>1, <1>2
    <3>2. PICK o \in Nat, l \in Nat, b \in Nat : o = open' /\ l = late' /\ b = backoff'
      BY <1>12
    <3>3. o - 0 - l - b = o - l - b
      OBVIOUS
    <3> QED BY <1>13, <3>1, <3>2, <3>3
  <2>3. source = "ended" => total = given
    BY <1>1, Numbers DEF Counted
  <2>4. Carries(flying', open' - hand' - late' - backoff')
    BY <1>11, <2>2
  <2> QED BY <1>1, <1>7, <1>14, <2>1, <2>3, <2>4 DEF Counted, Carries
<1>17. open' <= WidestFirst /\ ready' + open' <= ready + open
  <2>1. ready' = ready /\ ready \in Nat /\ open \in Nat /\ open <= WidestFirst /\ WidestFirst \in Nat
    BY <1>1, <1>3
  <2>2. open' \in Nat /\ open' <= open
    BY <1>12
  <2> QED BY <2>1, <2>2, FewerOpen
<1> QED BY <1>1, <1>2, <1>15, <1>16, <1>17 DEF Goes

\* The callback took results.
LEMMA DeliveredGoes ==
  ASSUME Fed, NEW n \in 1 .. late, OnDelivered(n)
  PROVE  Goes
<1>1. /\ UNCHANGED <<batch, elastic, size, window, ready, seq, hand, flying, backoff, trips, room, hungry, fed, source,
                     total, given, fpc>>
      /\ late' = late - n /\ open' = (IF status = "running" THEN open - n ELSE open)
      /\ FinishIfOver(source, ready, open')
      /\ lpc' \in {"idle", "awake"}
  BY DEF OnDelivered, settings, ofFeeder, Listening
<1>2. LoopAt' /\ hand = 0
  BY <1>1, ListeningAt DEF OnDelivered
<1>3. /\ n \in Nat /\ n >= 1 /\ n <= late /\ open \in Nat /\ late \in Nat /\ backoff \in Nat /\ ready \in Nat
      /\ seq \in Nat /\ WidestFirst \in Nat /\ open <= WidestFirst /\ flying \in [0 .. Largest -> Nat]
  BY Numbers
<1>4. CASE status = "running"
  <2>1. given = seq + ready /\ open <= seq /\ Carries(flying, open - hand - late - backoff)
    BY <1>4, Numbers DEF Counted
  <2>2. PICK v \in Int : v = open - late - backoff
    BY <1>3
  <2>3. Carries(flying, v)
    <3>1. open - hand - late - backoff = v
      BY <1>2, <1>3, <2>2
    <3> QED BY <2>1, <3>1
  <2>4. v >= 0
    BY <1>3, <2>3, AllCarried
  <2>5. open' \in Nat /\ open' <= open /\ late' \in Nat /\ open' - late' - backoff = v
    BY <1>1, <1>3, <1>4, <2>2, <2>4
  <2>6. \/ status' = "running"
        \/ status' = "over" /\ source = "ended" /\ ready = 0 /\ late' = 0 /\ backoff = 0
           /\ \A k \in 1 .. Largest : flying[k] = 0
    <3>1. PICK o \in Int, l \in Nat : o = open' /\ l = late'
      BY <2>5
    <3>2. FinishIfOver(source, ready, o) /\ Carries(flying, o - l - backoff)
      BY <1>1, <2>3, <2>5, <3>1
    <3>3. \/ status' = "running"
          \/ status' = "over" /\ source = "ended" /\ ready = 0 /\ l = 0 /\ backoff = 0
             /\ \A k \in 1 .. Largest : flying[k] = 0
      BY <1>3, <1>4, <3>2, OverIs
    <3> QED BY <3>1, <3>3
  <2>7. TypeOK'
    <3>1. TypeOK
      BY Numbers
    <3> QED BY <1>1, <2>5, <2>6, <3>1 DEF TypeOK
  <2>8. Counted'
    <3>1. open' <= seq
      <4>1. open <= seq
        BY <2>1
      <4> QED BY <1>3, <2>5, <4>1
    <3>2. open' - hand' - late' - backoff' = v
      BY <1>1, <1>2, <1>3, <2>5
    <3>3. source = "ended" => total = given
      BY <1>4, Numbers DEF Counted
    <3>4. Carries(flying', open' - hand' - late' - backoff')
      BY <1>1, <2>3, <3>2
    <3> QED BY <1>1, <2>1, <2>6, <3>1, <3>3, <3>4 DEF Counted, Carries
  <2>9. open' <= WidestFirst /\ ready' + open' <= ready + open
    <3>1. ready' = ready /\ ready \in Nat /\ open \in Nat /\ open <= WidestFirst /\ WidestFirst \in Nat
      BY <1>1, <1>3
    <3>2. open' \in Nat /\ open' <= open
      BY <2>5
    <3> QED BY <3>1, <3>2, FewerOpen
  <2> QED BY <1>1, <1>2, <2>7, <2>8, <2>9 DEF Goes
<1>5. CASE status # "running"
  <2>1. status' = status /\ open' = open /\ late' \in Nat
    BY <1>1, <1>3, <1>5 DEF FinishIfOver
  <2>2. TypeOK'
    <3>1. TypeOK
      BY Numbers
    <3> QED BY <1>1, <2>1, <3>1 DEF TypeOK
  <2>3. status # "over"
    <3>1. late # 0
      BY <1>3
    <3> QED BY <3>1, Numbers DEF Counted
  <2>4. Counted'
    BY <1>1, <1>5, <2>1, <2>3, Numbers DEF Counted
  <2>5. open' <= WidestFirst /\ ready' + open' <= ready + open
    BY <1>1, <1>3, <2>1
  <2> QED BY <1>1, <1>2, <2>2, <2>4, <2>5 DEF Goes
<1> QED BY <1>4, <1>5

\* A chunk that failed is back in line.
LEMMA RequeueGoes ==
  ASSUME Fed, Requeue
  PROVE  Goes
<1>1. /\ UNCHANGED <<batch, elastic, size, window, status, hand, flying, late, trips, room, hungry, fed, source, total,
                     given, fpc>>
      /\ backoff > 0 /\ backoff' = backoff - 1
      /\ IF status = "running"
         THEN ready' = ready + 1 /\ open' = open - 1 /\ seq' = seq - 1
         ELSE UNCHANGED <<ready, open, seq>>
      /\ lpc' \in {"idle", "awake"}
  BY DEF Requeue, settings, ofFeeder, Listening
<1>2. LoopAt' /\ hand = 0
  BY <1>1, ListeningAt DEF Requeue
<1>3. /\ open \in Nat /\ late \in Nat /\ backoff \in Nat /\ ready \in Nat
      /\ seq \in Nat /\ WidestFirst \in Nat /\ open <= WidestFirst /\ flying \in [0 .. Largest -> Nat]
  BY Numbers
<1>4. CASE status = "running"
  <2>1. given = seq + ready /\ open <= seq /\ Carries(flying, open - hand - late - backoff)
    BY <1>4, Numbers DEF Counted
  <2>2. PICK v \in Int : v = open - late - backoff
    BY <1>3
  <2>3. Carries(flying, v)
    <3>1. open - hand - late - backoff = v
      BY <1>2, <1>3, <2>2
    <3> QED BY <2>1, <3>1
  <2>4. v >= 0
    BY <1>3, <2>3, AllCarried
  <2>5. open > 0 /\ seq > 0 /\ given = seq + ready
    <3>1. open <= seq /\ given = seq + ready
      BY <2>1
    <3> QED BY <1>1, <1>3, <2>2, <2>4, <3>1
  <2>6. /\ open' \in Nat /\ seq' \in Nat /\ open' <= seq' /\ backoff' \in Nat /\ ready' \in Nat
        /\ open' - late - backoff' = v /\ given = seq' + ready'
    <3>1. open <= seq
      BY <2>1
    <3> QED BY <1>1, <1>3, <1>4, <2>2, <2>5, <3>1
  <2>7. TypeOK'
    <3>1. TypeOK
      BY Numbers
    <3>2. /\ UNCHANGED <<batch, elastic, size, window, status, hand, flying, late, trips, room, hungry, fed,
                          source, total, given, fpc>>
          /\ lpc' \in {"idle", "awake"}
      BY <1>1
    <3>3. open' \in Nat /\ seq' \in Nat /\ backoff' \in Nat /\ ready' \in Nat
      BY <2>6
    <3> QED BY <3>1, <3>2, <3>3 DEF TypeOK
  <2>8. Counted'
    <3>1. open' - hand' - late' - backoff' = v
      <4>1. hand' = 0 /\ late' = late
        BY <1>1, <1>2
      <4>2. open' \in Nat /\ backoff' \in Nat /\ open' - late - backoff' = v
        BY <2>6
      <4>3. PICK o \in Nat, b \in Nat : o = open' /\ b = backoff'
        BY <4>2
      <4>4. late \in Nat
        BY <1>3
      <4>5. o - 0 - late - b = o - late - b
        BY <4>4
      <4>6. o - late - b = v
        BY <4>2, <4>3
      <4> QED BY <4>1, <4>3, <4>5, <4>6
    <3>2. source = "ended" => total = given
      BY <1>4, Numbers DEF Counted
    <3>3. Carries(flying', open' - hand' - late' - backoff')
      BY <1>1, <2>3, <3>1
    <3> QED BY <1>1, <1>4, <2>6, <3>2, <3>3 DEF Counted, Carries
  <2>9. open' <= WidestFirst /\ ready' + open' <= ready + open
    BY <1>1, <1>3, <1>4
  <2> QED BY <1>1, <1>2, <2>7, <2>8, <2>9 DEF Goes
<1>5. CASE status # "running"
  <2>1. UNCHANGED <<ready, open, seq>> /\ backoff' \in Nat
    BY <1>1, <1>3, <1>5
  <2>2. TypeOK'
    <3>1. TypeOK
      BY Numbers
    <3> QED BY <1>1, <2>1, <3>1 DEF TypeOK
  <2>3. status # "over"
    <3>1. backoff # 0
      BY <1>1, <1>3
    <3> QED BY <3>1, Numbers DEF Counted
  <2>4. Counted'
    BY <1>1, <1>5, <2>1, <2>3, Numbers DEF Counted
  <2>5. open' <= WidestFirst /\ ready' + open' <= ready + open
    BY <1>3, <2>1
  <2> QED BY <1>1, <1>2, <2>2, <2>4, <2>5 DEF Goes
<1> QED BY <1>4, <1>5

-----------------------------------------------------------------------------
(* What holds of the job *)

\* A step of the loop leaves the feeder where it is, with no less room than there was.
LEMMA LoopSideKeeps ==
  ASSUME Fed, Next, Goes
  PROVE  Fed'
<1>1. WindowFits' /\ WidestFirst' = WidestFirst /\ WidestFirst \in Nat
  BY Numbers, WidestStays
<1>2. UNCHANGED <<given, fpc>> /\ (source' = source \/ source = "told")
  BY DEF Goes
<1>3. TypeOK' /\ LoopAt' /\ Counted'
  BY DEF Goes
<1>4. open' \in Nat /\ ready' \in Nat /\ open' <= WidestFirst /\ ready' + open' <= ready + open
  BY <1>3 DEF Goes, TypeOK
<1>5. ready \in Nat /\ open \in Nat /\ ready + open <= 2 * WidestFirst
  BY Numbers DEF Bounded
<1>6. PICK b \in Nat, a \in Nat, d \in Nat : b = ready + open /\ a = ready' + open' /\ d = 2 * WidestFirst
  <2>1. ready + open \in Nat
    BY <1>5
  <2>2. ready' \in Nat /\ open' \in Nat
    BY <1>4
  <2>3. ready' + open' \in Nat
    <3>1. PICK r \in Nat, o \in Nat : r = ready' /\ o = open'
      BY <2>2
    <3>2. r + o \in Nat
      OBVIOUS
    <3> QED BY <3>1, <3>2
  <2>4. 2 * WidestFirst \in Nat
    BY <1>1
  <2> QED BY <2>1, <2>3, <2>4
<1>7. a <= b /\ b <= d
  BY <1>4, <1>5, <1>6
<1>8. Bounded'
  <2>1. a <= d
    BY <1>7
  <2> QED BY <1>1, <1>4, <1>6, <2>1 DEF Bounded
<1>9. FeederAt'
  <2>1. FeederAt
    BY Numbers
  <2>2. fpc \in {"look", "append"} => a < d
    <3>1. fpc \in {"look", "append"} => b < d
      BY <1>6, <2>1 DEF FeederAt
    <3> QED BY <1>7, <3>1
  <2>3. fpc \in {"look", "append"} => ready' + open' < 2 * WidestFirst'
    BY <1>1, <1>6, <2>2
  <2> QED BY <1>2, <2>1, <2>3 DEF FeederAt
<1> QED BY <1>1, <1>3, <1>8, <1>9 DEF Fed

\* It holds of a job that was just submitted.
LEMMA FedInit == Init => Fed
<1> SUFFICES ASSUME Init PROVE Fed
  OBVIOUS
<1>1. /\ PackMax \in Nat /\ PackMax > 0 /\ Largest \in Nat /\ PackMax <= Largest /\ SourceMax \in Nat /\ TripsMax \in Nat
      /\ Capacity \in Nat /\ Capacity > 0 /\ Settings \in SUBSET (Nat \X Nat)
      /\ \A s \in Settings : Default(s[1], 1) <= Largest
  BY FeedAssumption DEF FeedAssumption
<1>2. PICK s \in Settings : /\ batch = s[1] /\ elastic = (s[2] = 0)
                            /\ size = Default(s[1], 1)
                            /\ window = WindowOf(s[1], s[2])
  BY DEF Init
<1>3. s[1] \in Nat /\ s[2] \in Nat
  BY <1>1
<1>4. PICK one \in Nat : one = Default(s[1], 1) /\ one > 0 /\ one <= Largest
  <2>1. Default(s[1], 1) \in Nat /\ Default(s[1], 1) > 0
    BY <1>3 DEF Default
  <2> QED BY <1>1, <2>1
<1>5. 2 * Capacity * one \in Nat /\ 2 * Capacity * one >= one
  <2>1. PICK k \in Nat : k = 2 * Capacity /\ k >= 1
    BY <1>1
  <2>2. k * one \in Nat /\ 1 * one <= k * one
    <3>1. \A c \in Nat : one * 1 <= one * k
      BY <1>4, <2>1, TimesGrows
    <3>2. one * k = k * one /\ one * 1 = one /\ 1 * one = one
      BY <1>4, <2>1
    <3>3. one * k \in Nat
      BY <1>4, <2>1, TimesGrows
    <3> QED BY <3>1, <3>2, <3>3
  <2> QED BY <1>4, <2>1, <2>2
<1>6. PICK w \in Nat : w = Default(s[2], 2 * Capacity * one)
  <2>1. Default(s[2], 2 * Capacity * one) \in Nat
    BY <1>3, <1>5 DEF Default
  <2> QED BY <2>1
<1>7. window = Max({w, one})
  BY <1>2, <1>4, <1>6 DEF WindowOf
<1>8. window \in {w, one} /\ window >= one
  BY <1>4, <1>6, <1>7, MaxIs
<1>9. window \in Nat /\ window > 0
  BY <1>4, <1>6, <1>8
<1>10. TypeOK
  <2>1. size \in 1 .. Largest /\ batch \in Nat /\ elastic \in BOOLEAN
    BY <1>1, <1>2, <1>3, <1>4
  <2>2. flying \in [0 .. Largest -> Nat]
    BY DEF Init
  <2>3. /\ status \in {"running", "over", "stopped"} /\ given \in 0 .. SourceMax /\ trips \in 0 .. TripsMax
        /\ ready \in Nat /\ seq \in Nat /\ open \in Nat /\ hand \in 0 .. Largest
        /\ late \in Nat /\ backoff \in Nat /\ room \in BOOLEAN /\ hungry \in BOOLEAN /\ fed \in Nat
    <3>1. /\ status = "running" /\ given = 0 /\ ready = 0 /\ seq = 0 /\ open = 0 /\ hand = 0
          /\ late = 0 /\ backoff = 0 /\ trips = 0 /\ room = FALSE /\ hungry = FALSE /\ fed = 0
      BY DEF Init
    <3>2. 0 \in Nat /\ 0 \in 0 .. SourceMax /\ 0 \in 0 .. TripsMax /\ 0 \in 0 .. Largest
      BY <1>1
    <3> QED BY <3>1, <3>2
  <2>4. total \in Int
    BY DEF Init
  <2>5. /\ source \in {"reading", "told", "ended"} /\ fpc = "pull" /\ lpc = "start"
    BY DEF Init
  <2> QED BY <1>9, <2>1, <2>2, <2>3, <2>4, <2>5 DEF TypeOK
<1>11. WindowFits
  <2> SUFFICES ASSUME elastic, batch = 0 PROVE window <= Stretched(PackMax)
    BY DEF WindowFits
  <2>1. s[2] = 0 /\ one = 1
    BY <1>2, <1>4 DEF Default
  <2>2. PICK k \in Nat : k = 2 * Capacity /\ k >= 1
    BY <1>1
  <2>3. w = k * 1
    BY <1>6, <2>1, <2>2 DEF Default
  <2>4. window <= k
    <3>1. window = w \/ window = 1
      BY <1>8, <2>1
    <3>2. w = k
      BY <2>2, <2>3
    <3> QED BY <2>2, <3>1, <3>2
  <2>5. k * 1 <= k * PackMax
    BY <1>1, TimesGrows
  <2>6. window <= k * PackMax
    <3>1. PICK d \in Nat : d = k * PackMax
      BY <1>1, TimesGrows
    <3>2. k * 1 = k
      OBVIOUS
    <3> QED BY <1>9, <2>4, <2>5, <3>1, <3>2
  <2> QED BY <2>2, <2>6 DEF Stretched
<1>12. /\ fpc = "pull" /\ lpc = "start" /\ source = "reading" /\ status = "running"
       /\ ready = 0 /\ open = 0 /\ seq = 0 /\ given = 0 /\ hand = 0 /\ late = 0 /\ backoff = 0
       /\ flying = [n \in 0 .. Largest |-> 0]
  BY DEF Init
<1>13. FeederAt /\ LoopAt
  BY <1>12 DEF FeederAt, LoopAt
<1>14. Counted
  <2>1. open - hand - late - backoff = 0
    BY <1>12
  <2>2. Carries(flying, open - hand - late - backoff)
    BY <1>12, <2>1, NothingCarried
  <2> QED BY <1>12, <2>2 DEF Counted
<1>15. Bounded
  <2>1. WidestFirst \in Nat
    BY <1>10, WidestIs
  <2> QED BY <1>12, <2>1 DEF Bounded
<1> QED BY <1>10, <1>11, <1>13, <1>14, <1>15 DEF Fed

\* Every step keeps it.
LEMMA FedStep == Fed /\ [Next]_vars => Fed'
<1> SUFFICES ASSUME Fed, [Next]_vars PROVE Fed'
  OBVIOUS
<1>1. CASE FeederStep
  BY <1>1, FeederStepKeeps
<1>2. CASE LoopTurn
  <2>0. Next
    BY <1>2 DEF Next
  <2>1. CASE DispatchStep
    BY <2>0, <2>1, DispatchGoes, LoopSideKeeps
  <2>2. CASE Drop \/ Release \/ OnFed
    BY <2>0, <2>2, NoticeGoes, LoopSideKeeps
  <2>3. CASE OnSourceEnd
    BY <2>0, <2>3, SourceEndGoes, LoopSideKeeps
  <2>4. CASE Requeue
    BY <2>0, <2>4, RequeueGoes, LoopSideKeeps
  <2>5. CASE TaskBack
    <3>1. CASE \E n \in 0 .. Largest : OnSpared(n)
      BY <2>0, <3>1, SparedGoes, LoopSideKeeps
    <3>2. CASE \E n \in 0 .. Largest : \E well \in 0 .. n : \E again \in 0 .. n - well : OnDone(n, well, again)
      BY <2>0, <3>2, DoneGoes, LoopSideKeeps
    <3> QED BY <2>5, <3>1, <3>2 DEF TaskBack
  <2>6. CASE SomeDelivered
    BY <2>0, <2>6, DeliveredGoes, LoopSideKeeps DEF SomeDelivered
  <2> QED BY <1>2, <2>1, <2>2, <2>3, <2>4, <2>5, <2>6 DEF LoopTurn, LoopStep
<1>3. CASE \E n \in 0 .. Largest : OnPart(n)
  <2>1. Next
    BY <1>3 DEF Next
  <2> QED BY <1>3, <2>1, PartGoes, LoopSideKeeps
<1>4. CASE Stop
  <2>1. Next
    BY <1>4 DEF Next
  <2> QED BY <1>4, <2>1, NoticeGoes, LoopSideKeeps
<1>5. CASE UNCHANGED vars
  <2>1. UNCHANGED <<batch, elastic, size, window, status, given, ready, seq, open, hand, flying, late, backoff, trips,
                    room, hungry, fed, source, total, fpc, lpc>>
    BY <1>5 DEF vars, settings, tasks
  <2>2. TypeOK' /\ WindowFits' /\ LoopAt' /\ WidestFirst' = WidestFirst
    BY <2>1, Numbers DEF TypeOK, WindowFits, LoopAt, WidestFirst, Stretched
  <2>3. FeederAt' /\ Bounded'
    BY <2>1, <2>2, Numbers DEF FeederAt, Bounded
  <2>4. Counted'
    BY <2>1, Numbers DEF Counted, Carries
  <2> QED BY <2>2, <2>3, <2>4 DEF Fed
<1> QED BY <1>1, <1>2, <1>3, <1>4, <1>5 DEF Next

\* The invariant holds of every job.
LEMMA FedHolds == Spec => []Fed
<1> QED BY FedInit, FedStep, PTL DEF Spec

\* What `submit` says of the window holds of every job, whatever it was submitted with: so many
\* chunks are open, and so many more are read ahead, although the feeder appends on a length it
\* read some steps before (engine.py `_feed`, `_start_one`, `_requeue`).
THEOREM ReadAheadHolds == Spec => []ReadAhead
<1>1. Fed => ReadAhead
  BY DEF Fed, Bounded, ReadAhead
<1> QED BY <1>1, FedHolds, PTL

\* The total of a job is what its source gave, and the job is over only when every chunk of it is
\* counted, for tasks of any size and any number of workers (engine.py `_on_source_end`,
\* `_finish_if_over`).
THEOREM OverMeansOverHolds == Spec => []OverMeansOver
<1>1. ASSUME Fed PROVE OverMeansOver
  <2>1. FeederAt /\ LoopAt /\ Counted
    BY <1>1 DEF Fed
  <2> QED BY <2>1 DEF FeederAt, LoopAt, Counted, OverMeansOver
<1> QED BY <1>1, FedHolds, PTL
=============================================================================
