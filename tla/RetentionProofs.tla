--------------------------- MODULE RetentionProofs ---------------------------
(***************************************************************************)
(* Proofs about Retention, for any agents, values, retention and interval, *)
(* any start within an hour, any statements that fail and any downtimes.   *)
(*                                                                         *)
(* The argument: passes begin at the start of the worker and a multiple of *)
(* the interval later, so since the last pass due less than one interval   *)
(* has gone by (SinceDue), and a purge that succeeded left nothing older   *)
(* than the retention at that time.  Only expired samples are ever gone    *)
(* (SummaryInv), so a rollup sums up all that was stored in an hour within *)
(* the retention; and what expires is of a finished hour, which the rollup *)
(* before the purge has summed up (Covered).                               *)
(***************************************************************************)
EXTENDS Retention, DataLemmas, FiniteSetTheorems

SinceDue == (now - started) % IntervalSlots

(* A pass is under way, or due, only at its time.                          *)
OnTime == phase \in {"rollup", "purge"} \/ ticked => SinceDue = 0
Young ==
    phase = "idle" /\ ~ticked /\ purged =>
        \A s \in telemetry : now - SinceDue - s.time <= RetentionSlots
RetentionInv ==
    /\ now \in Nat /\ started \in Nat /\ started <= now
    /\ phase \in {"idle", "rollup", "purge", "down"}
    /\ {ticked, rolled, purged} \subseteq BOOLEAN
    /\ telemetry \subseteq Samples
    /\ OnTime /\ Young

----------------------------------------------------------------------------
(* The remainder grows by one until it starts again.                       *)
LEMMA NextRemainder ==
    ASSUME NEW n \in Nat, NEW k \in Nat \ {0}, (n + 1) % k # 0
    PROVE  (n + 1) % k = (n % k) + 1
<1> DEFINE q == n \div k
           r == n % k
           p == (n + 1) \div k
           s == (n + 1) % k
<1>1. q \in Int /\ r \in 0 .. k - 1 /\ n = (k * q) + r
  BY Division
<1>2. p \in Int /\ s \in 0 .. k - 1 /\ n + 1 = k * p + s
  BY Division
<1> HIDE DEF q, r, p, s
<1>3. k * (p - q) = r + 1 - s
  BY <1>1, <1>2
<1>4. CASE p = q
  BY <1>1, <1>2, <1>3, <1>4 DEF s, r
<1>5. CASE p > q
  <2>1. k * (p - q) >= k
    BY <1>1, <1>2, <1>5
  <2>2. s <= 0
    BY <1>1, <1>2, <1>3, <2>1
  <2> QED BY <1>2, <2>2 DEF s
<1>6. CASE p < q
  <2>1. k * (p - q) <= 0 - k
    BY <1>1, <1>2, <1>6
  <2> QED BY <1>1, <1>2, <1>3, <2>1
<1> QED BY <1>1, <1>2, <1>4, <1>5, <1>6

(* Nothing is left of nothing.                                             *)
LEMMA RemainderOfZero == ASSUME NEW k \in Nat \ {0} PROVE 0 % k = 0
OBVIOUS

----------------------------------------------------------------------------
(* At the start nothing is due and nothing is old.                         *)
LEMMA RetentionInit == Init => RetentionInv
<1> SUFFICES ASSUME Init PROVE RetentionInv
  OBVIOUS
<1>1. now \in Nat
  BY TimingAssumption DEF Init
<1>2. OnTime /\ Young
  BY DEF Init, OnTime, Young
<1>3. /\ started = now /\ telemetry = {} /\ phase = "down"
      /\ {ticked, rolled, purged} \subseteq BOOLEAN
  BY DEF Init
<1> QED BY <1>1, <1>2, <1>3 DEF RetentionInv

(* Every step keeps the passes on time and the samples young.              *)
LEMMA RetentionStep ==
    ASSUME Lateness <= RetentionSlots, RetentionInv, [Next]_vars
    PROVE  RetentionInv'
<1> USE TimingAssumption DEF RetentionInv
<1>1. SinceDue \in 0 .. IntervalSlots - 1
  BY DEF SinceDue
<1>2. ASSUME NEW a \in Agents, NEW v \in Values, Store(a, v) PROVE RetentionInv'
  <2>1. PICK t \in Times :
            /\ now - Lateness <= t /\ t <= now
            /\ telemetry' = telemetry \cup {[agent |-> a, time |-> t, value |-> v]}
    BY <1>2 DEF Store
  <2>2. UNCHANGED <<now, workerVars, resultVars>>
    BY <1>2 DEF Store
  <2>3. telemetry' \subseteq Samples
    BY <2>1 DEF Samples
  <2>4. t \in Nat
    BY <2>1 DEF Times
  <2>5. now - SinceDue - t <= RetentionSlots
    BY <1>1, <2>1, <2>4
  <2>6. Young'
    BY <2>1, <2>2, <2>5 DEF Young, SinceDue, workerVars, resultVars
  <2>7. OnTime'
    BY <2>2 DEF OnTime, SinceDue, workerVars
  <2> QED BY <2>2, <2>3, <2>6, <2>7 DEF workerVars, resultVars
<1>3. CASE Start
  BY <1>3, RemainderOfZero DEF Start, OnTime, Young, SinceDue, resultVars
<1>4. CASE Rollup \/ RollupFails \/ PurgeFails
  BY <1>4 DEF Rollup, RollupFails, PurgeFails, OnTime, Young, SinceDue
<1>5. CASE Purge
  <2>1. /\ UNCHANGED <<now, started, ticked>> /\ phase = "purge" /\ phase' = "idle"
        /\ telemetry' \subseteq telemetry
        /\ \A s \in telemetry' : ~(s.time < now - RetentionSlots)
    BY <1>5 DEF Purge, Expired
  <2>2. SinceDue' = 0 /\ OnTime'
    BY <2>1 DEF OnTime, SinceDue
  <2>3. ASSUME NEW s \in telemetry' PROVE now' - SinceDue' - s.time <= RetentionSlots
    <3>1. s.time \in Nat /\ ~(s.time < now - RetentionSlots)
      BY <2>1, <2>3 DEF Samples, Times
    <3> QED BY <2>1, <2>2, <3>1
  <2>4. Young'
    BY <2>3 DEF Young
  <2> QED BY <1>5, <2>1, <2>2, <2>4 DEF Purge
<1>6. CASE NextPass
  BY <1>6 DEF NextPass, OnTime, Young, SinceDue, resultVars
<1>7. CASE Tick
  <2>1. /\ UNCHANGED <<telemetry, phase, started, rolled, purged>> /\ now' = now + 1
        /\ ticked' = (phase = "idle" /\ SinceDue' = 0)
        /\ phase = "down" \/ (phase = "idle" /\ ~ticked)
    BY <1>7 DEF Tick, resultVars, SinceDue
  <2>2. SinceDue' # 0 => SinceDue' = SinceDue + 1
    <3> DEFINE n == now - started
    <3>1. n \in Nat /\ now' - started' = n + 1
      BY <2>1
    <3>2. SinceDue = n % IntervalSlots /\ SinceDue' = (n + 1) % IntervalSlots
      BY <2>1, <3>1 DEF SinceDue
    <3> HIDE DEF n
    <3> QED BY <3>1, <3>2, NextRemainder
  <2>3. ASSUME phase = "idle", ~ticked', purged, NEW s \in telemetry
        PROVE  now' - SinceDue' - s.time <= RetentionSlots
    <3>1. ~ticked /\ SinceDue' = SinceDue + 1
      BY <2>1, <2>2, <2>3
    <3>2. now - SinceDue - s.time <= RetentionSlots /\ s.time \in Nat
      BY <2>3, <3>1 DEF Young, Samples, Times
    <3> QED BY <1>1, <2>1, <3>1, <3>2
  <2>4. Young'
    BY <2>1, <2>3 DEF Young
  <2>5. OnTime'
    BY <2>1 DEF OnTime
  <2> QED BY <2>1, <2>4, <2>5
<1>8. CASE Crash
  BY <1>8 DEF Crash, OnTime, Young, SinceDue
<1>9. CASE UNCHANGED vars
  BY <1>9 DEF vars, workerVars, resultVars, OnTime, Young, SinceDue
<1> QED BY <1>2, <1>3, <1>4, <1>5, <1>6, <1>7, <1>8, <1>9 DEF Next

(* No raw sample outlives the retention by an interval: however long the   *)
(* server was down and whichever rollups failed, provided samples do not   *)
(* arrive later than the retention.                                        *)
THEOREM NothingOutlivesRetention ==
    ASSUME Lateness <= RetentionSlots
    PROVE  Spec => []RetentionEnforced
<1>1. RetentionInv => RetentionEnforced
  <2> SUFFICES ASSUME RetentionInv, phase = "idle", ~ticked, purged,
                      NEW s \in telemetry
               PROVE  now - s.time < RetentionSlots + IntervalSlots
    BY DEF RetentionEnforced
  <2>1. now - SinceDue - s.time <= RetentionSlots
    BY DEF RetentionInv, Young
  <2>2. SinceDue \in 0 .. IntervalSlots - 1
    BY TimingAssumption DEF RetentionInv, SinceDue
  <2>3. s.time \in Nat
    BY DEF RetentionInv, Samples, Times
  <2> QED BY <2>1, <2>2, <2>3, TimingAssumption DEF RetentionInv
<1>2. RetentionInv /\ [Next]_vars => RetentionInv'
  BY RetentionStep
<1> QED BY <1>1, <1>2, RetentionInit, PTL DEF Spec

----------------------------------------------------------------------------
(* The summaries.                                                          *)

(* A finite set of integers that is not empty has a least and a greatest.  *)
LEMMA ExtremesExist ==
    ASSUME NEW S, S \subseteq Int, S # {}, IsFiniteSet(S)
    PROVE  /\ \E x \in S : \A y \in S : x >= y
           /\ \E x \in S : \A y \in S : x <= y
<1> DEFINE Highest(f, n, i) == \A j \in 1 .. n : f[i] >= f[j]
           Lowest(f, n, i) == \A j \in 1 .. n : f[i] <= f[j]
           Extremes(f, n) == /\ \E i \in 1 .. n : Highest(f, n, i)
                             /\ \E i \in 1 .. n : Lowest(f, n, i)
           Good(n) == n > 0 => \A f \in [1 .. n -> Int] : Extremes(f, n)
           D == {n \in Nat : Good(n)}
<1>1. 0 \in D
  OBVIOUS
<1>2. ASSUME NEW n \in Nat, n \in D PROVE n + 1 \in D
  <2>1. CASE n = 0
    BY <2>1
  <2>2. CASE n > 0
    <3> SUFFICES ASSUME NEW f \in [1 .. n + 1 -> Int] PROVE Extremes(f, n + 1)
      <4> HIDE DEF Extremes
      <4> QED OBVIOUS
    <3> DEFINE g == [i \in 1 .. n |-> f[i]]
    <3>1. g \in [1 .. n -> Int] /\ \A i \in 1 .. n : g[i] = f[i]
      OBVIOUS
    <3> HIDE DEF g
    <3>2. PICK i \in 1 .. n : Highest(g, n, i)
      BY <1>2, <2>2, <3>1
    <3>3. PICK k \in 1 .. n : Lowest(g, n, k)
      BY <1>2, <2>2, <3>1
    <3>4. \A j \in 1 .. n + 1 : j = n + 1 \/ j \in 1 .. n
      OBVIOUS
    <3>5. \A j \in 1 .. n : f[i] >= f[j] /\ f[k] <= f[j]
      BY <3>1, <3>2, <3>3
    <3>6. /\ f[i] \in Int /\ f[k] \in Int /\ f[n + 1] \in Int
          /\ \A j \in 1 .. n : f[j] \in Int
          /\ i \in 1 .. n + 1 /\ k \in 1 .. n + 1 /\ n + 1 \in 1 .. n + 1
      OBVIOUS
    <3>7. \E h \in 1 .. n + 1 : Highest(f, n + 1, h)
      <4>1. CASE f[i] >= f[n + 1]
        <5>1. Highest(f, n + 1, i)
          BY <3>4, <3>5, <4>1
        <5> QED BY <3>6, <5>1
      <4>2. CASE f[n + 1] >= f[i]
        <5>1. \A j \in 1 .. n : f[n + 1] >= f[j]
          BY <3>5, <3>6, <4>2
        <5>2. Highest(f, n + 1, n + 1)
          BY <3>4, <3>6, <5>1
        <5> QED BY <3>6, <5>2
      <4> QED BY <3>6, <4>1, <4>2
    <3>8. \E h \in 1 .. n + 1 : Lowest(f, n + 1, h)
      <4>1. CASE f[k] <= f[n + 1]
        <5>1. Lowest(f, n + 1, k)
          BY <3>4, <3>5, <4>1
        <5> QED BY <3>6, <5>1
      <4>2. CASE f[n + 1] <= f[k]
        <5>1. \A j \in 1 .. n : f[n + 1] <= f[j]
          BY <3>5, <3>6, <4>2
        <5>2. Lowest(f, n + 1, n + 1)
          BY <3>4, <3>6, <5>1
        <5> QED BY <3>6, <5>2
      <4> QED BY <3>6, <4>1, <4>2
    <3> QED BY <3>7, <3>8
  <2> QED BY <2>1, <2>2
<1>3. Nat \subseteq D
  <2> HIDE DEF D
  <2> QED BY <1>1, <1>2, NaturalsAreReached
<1>4. PICK n \in Nat : n > 0 /\ Cardinality(S) = n
  BY FS_CardinalityType, FS_EmptySet
<1>5. PICK f \in [1 .. n -> S] : \A s \in S : \E i \in 1 .. n : f[i] = s
  BY <1>4, FS_CardinalityType DEF ExistsBijection, Bijection, Surjection
<1>6. Extremes(f, n)
  <2> HIDE DEF Extremes
  <2>1. f \in [1 .. n -> Int]
    BY <1>5
  <2>2. Good(n)
    <3> HIDE DEF Good
    <3> QED BY <1>3
  <2> QED BY <1>4, <2>1, <2>2
<1>7. \E x \in S : \A y \in S : x >= y
  <2>1. PICK i \in 1 .. n : Highest(f, n, i)
    BY <1>6
  <2>2. f[i] \in S /\ \A y \in S : f[i] >= y
    BY <1>5, <2>1
  <2> QED BY <2>2
<1>8. \E x \in S : \A y \in S : x <= y
  <2>1. PICK i \in 1 .. n : Lowest(f, n, i)
    BY <1>6
  <2>2. f[i] \in S /\ \A y \in S : f[i] <= y
    BY <1>5, <2>1
  <2> QED BY <2>2
<1> QED BY <1>7, <1>8

(* The summary of a bucket of numbers is one, and its extremes are ordered.*)
LEMMA SummaryType ==
    ASSUME NEW bucket, IsFiniteSet(bucket), bucket # {},
           \A s \in bucket : s.value \in Int
    PROVE  /\ SummaryOf(bucket) \in Summaries
           /\ SummaryOf(bucket).low <= SummaryOf(bucket).high
           /\ SummaryOf(bucket) # None
<1> DEFINE values == {s.value : s \in bucket}
           f == [s \in bucket |-> s.value]
<1>1. f \in Surjection(bucket, values)
  BY DEF Surjection
<1>2. IsFiniteSet(values)
  BY <1>1, FS_Surjection
<1>3. values \subseteq Int /\ values # {}
  OBVIOUS
<1>4. Cardinality(bucket) \in Nat \ {0}
  BY FS_CardinalityType, FS_EmptySet
<1> HIDE DEF values, f
<1>5. Max(values) \in values /\ \A y \in values : Max(values) >= y
  BY <1>2, <1>3, ExtremesExist DEF Max
<1>6. Min(values) \in values /\ \A y \in values : Min(values) <= y
  BY <1>2, <1>3, ExtremesExist DEF Min
<1>7. SummaryOf(bucket) = [count |-> Cardinality(bucket), low |-> Min(values),
                           high |-> Max(values)]
  BY DEF SummaryOf, values
<1>8. Min(values) \in Int /\ Max(values) \in Int /\ Min(values) <= Max(values)
  BY <1>3, <1>5, <1>6
<1>9. SummaryOf(bucket) \in Summaries
  BY <1>4, <1>7, <1>8 DEF Summaries
<1> QED BY <1>7, <1>8, <1>9, NoneAssumption

(* The hours are the quotients of the times.                               *)
LEMMA HourBounds ==
    ASSUME NEW t \in Nat
    PROVE  /\ Hour(t) \in Nat
           /\ Hour(t) * SlotsPerHour <= t
           /\ t < Hour(t) * SlotsPerHour + SlotsPerHour
<1> DEFINE q == t \div SlotsPerHour
           r == t % SlotsPerHour
<1>1. q \in Int /\ r \in 0 .. SlotsPerHour - 1 /\ t = SlotsPerHour * q + r
  BY Division, TimingAssumption
<1>2. Hour(t) = q
  BY DEF Hour
<1> HIDE DEF q, r
<1>3. q >= 0
  <2> SUFFICES ASSUME q <= 0 - 1 PROVE FALSE
    BY <1>1
  <2>1. SlotsPerHour * q <= 0 - SlotsPerHour
    BY <1>1, TimingAssumption
  <2> QED BY <1>1, <2>1, TimingAssumption
<1> QED BY <1>1, <1>2, <1>3, TimingAssumption

(* Hours follow their slots.                                               *)
LEMMA HourMonotone ==
    ASSUME NEW t \in Nat, NEW u \in Nat, t <= u
    PROVE  /\ Hour(t) <= Hour(u)
           /\ t + SlotsPerHour <= u => Hour(t) < Hour(u)
<1> DEFINE p == Hour(t)
           q == Hour(u)
           k == SlotsPerHour
<1>1. /\ p \in Nat /\ q \in Nat /\ k \in Nat /\ k > 0
      /\ p * k <= t /\ t < p * k + k /\ q * k <= u /\ u < q * k + k
  BY HourBounds, TimingAssumption
<1> HIDE DEF p, q, k
<1>2. ASSUME p > q PROVE FALSE
  <2>1. p * k >= q * k + k
    BY <1>1, <1>2
  <2> QED BY <1>1, <2>1
<1>3. ASSUME t + k <= u, p >= q PROVE FALSE
  <2>1. p * k >= q * k
    BY <1>1, <1>3
  <2> QED BY <1>1, <1>3, <2>1
<1>4. p <= q /\ (t + k <= u => p < q)
  BY <1>1, <1>2, <1>3
<1> QED BY <1>4 DEF p, q, k

----------------------------------------------------------------------------
(* What the rollups and purges leave behind: only expired samples are gone,*)
(* whatever was stored is finite, and every summary is one.                *)
SummaryOK(s) == s = None \/ (s \in Summaries /\ s.low <= s.high)
SummaryInv ==
    /\ TypeOK
    /\ IsFiniteSet(stored)
    /\ hourly \in [Agents -> [Hours -> Summaries \cup {None}]]
    /\ \A s \in stored \ telemetry : Expired(s)

(* At the start nothing was stored or summarised.                          *)
LEMMA SummaryInit == Init => SummaryInv
<1> SUFFICES ASSUME Init PROVE SummaryInv
  OBVIOUS
<1>1. now \in Times
  BY TimingAssumption DEF Init, Times
<1>2. IsFiniteSet(stored)
  BY FS_EmptySet DEF Init
<1>3. {ticked, rolled, purged} \subseteq BOOLEAN
  BY DEF Init
<1>4. /\ hourly \in [Agents -> [Hours -> Summaries \cup {None}]]
      /\ \A a \in Agents, h \in Hours : hourly[a][h] = None
  BY DEF Init
<1>5. restarts \in 0 .. MaxRestarts
  BY TimingAssumption DEF Init
<1>6. /\ started = now /\ telemetry = {} /\ stored = {} /\ phase = "down"
  BY DEF Init
<1>7. TypeOK
  BY <1>1, <1>3, <1>4, <1>5, <1>6 DEF TypeOK
<1> QED BY <1>2, <1>4, <1>6, <1>7 DEF SummaryInv

(* A rollup writes summaries of the finished hours and nothing else.       *)
LEMMA RollupWrites ==
    ASSUME SummaryInv, Rollup, NEW a \in Agents, NEW h \in Hours
    PROVE  LET bucket == InBucket({s \in telemetry : Finished(s)}, a, h) IN
           /\ hourly'[a][h] = IF bucket = {} THEN hourly[a][h] ELSE SummaryOf(bucket)
           /\ bucket # {} => SummaryOf(bucket) \in Summaries
           /\ bucket # {} => SummaryOf(bucket).low <= SummaryOf(bucket).high
           /\ bucket # {} => SummaryOf(bucket) # None
<1> DEFINE finished == {s \in telemetry : Finished(s)}
           bucket == InBucket(finished, a, h)
<1>1. /\ \A s \in finished : s.value # Malformed
      /\ hourly' = Upserted(finished)
  BY DEF Rollup
<1>2. /\ bucket \in SUBSET stored
      /\ \A s \in bucket : s \in finished /\ s \in Samples
  BY DEF SummaryInv, TypeOK, InBucket
<1>3. IsFiniteSet(bucket)
  BY <1>2, FS_Subset DEF SummaryInv
<1>4. \A s \in bucket : s.value \in Int
  BY <1>1, <1>2, ValuesAssumption DEF Samples
<1>5. hourly'[a][h] = IF bucket = {} THEN hourly[a][h] ELSE SummaryOf(bucket)
  BY <1>1 DEF Upserted
<1> HIDE DEF bucket
<1>6. bucket # {} => /\ SummaryOf(bucket) \in Summaries
                     /\ SummaryOf(bucket).low <= SummaryOf(bucket).high
                     /\ SummaryOf(bucket) # None
  BY <1>3, <1>4, SummaryType
<1> QED BY <1>5, <1>6 DEF bucket

(* Every step keeps the types, and purges only expired samples.            *)
LEMMA SummaryStep == SummaryInv /\ [Next]_vars => SummaryInv'
<1> SUFFICES ASSUME SummaryInv, [Next]_vars PROVE SummaryInv'
  OBVIOUS
<1> USE DEF SummaryInv
<1>0. /\ now \in Nat /\ MaxTime \in Nat
      /\ \A s \in stored : s \in Samples /\ s.time \in Nat
  BY TimingAssumption DEF TypeOK, Times, Samples
<1>1. ASSUME NEW a \in Agents, NEW v \in Values, Store(a, v) PROVE SummaryInv'
  <2>1. PICK t \in Times :
            /\ telemetry' = telemetry \cup {[agent |-> a, time |-> t, value |-> v]}
            /\ stored' = stored \cup {[agent |-> a, time |-> t, value |-> v]}
    BY <1>1 DEF Store
  <2>2. UNCHANGED <<now, hourly, workerVars, resultVars, restarts>>
    BY <1>1 DEF Store
  <2>3. IsFiniteSet(stored')
    BY <2>1, FS_AddElement
  <2>4. stored' \in SUBSET Samples /\ telemetry' \in SUBSET stored'
    BY <2>1 DEF TypeOK, Samples
  <2>5. TypeOK'
    BY <2>2, <2>4 DEF TypeOK, workerVars, resultVars
  <2>6. \A s \in stored' \ telemetry' : s.time < now - RetentionSlots
    BY <2>1 DEF Expired
  <2> QED BY <2>2, <2>3, <2>5, <2>6 DEF Expired
<1>2. CASE Rollup
  <2>1. /\ UNCHANGED <<now, telemetry, started, ticked, stored, purged, restarts>>
        /\ phase' = "purge" /\ rolled' = TRUE
        /\ hourly' = Upserted({s \in telemetry : Finished(s)})
    BY <1>2 DEF Rollup
  <2>2. ASSUME NEW a \in Agents, NEW h \in Hours
        PROVE  /\ hourly'[a][h] \in Summaries \cup {None}
               /\ \/ hourly'[a][h] = None
                  \/ hourly'[a][h] \in Summaries /\ hourly'[a][h].low <= hourly'[a][h].high
    BY <1>2, <2>2, RollupWrites DEF TypeOK
  <2>3. hourly' \in [Agents -> [Hours -> Summaries \cup {None}]]
    <3>1. hourly' = [a \in Agents |-> [h \in Hours |-> hourly'[a][h]]]
      BY <2>1 DEF Upserted
    <3> QED BY <2>2, <3>1
  <2>4. {ticked', rolled', purged'} \subseteq BOOLEAN
    BY <2>1 DEF TypeOK
  <2>5. TypeOK'
    BY <2>1, <2>2, <2>4 DEF TypeOK
  <2> QED BY <2>1, <2>3, <2>5 DEF Expired
<1>3. CASE Purge
  <2>1. /\ UNCHANGED <<now, hourly, started, ticked, stored, restarts>>
        /\ phase' = "idle" /\ purged' = TRUE /\ rolled' = FALSE
        /\ telemetry' = {s \in telemetry : ~Expired(s)}
    BY <1>3 DEF Purge
  <2>2. telemetry' \in SUBSET stored' /\ {ticked', rolled', purged'} \subseteq BOOLEAN
    BY <2>1 DEF TypeOK
  <2>3. TypeOK'
    BY <2>1, <2>2 DEF TypeOK
  <2>4. \A s \in stored' \ telemetry' : Expired(s)'
    BY <2>1 DEF Expired
  <2> QED BY <2>1, <2>3, <2>4
<1>4. CASE Tick
  <2>1. /\ UNCHANGED <<telemetry, hourly, phase, started, stored, resultVars, restarts>>
        /\ now' = now + 1 /\ now < MaxTime /\ ticked' \in BOOLEAN
    BY <1>4 DEF Tick
  <2>2. now' \in Times
    BY <1>0, <2>1 DEF Times
  <2>3. TypeOK'
    BY <2>1, <2>2 DEF TypeOK, resultVars
  <2>4. ASSUME NEW s \in stored' \ telemetry' PROVE s.time < now' - RetentionSlots
    <3>1. s.time \in Nat /\ s.time < now - RetentionSlots
      BY <1>0, <2>1, <2>4 DEF Expired
    <3> QED BY <1>0, <2>1, <3>1, TimingAssumption
  <2> QED BY <2>1, <2>3, <2>4 DEF Expired
<1>5. CASE Crash
  <2>1. /\ UNCHANGED <<now, telemetry, hourly, started, stored>>
        /\ phase' = "down" /\ {ticked', rolled', purged'} \subseteq BOOLEAN
        /\ restarts' = restarts + 1 /\ restarts < MaxRestarts
    BY <1>5 DEF Crash
  <2>2. restarts' \in 0 .. MaxRestarts
    BY <2>1, TimingAssumption DEF TypeOK
  <2>3. TypeOK'
    BY <2>1, <2>2 DEF TypeOK
  <2> QED BY <2>1, <2>3 DEF Expired
<1>6. CASE Start \/ RollupFails \/ PurgeFails \/ NextPass \/ UNCHANGED vars
  <2>1. /\ UNCHANGED <<now, telemetry, hourly, stored, restarts>>
        /\ started' \in {started, now} /\ {ticked', rolled', purged'} \subseteq BOOLEAN
        /\ phase' \in {"idle", "rollup", "purge", "down"}
    BY <1>6 DEF Start, RollupFails, PurgeFails, NextPass, vars, workerVars, resultVars, TypeOK
  <2>2. TypeOK'
    BY <2>1 DEF TypeOK
  <2> QED BY <2>1, <2>2 DEF Expired
<1> QED BY <1>1, <1>2, <1>3, <1>4, <1>5, <1>6 DEF Next

(* The worker's tables stay well formed, and a summary's minimum is never  *)
(* over its maximum.                                                       *)
THEOREM RetentionTypes == Spec => []TypeOK
BY SummaryInit, SummaryStep, PTL DEF Spec, SummaryInv

----------------------------------------------------------------------------
(* What the summaries cover.                                               *)

(* The raw samples of an hour that starts within the retention are all     *)
(* there, so the bucket that a rollup sums up is everything ever stored.   *)
LEMMA RetainedBucket ==
    ASSUME SummaryInv, NEW a \in Agents, NEW h \in Hours, h < Hour(now),
           now - RetentionSlots <= h * SlotsPerHour
    PROVE  InBucket({s \in telemetry : Finished(s)}, a, h) = InBucket(stored, a, h)
<1>1. /\ telemetry \subseteq stored /\ now \in Nat /\ RetentionSlots \in Nat
      /\ \A s \in stored : s.time \in Nat
      /\ \A s \in stored \ telemetry : s.time < now - RetentionSlots
  BY TimingAssumption DEF SummaryInv, TypeOK, Times, Samples, Expired
<1>2. ASSUME NEW s \in stored, Hour(s.time) = h PROVE s \in telemetry
  <2> DEFINE first == h * SlotsPerHour
  <2>1. s.time \in Nat /\ first <= s.time
    BY <1>1, <1>2, HourBounds
  <2>2. h \in Nat
    BY <1>1, <1>2, <2>1, HourBounds
  <2>3. first \in Int /\ now - RetentionSlots <= first
    BY <2>2, TimingAssumption
  <2> HIDE DEF first
  <2>4. ~(s.time < now - RetentionSlots)
    BY <1>1, <2>1, <2>3
  <2> QED BY <1>1, <2>4
<1> QED BY <1>1, <1>2 DEF InBucket, Finished

(* Each rollup leaves an exact summary of every finished hour that starts  *)
(* within the retention, late samples included, whatever failed, crashed   *)
(* or was purged before, and for any retention.                            *)
THEOREM RollupsAreExact == Spec => ExactWhileRetained
<1>1. SummaryInv /\ [Next]_vars =>
        (Rollup => \A a \in Agents, h \in Hours :
            LET bucket == InBucket(stored, a, h) IN
            /\ bucket # {}
            /\ h < Hour(now)
            /\ now - RetentionSlots <= h * SlotsPerHour
            => hourly'[a][h] = SummaryOf(bucket))
  <2> SUFFICES ASSUME SummaryInv, Rollup, NEW a \in Agents, NEW h \in Hours,
                      InBucket(stored, a, h) # {}, h < Hour(now),
                      now - RetentionSlots <= h * SlotsPerHour
               PROVE  hourly'[a][h] = SummaryOf(InBucket(stored, a, h))
    OBVIOUS
  <2> QED BY RetainedBucket, RollupWrites
<1> QED BY <1>1, SummaryInit, SummaryStep, PTL DEF Spec, ExactWhileRetained

(* Between a rollup that succeeded and the purge after it, every sample    *)
(* that is about to go has a summary.                                      *)
Summarised(s) == hourly[s.agent][Hour(s.time)] # None
Covered == phase = "purge" /\ rolled =>
                \A s \in telemetry : Expired(s) => Summarised(s)

(* What has expired belongs to a finished hour.                            *)
LEMMA ExpiredIsFinished ==
    ASSUME now \in Nat, NEW s, s.time \in Nat, Expired(s)
    PROVE  Finished(s)
<1>1. s.time + SlotsPerHour <= now
  BY TimingAssumption DEF Expired
<1> QED BY <1>1, HourMonotone, TimingAssumption DEF Finished

(* The hour of a time is an hour.                                          *)
LEMMA HourType == ASSUME NEW t \in Times PROVE Hour(t) \in Hours
<1>1. t \in Nat /\ t <= MaxTime /\ MaxTime \in Nat
  BY TimingAssumption DEF Times
<1>2. Hour(t) \in Nat /\ Hour(t) <= Hour(MaxTime) /\ Hour(MaxTime) \in Nat
  BY <1>1, HourMonotone, HourBounds
<1> QED BY <1>2 DEF Hours, Hour

(* Every step keeps the summaries of the hours that are purged next.       *)
LEMMA CoveredStep ==
    ASSUME Lateness <= RetentionSlots, SummaryInv, Covered, [Next]_vars
    PROVE  Covered'
<1>0. /\ now \in Nat /\ telemetry \subseteq stored
      /\ \A s \in stored : s \in Samples /\ s.time \in Nat
  BY TimingAssumption DEF SummaryInv, TypeOK, Times, Samples
<1>1. ASSUME NEW a \in Agents, NEW v \in Values, Store(a, v) PROVE Covered'
  <2>1. PICK t \in Times :
            /\ now - Lateness <= t
            /\ telemetry' = telemetry \cup {[agent |-> a, time |-> t, value |-> v]}
    BY <1>1 DEF Store
  <2>2. ~(t < now - RetentionSlots)
    BY <1>0, <2>1, TimingAssumption DEF Times
  <2>3. UNCHANGED <<now, hourly, phase, rolled>>
    BY <1>1 DEF Store, workerVars, resultVars
  <2> QED BY <2>1, <2>2, <2>3 DEF Covered, Expired, Summarised
<1>2. CASE Rollup
  <2>1. UNCHANGED <<now, telemetry>>
    BY <1>2 DEF Rollup
  <2>2. ASSUME NEW s \in telemetry, Expired(s) PROVE hourly'[s.agent][Hour(s.time)] # None
    <3> DEFINE h == Hour(s.time)
    <3>1. s.agent \in Agents /\ h \in Hours
      BY <1>0, HourType DEF Samples
    <3>2. s \in InBucket({q \in telemetry : Finished(q)}, s.agent, h)
      BY <1>0, <2>2, ExpiredIsFinished DEF InBucket
    <3> HIDE DEF h
    <3>3. hourly'[s.agent][h] # None
      BY <1>2, <3>1, <3>2, RollupWrites
    <3> QED BY <3>3 DEF h
  <2> QED BY <2>1, <2>2 DEF Covered, Expired, Summarised
<1>3. CASE RollupFails \/ PurgeFails \/ Purge \/ NextPass \/ Crash \/ Start
  BY <1>3 DEF RollupFails, PurgeFails, Purge, NextPass, Crash, Start, Covered
<1>4. CASE Tick
  BY <1>4 DEF Tick, Covered
<1>5. CASE UNCHANGED vars
  BY <1>5 DEF vars, workerVars, resultVars, Covered, Expired, Summarised
<1> QED BY <1>1, <1>2, <1>3, <1>4, <1>5 DEF Next

(* A purge whose rollup succeeded deletes no sample whose hour has no      *)
(* summary, provided samples do not arrive later than the retention: a     *)
(* sample that is stored between the two statements stays.                 *)
THEOREM PurgedHoursHaveSummaries ==
    ASSUME Lateness <= RetentionSlots
    PROVE  Spec => PurgedWereSummarised
<1>1. Init => Covered
  BY DEF Init, Covered
<1>2. SummaryInv /\ Covered /\ [Next]_vars => Covered'
  BY CoveredStep
<1>3. SummaryInv /\ Covered /\ [Next]_vars =>
        (Purge /\ rolled =>
            \A s \in telemetry \ telemetry' : hourly[s.agent][Hour(s.time)] # None)
  BY DEF Purge, Covered, Summarised
<1> QED BY <1>1, <1>2, <1>3, SummaryInit, SummaryStep, PTL DEF Spec, PurgedWereSummarised
=============================================================================
