---------------------------- MODULE FleetProofs ----------------------------
(***************************************************************************)
(* Proofs about what Requests does to the tables of Fleet, for any agents, *)
(* clocks, thresholds and retention, any requests at a time and any        *)
(* statements that fail.                                                   *)
(*                                                                         *)
(* The argument: the newest time of an agent's rows changes only by an     *)
(* insert of a newer one, or by a purge of all of them, and the class is   *)
(* the better the newer that time is.                                      *)
(***************************************************************************)
EXTENDS RequestsProofs, FiniteSetTheorems

(* GetLatest, of any rows.                                                 *)
TimesOf(rows) == {rows[k].time : k \in DOMAIN rows}
Newest(rows) ==
    IF rows = <<>> THEN None
    ELSE CHOOSE t \in TimesOf(rows) : \A u \in TimesOf(rows) : u <= t

(* The times of rows are numbers.                                          *)
LEMMA TimesAreNumbers ==
    ASSUME NEW rows \in Seq(Rows)
    PROVE  \A k \in 1 .. Len(rows) : rows[k] \in Rows /\ rows[k].time \in Nat
<1>1. \A k \in 1 .. Len(rows) : rows[k] \in Rows
  OBVIOUS
<1>2. \A x \in Rows : x.time \in Nat
  BY DEF Rows
<1> QED BY <1>1, <1>2

(* Of some rows one is the newest.                                         *)
LEMMA NewestExists ==
    ASSUME NEW rows \in Seq(Rows), rows # <<>>
    PROVE  \E k \in 1 .. Len(rows) : \A m \in 1 .. Len(rows) : rows[m].time <= rows[k].time
<1> DEFINE Peak(s) == \E k \in 1 .. Len(s) : \A m \in 1 .. Len(s) : s[m].time <= s[k].time
           P == {s \in Seq(Rows) : s = <<>> \/ Peak(s)}
<1>1. <<>> \in P
  OBVIOUS
<1>2. ASSUME NEW s \in Seq(Rows), NEW x \in Rows, s \in P PROVE Append(s, x) \in P
  <2> DEFINE r == Append(s, x)
  <2>1. /\ r \in Seq(Rows) /\ Len(r) = Len(s) + 1 /\ r[Len(s) + 1] = x /\ Len(s) \in Nat
        /\ \A n \in 1 .. Len(s) : r[n] = s[n]
    OBVIOUS
  <2>2. x.time \in Nat /\ \A n \in 1 .. Len(s) : s[n].time \in Nat
    BY TimesAreNumbers DEF Rows
  <2> HIDE DEF r
  <2>3. \A n \in 1 .. Len(r) : n \in 1 .. Len(s) \/ n = Len(s) + 1
    BY <2>1
  <2>4. CASE s = <<>> \/ \A m \in 1 .. Len(s) : s[m].time <= x.time
    <3>1. Len(s) + 1 \in 1 .. Len(r)
      BY <2>1
    <3>2. \A m \in 1 .. Len(r) : r[m].time <= r[Len(s) + 1].time
      BY <2>1, <2>2, <2>3, <2>4
    <3> QED BY <2>1, <3>1, <3>2 DEF r
  <2>5. CASE s # <<>> /\ ~ \A m \in 1 .. Len(s) : s[m].time <= x.time
    <3>1. PICK k \in 1 .. Len(s) : \A m \in 1 .. Len(s) : s[m].time <= s[k].time
      BY <1>2, <2>5
    <3>2. x.time <= s[k].time
      BY <2>2, <2>5, <3>1
    <3>3. k \in 1 .. Len(r) /\ \A m \in 1 .. Len(r) : r[m].time <= r[k].time
      BY <2>1, <2>3, <3>1, <3>2
    <3> QED BY <2>1, <3>3 DEF r
  <2> QED BY <2>4, <2>5
<1> HIDE DEF P
<1>3. Seq(Rows) \subseteq P
  BY <1>1, <1>2, SequencesAreReached
<1> QED BY <1>3 DEF P

(* The newest is one of the times, and none is newer; None is older than   *)
(* any.                                                                    *)
LEMMA NewestIs ==
    ASSUME NEW rows \in Seq(Rows)
    PROVE  /\ Newest(rows) \in Int /\ (Newest(rows) = None <=> rows = <<>>)
           /\ \A k \in 1 .. Len(rows) : rows[k].time <= Newest(rows) /\ rows[k].time \in Nat
           /\ rows # <<>> => Newest(rows) \in Nat /\
                \E k \in 1 .. Len(rows) : Newest(rows) = rows[k].time
<1>1. \A k \in 1 .. Len(rows) : rows[k].time \in Nat
  BY TimesAreNumbers
<1>2. CASE rows = <<>>
  BY <1>2 DEF Newest, None
<1>3. CASE rows # <<>>
  <2>1. \E t \in TimesOf(rows) : \A u \in TimesOf(rows) : u <= t
    <3>1. PICK k \in 1 .. Len(rows) : \A m \in 1 .. Len(rows) : rows[m].time <= rows[k].time
      BY <1>3, NewestExists
    <3>2. DOMAIN rows = 1 .. Len(rows)
      OBVIOUS
    <3> QED BY <3>1, <3>2 DEF TimesOf
  <2>2. Newest(rows) \in TimesOf(rows) /\ \A u \in TimesOf(rows) : u <= Newest(rows)
    BY <1>3, <2>1 DEF Newest
  <2>3. \A k \in 1 .. Len(rows) : rows[k].time <= Newest(rows)
    BY <2>2 DEF TimesOf
  <2>4. \E k \in 1 .. Len(rows) : Newest(rows) = rows[k].time
    BY <2>2 DEF TimesOf
  <2> QED BY <1>1, <1>3, <2>3, <2>4 DEF None
<1> QED BY <1>2, <1>3

(* It is the only one that is.                                             *)
LEMMA NewestIsOnly ==
    ASSUME NEW rows \in Seq(Rows), NEW k \in 1 .. Len(rows),
           \A m \in 1 .. Len(rows) : rows[m].time <= rows[k].time
    PROVE  Newest(rows) = rows[k].time
<1>1. rows # <<>>
  OBVIOUS
<1>2. PICK j \in 1 .. Len(rows) : Newest(rows) = rows[j].time
  BY <1>1, NewestIs
<1>3. rows[j].time <= rows[k].time /\ rows[k].time <= rows[j].time
  BY <1>2, NewestIs
<1>4. rows[j].time \in Nat /\ rows[k].time \in Nat
  BY NewestIs
<1> QED BY <1>2, <1>3, <1>4

(* INSERT.                                                                 *)
LEMMA NewestOfInsert ==
    ASSUME NEW rows \in Seq(Rows), NEW x \in Rows
    PROVE  Newest(Append(rows, x)) =
             IF x.time > Newest(rows) THEN x.time ELSE Newest(rows)
<1> DEFINE r == Append(rows, x)
<1>1. /\ r \in Seq(Rows) /\ Len(r) = Len(rows) + 1 /\ r[Len(rows) + 1] = x
      /\ Len(rows) \in Nat
      /\ \A n \in 1 .. Len(rows) : r[n] = rows[n]
  OBVIOUS
<1>2. x.time \in Nat
  BY DEF Rows
<1> HIDE DEF r
<1>3. \A n \in 1 .. Len(r) : n \in 1 .. Len(rows) \/ n = Len(rows) + 1
  BY <1>1
<1>4. CASE x.time > Newest(rows)
  <2>1. Len(rows) + 1 \in 1 .. Len(r)
    BY <1>1
  <2>2. \A m \in 1 .. Len(r) : r[m].time <= r[Len(rows) + 1].time
    <3>1. ASSUME NEW m \in 1 .. Len(rows) PROVE rows[m].time <= x.time
      <4>1. rows[m].time <= Newest(rows) /\ rows[m].time \in Nat /\ Newest(rows) \in Int
        BY NewestIs
      <4> QED BY <1>2, <1>4, <4>1
    <3> QED BY <1>1, <1>2, <1>3, <3>1
  <2>3. Newest(r) = r[Len(rows) + 1].time
    BY <1>1, <2>1, <2>2, NewestIsOnly
  <2> QED BY <1>1, <1>4, <2>3 DEF r
<1>5. CASE ~(x.time > Newest(rows))
  <2>0. Newest(rows) \in Int
    BY NewestIs
  <2>1. rows # <<>>
    BY <1>2, <1>5, NewestIs DEF Newest, None
  <2>2. PICK k \in 1 .. Len(rows) : Newest(rows) = rows[k].time
    BY <2>1, NewestIs
  <2>3. k \in 1 .. Len(r) /\ r[k] = rows[k]
    BY <1>1
  <2>4. \A m \in 1 .. Len(rows) : rows[m].time <= rows[k].time
    BY <2>2, NewestIs
  <2>5. x.time <= rows[k].time
    BY <1>2, <1>5, <2>0, <2>2
  <2>6. \A m \in 1 .. Len(r) : r[m].time <= r[k].time
    BY <1>1, <1>3, <2>3, <2>4, <2>5
  <2>7. Newest(r) = r[k].time
    BY <1>1, <2>3, <2>6, NewestIsOnly
  <2> QED BY <1>5, <2>2, <2>3, <2>7 DEF r
<1> QED BY <1>4, <1>5

(* DELETE of what is older than a time.                                    *)
LEMMA NewestOfPurge ==
    ASSUME NEW rows \in Seq(Rows), NEW cutoff \in Int
    PROVE  Newest(Kept(rows, {r \in Rows : r.time >= cutoff})) =
             IF Newest(rows) >= cutoff THEN Newest(rows) ELSE None
<1> DEFINE S == {r \in Rows : r.time >= cutoff}
           k == Kept(rows, S)
<1>1. \A m \in 1 .. Len(rows) : rows[m] \in Rows
  OBVIOUS
<1>2. /\ k \in Seq(Rows) /\ Len(k) \in Nat
      /\ \A n \in 1 .. Len(k) : k[n] \in S
      /\ \A n \in 1 .. Len(k) : \E m \in 1 .. Len(rows) : k[n] = rows[m]
      /\ \A m \in 1 .. Len(rows) : rows[m] \in S => \E n \in 1 .. Len(k) : k[n] = rows[m]
  <2> HIDE DEF S
  <2> QED BY KeptType
<1> HIDE DEF k
<1>3. Newest(rows) \in Int
  BY NewestIs
<1>4. CASE Newest(rows) >= cutoff /\ rows # <<>>
  <2>1. PICK m \in 1 .. Len(rows) : Newest(rows) = rows[m].time
    BY <1>4, NewestIs
  <2>2. rows[m] \in S
    BY <1>1, <1>4, <2>1
  <2>3. PICK n \in 1 .. Len(k) : k[n] = rows[m]
    BY <1>2, <2>2
  <2>4. \A j \in 1 .. Len(k) : k[j].time <= k[n].time
    <3> SUFFICES ASSUME NEW j \in 1 .. Len(k) PROVE k[j].time <= k[n].time
      OBVIOUS
    <3>1. PICK i \in 1 .. Len(rows) : k[j] = rows[i]
      BY <1>2
    <3>2. rows[i].time <= Newest(rows)
      BY NewestIs
    <3> QED BY <2>1, <2>3, <3>1, <3>2
  <2>5. Newest(k) = k[n].time
    BY <1>2, <2>4, NewestIsOnly
  <2> QED BY <1>4, <2>1, <2>3, <2>5 DEF k
<1>5. CASE rows = <<>>
  <2>1. k = <<>>
    BY <1>5, KeptOfNothing DEF k
  <2> QED BY <1>5, <2>1 DEF Newest, k
<1>6. CASE ~(Newest(rows) >= cutoff)
  <2>1. ASSUME NEW n \in 1 .. Len(k) PROVE FALSE
    <3>1. k[n].time >= cutoff
      BY <1>2
    <3>2. PICK m \in 1 .. Len(rows) : k[n] = rows[m]
      BY <1>2
    <3>3. rows[m].time <= Newest(rows) /\ rows[m].time \in Nat
      BY NewestIs
    <3> QED BY <1>3, <1>6, <3>1, <3>2, <3>3
  <2>2. k = <<>>
    BY <1>2, <2>1
  <2> QED BY <1>6, <2>2 DEF Newest, k
<1> QED BY <1>4, <1>5, <1>6

(* Ages cut to seconds: by less than a second, and never out of order.     *)
LEMMA CutAge ==
    ASSUME NEW ts \in Int, NEW t \in Int
    PROVE  /\ AgeOf(ts, t) \in Nat
           /\ ts <= t => AgeOf(ts, t) <= t - ts /\ t - ts < AgeOf(ts, t) + Second
           /\ t < ts => AgeOf(ts, t) = 0
<1>1. Second \in Nat \ {0}
  BY FleetAssumption
<1>2. CASE t < ts
  BY <1>1, <1>2 DEF AgeOf
<1>3. CASE ~(t < ts)
  <2> DEFINE q == (t - ts) \div Second
             r == (t - ts) % Second
  <2>1. q \in Int /\ r \in 0 .. Second - 1 /\ t - ts = Second * q + r
    BY <1>1, Division
  <2>2. AgeOf(ts, t) = q * Second
    BY <1>3 DEF AgeOf
  <2> HIDE DEF q, r
  <2>3. q * Second = t - ts - r
    BY <1>1, <2>1
  <2>4. q >= 0
    <3> SUFFICES ASSUME q <= -1 PROVE FALSE
      BY <2>1
    <3>1. Second * q <= Second * (-1)
      BY <1>1, <2>1
    <3> QED BY <1>1, <1>3, <2>1, <3>1
  <2>5. q * Second \in Int /\ q * Second >= 0
    BY <1>1, <2>1, <2>4
  <2> QED BY <1>1, <1>3, <2>1, <2>2, <2>3, <2>5
<1> QED BY <1>2, <1>3

(* An age cut to seconds does not shrink as the age grows.                 *)
LEMMA CutAgeGrows ==
    ASSUME NEW a \in Int, NEW t \in Int, NEW b \in Int, NEW u \in Int, t - a <= u - b
    PROVE  AgeOf(a, t) <= AgeOf(b, u)
<1>1. Second \in Nat \ {0}
  BY FleetAssumption
<1>2. CASE t < a
  <2>1. AgeOf(a, t) = 0 /\ AgeOf(b, u) \in Nat
    BY <1>2, CutAge
  <2> QED BY <2>1
<1>3. CASE ~(t < a)
  <2> DEFINE p == (t - a) \div Second
             q == (u - b) \div Second
  <2>1. ~(u < b)
    BY <1>3
  <2>2. AgeOf(a, t) = p * Second /\ AgeOf(b, u) = q * Second /\ p \in Int /\ q \in Int
    BY <1>1, <1>3, <2>1, Division DEF AgeOf
  <2>3. AgeOf(a, t) <= t - a /\ u - b < AgeOf(b, u) + Second
    BY <1>3, <2>1, CutAge
  <2> HIDE DEF p, q
  <2>4. p * Second < q * Second + Second
    BY <1>1, <2>2, <2>3
  <2>5. p <= q
    <3> SUFFICES ASSUME p >= q + 1 PROVE FALSE
      BY <2>2
    <3>1. p * Second >= (q + 1) * Second
      BY <1>1, <2>2
    <3> QED BY <1>1, <2>2, <2>4, <3>1
  <2>6. p * Second <= q * Second
    BY <1>1, <2>2, <2>5
  <2> QED BY <2>2, <2>6
<1> QED BY <1>2, <1>3
----------------------------------------------------------------------------
(* The tables.  A sample is at most Ahead newer than the time at which it  *)
(* arrived, and was not stored before that.                                *)
TableInv ==
    /\ FleetTypeOK /\ left \in Nat
    /\ \A a \in Agents : \A k \in 1 .. Len(telemetry[a]) :
        /\ telemetry[a][k].created <= now
        /\ telemetry[a][k].time <= telemetry[a][k].created + Ahead

(* What request q carries, when these agents are listed at this time.      *)
Carries(q, list, t) ==
    /\ q.pc # "idle" /\ q.kind = "ingest" =>
        q.body.time \in Nat /\ q.body.time <= t + Ahead
    /\ q.pc # "idle" /\ q.kind = "register" => q.body \in Agents \cup {"malformed"}
    /\ q.pc \in {"store", "announce"} =>
        q.kind = "ingest" /\ q.body.agent \in Agents /\ Contains(list, q.body.agent)

FleetInv ==
    /\ TableInv
    /\ \A r \in Slots : Carries(conn[r], agents, now)

(* What a step does to the tables and the clock.                           *)
Rests  == UNCHANGED <<agents, telemetry, now>>
Grows  == UNCHANGED <<telemetry, now>> /\ \E a \in Agents : Upsert(a)
Ticks  == UNCHANGED <<agents, telemetry>> /\ now' = now + 1
Purges == UNCHANGED <<agents, now>> /\ Purge(now)
Stores ==
    /\ UNCHANGED <<agents, now>>
    /\ \E r \in Slots : 
        /\ conn[r].pc = "store"
        /\ Insert(conn[r].body.agent, conn[r].body.time, now)

(* A step does one of five things to the tables and the clock.             *)
LEMMA TableSteps ==
    ASSUME FleetInv, [Next]_vars
    PROVE  /\ Rests \/ Grows \/ Ticks \/ Purges \/ Stores
           /\ UNCHANGED thresholds
           /\ left' = left \/ (left > 0 /\ left' = left - 1)
<1>1. UNCHANGED thresholds
  <2>1. ASSUME NEW r \in Slots, Arrive(r) \/ Authenticate(r) \/ Gate(r) \/ Handle(r)
        PROVE  UNCHANGED worldVars
    BY <2>1 DEF Arrive, Authenticate, Gate, Handle, CreateToken, DeleteToken, Serve,
       Register, CheckAgent, Store, Announce, ListAgents, QueryAgent, CountAgent,
       ShowOverview
  <2>2. CASE Tick \/ PurgeTelemetry \/ (\E t \in Tokens : TokenStep(t)) \/ UNCHANGED vars
    BY <2>2 DEF Tick, PurgeTelemetry, TokenStep, vars, worldVars, fleetVars
  <2> QED BY <2>1, <2>2 DEF Next, worldVars
<1>2. left' = left \/ (left > 0 /\ left' = left - 1)
  <2>1. ASSUME NEW r \in Slots, Authenticate(r) \/ Gate(r) \/ Handle(r)
        PROVE  left' = left
    BY <2>1 DEF Authenticate, Gate, Handle, CreateToken, DeleteToken, Serve, Register,
       CheckAgent, Store, Announce, ListAgents, QueryAgent, CountAgent, ShowOverview
  <2>2. ASSUME NEW r \in Slots, Arrive(r) PROVE left > 0 /\ left' = left - 1
    BY <2>2 DEF Arrive
  <2>3. CASE Tick \/ PurgeTelemetry \/ (\E t \in Tokens : TokenStep(t)) \/ UNCHANGED vars
    BY <2>3 DEF Tick, PurgeTelemetry, TokenStep, vars
  <2> QED BY <2>1, <2>2, <2>3 DEF Next
<1>3. Rests \/ Grows \/ Ticks \/ Purges \/ Stores
  <2>1. ASSUME NEW r \in Slots, Arrive(r) \/ Authenticate(r) \/ Gate(r) \/ CreateToken(r)
               \/ DeleteToken(r) \/ Serve(r) \/ CheckAgent(r) \/ Announce(r)
               \/ ListAgents(r) \/ QueryAgent(r) \/ CountAgent(r) \/ ShowOverview(r)
        PROVE  Rests
    BY <2>1 DEF Rests, Arrive, Authenticate, Gate, CreateToken, DeleteToken, Serve,
       CheckAgent, Announce, ListAgents, QueryAgent, CountAgent, ShowOverview, worldVars,
       samplesVars
  <2>2. ASSUME NEW r \in Slots, Register(r) PROVE Rests \/ Grows
    <3>1. UNCHANGED <<telemetry, now>>
      BY <2>2 DEF Register, worldVars, samplesVars
    <3>2. conn[r].body \in Agents \cup {"malformed"}
      BY <2>2 DEF Register, Handles, FleetInv, Carries
    <3> QED BY <2>2, <3>1, <3>2 DEF Register, Rests, Grows
  <2>3. ASSUME NEW r \in Slots, Store(r) PROVE Rests \/ Stores
    <3>1. UNCHANGED <<agents, now>>
      BY <2>3 DEF Store, worldVars
    <3> QED BY <2>3, <3>1 DEF Store, Rests, Stores
  <2>4. CASE Tick
    BY <2>4 DEF Tick, Ticks, samplesVars
  <2>5. CASE PurgeTelemetry
    BY <2>5 DEF PurgeTelemetry, Purges, worldVars
  <2>6. CASE (\E t \in Tokens : TokenStep(t)) \/ UNCHANGED vars
    BY <2>6 DEF TokenStep, vars, worldVars, samplesVars, fleetVars, Rests
  <2> QED BY <2>1, <2>2, <2>3, <2>4, <2>5, <2>6 DEF Next, Handle
<1> QED BY <1>1, <1>2, <1>3

(* What a step does to the requests.                                       *)
LEMMA AgentsStayListed ==
    ASSUME FleetInv, Rests \/ Grows \/ Ticks \/ Purges \/ Stores, NEW a \in Agents,
           Contains(agents, a)
    PROVE  Contains(agents', a)
<1>1. agents \in Seq(Agents)
  BY DEF FleetInv, TableInv, FleetTypeOK
<1>2. ASSUME NEW b \in Agents, agents' = Append(agents, b) PROVE Contains(agents', a)
  <2>1. PICK n \in 1 .. Len(agents) : agents[n] = a
    BY DEF Contains
  <2>2. n \in 1 .. Len(agents') /\ agents'[n] = a
    BY <1>1, <1>2, <2>1
  <2> QED BY <2>2 DEF Contains
<1> QED BY <1>2 DEF Rests, Grows, Ticks, Purges, Stores, Upsert
TableStep == Rests \/ Grows \/ Ticks \/ Purges \/ Stores

(* What a request carries stays valid whatever others do.                  *)
LEMMA CarriesStill ==
    ASSUME FleetInv, TableStep, now \in Nat, NEW q, Carries(q, agents, now)
    PROVE  Carries(q, agents', now')
<1>1. now' \in Nat /\ now <= now'
  BY DEF TableStep, Rests, Grows, Ticks, Purges, Stores
<1>2. q.pc \in {"store", "announce"} => Contains(agents', q.body.agent)
  BY AgentsStayListed DEF Carries, TableStep
<1> QED BY <1>1, <1>2, RequestsAssumption DEF Carries

(* It is enough to look at the request that moves.                         *)
LEMMA CarriesNext ==
    ASSUME RequestInv, FleetInv, TableStep, now \in Nat,
           NEW r \in Slots, NEW q, conn' = [conn EXCEPT ![r] = q], Carries(q, agents', now'),
           NEW s \in Slots
    PROVE  Carries(conn'[s], agents', now')
<1>1. conn'[s] = IF s = r THEN q ELSE conn[s]
  BY DEF RequestInv, ConnShape
<1>2. Carries(conn[s], agents, now)
  BY DEF FleetInv
<1>3. Carries(conn[s], agents', now')
  BY <1>2, CarriesStill
<1> QED BY <1>1, <1>3

(* An answered request carries nothing.                                    *)
LEMMA CarriesOnReply ==
    ASSUME RequestInv, FleetInv, TableStep, now \in Nat,
           NEW r \in Slots, NEW code, Reply(r, code), NEW s \in Slots
    PROVE  Carries(conn'[s], agents', now')
<1> DEFINE q == [NoRequest EXCEPT !.answer = code]
<1>1. q.pc = "idle"
  BY DEF NoRequest
<1>2. Carries(q, agents', now')
  BY <1>1 DEF Carries
<1> QED BY <1>2, CarriesNext DEF Reply

(* A sample is carried on only for an agent that is listed.                *)
LEMMA CarriesOnGoto ==
    ASSUME RequestInv, FleetInv, TableStep, now \in Nat,
           NEW r \in Slots, conn[r].pc # "idle", NEW l, Goto(r, l),
           l \in {"store", "announce"} =>
                conn[r].kind = "ingest" /\ conn[r].body.agent \in Agents
                    /\ Contains(agents', conn[r].body.agent),
           NEW s \in Slots
    PROVE  Carries(conn'[s], agents', now')
<1> DEFINE q == [conn[r] EXCEPT !.pc = l]
<1>1. q.pc = l /\ q.kind = conn[r].kind /\ q.body = conn[r].body
  BY DEF RequestInv, ConnShape, RequestFields
<1>2. conn' = [conn EXCEPT ![r] = q]
  BY DEF Goto, RequestInv, ConnShape
<1> HIDE DEF q
<1>3. Carries(conn[r], agents', now')
  BY CarriesStill DEF FleetInv
<1>4. Carries(q, agents', now')
  BY <1>1, <1>3 DEF Carries
<1> QED BY <1>2, <1>4, CarriesNext

(* Every step leaves every request with something valid.                   *)
LEMMA CarriesOn ==
    ASSUME RequestInv, FleetInv, TableStep, now \in Nat, [Next]_vars, NEW s \in Slots
    PROVE  Carries(conn'[s], agents', now')
<1>1. CASE conn' = conn
  BY <1>1, CarriesStill DEF FleetInv
<1>2. ASSUME NEW r \in Slots, NEW code, Reply(r, code)
      PROVE  Carries(conn'[s], agents', now')
  BY <1>2, CarriesOnReply
<1>3. ASSUME NEW r \in Slots, NEW l \in {"handle", "loop", "classify"}, Goto(r, l),
              conn[r].pc # "idle"
      PROVE  Carries(conn'[s], agents', now')
  BY <1>3, CarriesOnGoto
<1>4. ASSUME NEW r \in Slots, Arrive(r) PROVE Carries(conn'[s], agents', now')
  <2>1. PICK kind \in env.kinds[r], t \in issued \cup {NoToken}, ip \in env.from :
            \E body \in Bodies(kind) :
                conn' = [conn EXCEPT ![r] = Arrived(kind, t, ip, body)]
    BY <1>4, ArrivesWith
  <2> PICK body \in Bodies(kind) : conn' = [conn EXCEPT ![r] = Arrived(kind, t, ip, body)]
    BY <2>1
  <2> DEFINE q == Arrived(kind, t, ip, body)
  <2>2. q.pc = "auth" /\ q.kind = kind /\ q.body = body
    BY DEF Arrived, NoRequest
  <2> HIDE DEF q
  <2>3. UNCHANGED <<agents, now>>
    BY <1>4 DEF Arrive, worldVars
  <2>4. kind = "register" => body \in Agents \cup {"malformed"}
    BY DEF Bodies
  <2>5. kind = "ingest" => body.time \in Nat /\ body.time <= now + Ahead
    <3> SUFFICES ASSUME kind = "ingest" PROVE body.time \in Nat /\ body.time <= now + Ahead
      OBVIOUS
    <3>1. \/ body = [agent |-> "malformed", time |-> now]
          \/ \E a \in Agents, u \in {now - Late, now, now + Ahead} \cap Nat :
                body = [agent |-> a, time |-> u]
      BY DEF Bodies
    <3>2. body.time \in {now - Late, now, now + Ahead} \cap Nat
      BY <3>1
    <3> QED BY <3>2, RequestsAssumption
  <2>6. Carries(q, agents', now')
    BY <2>2, <2>3, <2>4, <2>5 DEF Carries
  <2> QED BY <2>1, <2>6, CarriesNext DEF q
<1>5. ASSUME NEW r \in Slots, NEW given, Let(r, given), conn[r].pc = "auth"
      PROVE  Carries(conn'[s], agents', now')
  <2> DEFINE q == [conn[r] EXCEPT !.pc = "gate", !.role = given]
  <2>1. /\ DOMAIN conn[r] = RequestFields /\ conn = [c \in Slots |-> conn[c]]
        /\ Carries(conn[r], agents', now')
    BY CarriesStill DEF FleetInv, RequestInv, ConnShape
  <2>2. q.pc = "gate" /\ q.kind = conn[r].kind /\ q.body = conn[r].body
    BY <2>1 DEF RequestFields
  <2>3. conn' = [conn EXCEPT ![r] = q]
    BY <1>5, <2>1 DEF Let
  <2> HIDE DEF q
  <2>4. Carries(q, agents', now')
    BY <1>5, <2>1, <2>2 DEF Carries
  <2> QED BY <2>3, <2>4, CarriesNext
<1>6. ASSUME NEW r \in Slots, Authenticate(r) PROVE Carries(conn'[s], agents', now')
  BY <1>2, <1>5, <1>6 DEF Authenticate
<1>7. ASSUME NEW r \in Slots, Gate(r) PROVE Carries(conn'[s], agents', now')
  BY <1>2, <1>3, <1>7 DEF Gate, Enter
<1>8. ASSUME NEW r \in Slots, CheckAgent(r) PROVE Carries(conn'[s], agents', now')
  <2>1. agents' = agents /\ agents \in Seq(Agents) /\ conn[r].pc # "idle"
        /\ conn[r].kind = "ingest"
    BY <1>8 DEF CheckAgent, Handles, FleetInv, TableInv, FleetTypeOK
  <2>2. Contains(agents, conn[r].body.agent) => conn[r].body.agent \in Agents
    BY <2>1 DEF Contains
  <2>3. ASSUME Goto(r, "store"), Contains(agents, conn[r].body.agent)
        PROVE  Carries(conn'[s], agents', now')
    BY <2>1, <2>2, <2>3, CarriesOnGoto
  <2> QED BY <1>2, <1>8, <2>3 DEF CheckAgent
<1>9. ASSUME NEW r \in Slots, Store(r) PROVE Carries(conn'[s], agents', now')
  <2>1. agents' = agents /\ conn[r].pc = "store" /\ Carries(conn[r], agents, now)
    BY <1>9 DEF Store, FleetInv
  <2>2. CASE Goto(r, "announce")
    BY <2>1, <2>2, CarriesOnGoto DEF Carries
  <2> QED BY <1>2, <1>9, <2>2 DEF Store
<1>10. ASSUME NEW r \in Slots, ListAgents(r) PROVE Carries(conn'[s], agents', now')
  BY <1>2, <1>3, <1>10 DEF ListAgents, Handles
<1>11. ASSUME NEW r \in Slots, CreateToken(r) \/ DeleteToken(r) \/ Serve(r) \/ Register(r)
              \/ Announce(r) \/ ShowOverview(r)
       PROVE  Carries(conn'[s], agents', now')
  <2>1. conn' = conn \/ \E code : Reply(r, code)
    BY <1>11 DEF CreateToken, DeleteToken, Serve, Register, Announce, ShowOverview
  <2> QED BY <1>1, <1>2, <2>1
<1>12. CASE Tick \/ PurgeTelemetry \/ (\E t \in Tokens : TokenStep(t)) \/ UNCHANGED vars
  BY <1>1, <1>12 DEF Tick, PurgeTelemetry, TokenStep, vars
<1>13. ASSUME NEW r \in Slots, QueryAgent(r) \/ CountAgent(r)
       PROVE  Carries(conn'[s], agents', now')
  BY <1>2, <1>3, <1>13 DEF QueryAgent, Found, CountAgent
<1> QED BY <1>4, <1>6, <1>7, <1>8, <1>9, <1>10, <1>11, <1>12, <1>13 DEF Next, Handle

(* The tables keep their types.                                            *)
LEMMA UpsertKeeps ==
    ASSUME NEW list \in Seq(Agents), IsInjective(list), NEW a \in Agents, ~Contains(list, a)
    PROVE  Append(list, a) \in Seq(Agents) /\ IsInjective(Append(list, a))
<1> DEFINE r == Append(list, a)
<1>1. /\ r \in Seq(Agents) /\ Len(r) = Len(list) + 1 /\ r[Len(list) + 1] = a
      /\ Len(list) \in Nat /\ DOMAIN r = 1 .. Len(r) /\ DOMAIN list = 1 .. Len(list)
      /\ \A n \in 1 .. Len(list) : r[n] = list[n]
  OBVIOUS
<1> HIDE DEF r
<1>2. \A n \in 1 .. Len(r) : n \in 1 .. Len(list) \/ n = Len(list) + 1
  BY <1>1
<1>3. \A n \in 1 .. Len(list) : list[n] # a
  BY DEF Contains
<1>4. ASSUME NEW m \in 1 .. Len(r), NEW n \in 1 .. Len(r), r[m] = r[n] PROVE m = n
  <2>1. CASE m \in 1 .. Len(list) /\ n \in 1 .. Len(list)
    BY <1>1, <1>4, <2>1 DEF IsInjective
  <2> QED BY <1>1, <1>2, <1>3, <1>4, <2>1
<1>5. IsInjective(r)
  BY <1>1, <1>4 DEF IsInjective
<1> QED BY <1>1, <1>5 DEF r

Dated(rows, t) ==
    \A k \in 1 .. Len(rows) : rows[k].created <= t /\ rows[k].time <= rows[k].created + Ahead

(* A sample that is inserted is dated no later than its clock allows.      *)
LEMMA DatedOfInsert ==
    ASSUME NEW rows \in Seq(Rows), NEW t \in Nat, NEW ts \in Nat, ts <= t + Ahead,
           Dated(rows, t)
    PROVE  LET r == Append(rows, [time |-> ts, created |-> t])
           IN  r \in Seq(Rows) /\ r # <<>> /\ Dated(r, t)
<1> DEFINE x == [time |-> ts, created |-> t]
           r == Append(rows, x)
<1>1. x \in Rows /\ x.time = ts /\ x.created = t
  BY DEF Rows
<1> HIDE DEF x
<1>2. /\ r \in Seq(Rows) /\ Len(r) = Len(rows) + 1 /\ r[Len(rows) + 1] = x
      /\ Len(rows) \in Nat
      /\ \A n \in 1 .. Len(rows) : r[n] = rows[n]
  BY <1>1
<1> HIDE DEF r
<1>3. \A n \in 1 .. Len(r) : n \in 1 .. Len(rows) \/ n = Len(rows) + 1
  BY <1>2
<1>4. Dated(r, t)
  BY <1>1, <1>2, <1>3 DEF Dated
<1> QED BY <1>2, <1>4 DEF r, x

(* A purge leaves only rows that were there.                               *)
LEMMA DatedOfPurge ==
    ASSUME NEW rows \in Seq(Rows), NEW t \in Nat, NEW S, Dated(rows, t)
    PROVE  Kept(rows, S) \in Seq(Rows) /\ Dated(Kept(rows, S), t)
<1>1. /\ Kept(rows, S) \in Seq(Rows)
      /\ \A n \in 1 .. Len(Kept(rows, S)) : \E m \in 1 .. Len(rows) : Kept(rows, S)[n] = rows[m]
  BY KeptType
<1> QED BY <1>1 DEF Dated

(* Every step keeps the rows dated, and those of listed agents.            *)
LEMMA RowsKeep ==
    ASSUME FleetInv, TableStep, now \in Nat, UNCHANGED thresholds
    PROVE  /\ telemetry' \in [Agents -> Seq(Rows)]
           /\ \A a \in Agents :
                /\ Dated(telemetry'[a], now')
                /\ telemetry'[a] # <<>> => Contains(agents', a)
<1>1. /\ telemetry \in [Agents -> Seq(Rows)]
      /\ \A a \in Agents : Dated(telemetry[a], now)
      /\ \A a \in Agents : telemetry[a] # <<>> => Contains(agents, a)
  BY DEF FleetInv, TableInv, FleetTypeOK, Dated
<1>2. \A a \in Agents : Contains(agents, a) => Contains(agents', a)
  BY AgentsStayListed DEF TableStep
<1>3. CASE UNCHANGED telemetry /\ now' \in {now, now + 1}
  <2>1. ASSUME NEW a \in Agents PROVE Dated(telemetry'[a], now')
    <3>1. Dated(telemetry[a], now) /\ telemetry[a] \in Seq(Rows) /\ telemetry'[a] = telemetry[a]
      BY <1>1, <1>3
    <3>2. \A k \in 1 .. Len(telemetry[a]) : telemetry[a][k].created \in Nat
      <4>1. \A k \in 1 .. Len(telemetry[a]) : telemetry[a][k] \in Rows
        BY <3>1
      <4>2. \A x \in Rows : x.created \in Nat
        BY DEF Rows
      <4> QED BY <4>1, <4>2
    <3> QED BY <1>3, <3>1, <3>2 DEF Dated
  <2> QED BY <1>1, <1>2, <1>3, <2>1
<1>4. CASE Purges
  <2>1. \A a \in Agents :
            telemetry'[a] = Kept(telemetry[a], {r \in Rows : r.time >= now - Retention})
    BY <1>4 DEF Purges, Purge
  <2>2. telemetry' = [a \in Agents |-> telemetry'[a]]
    BY <1>4 DEF Purges, Purge
  <2>3. ASSUME NEW a \in Agents
        PROVE  telemetry'[a] \in Seq(Rows) /\ Dated(telemetry'[a], now)
    BY <1>1, <2>1, DatedOfPurge
  <2>4. ASSUME NEW a \in Agents, telemetry[a] = <<>> PROVE telemetry'[a] = <<>>
    BY <2>1, <2>4, KeptOfNothing
  <2> QED BY <1>1, <1>2, <1>4, <2>2, <2>3, <2>4 DEF Purges
<1>5. CASE Stores
  <2>1. UNCHANGED <<agents, now>>
    BY <1>5 DEF Stores
  <2>2. PICK r \in Slots : conn[r].pc = "store"
                /\ Insert(conn[r].body.agent, conn[r].body.time, now)
    BY <1>5 DEF Stores
  <2> DEFINE b == conn[r].body.agent
             ts == conn[r].body.time
  <2>3. b \in Agents /\ Contains(agents, b) /\ ts \in Nat /\ ts <= now + Ahead
    BY <2>2 DEF FleetInv, Carries
  <2> HIDE DEF b, ts
  <2>4. /\ telemetry' = [a \in Agents |-> telemetry'[a]]
        /\ \A a \in Agents : telemetry'[a] =
             IF a = b THEN Append(telemetry[a], [time |-> ts, created |-> now])
                      ELSE telemetry[a]
    BY <1>1, <2>2, <2>3 DEF Insert, b, ts
  <2>5. ASSUME NEW a \in Agents
        PROVE  telemetry'[a] \in Seq(Rows) /\ Dated(telemetry'[a], now)
    BY <1>1, <2>3, <2>4, DatedOfInsert
  <2> QED BY <1>1, <2>1, <2>3, <2>4, <2>5
<1> QED BY <1>3, <1>4, <1>5 DEF TableStep, Rests, Grows, Ticks

(* Every step keeps the tables in order.                                   *)
LEMMA FleetStep ==
    ASSUME RequestInv, LimiterInv, FleetInv, [Next]_vars
    PROVE  FleetInv' /\ TableStep /\ UNCHANGED thresholds
<1>1. /\ TableStep /\ UNCHANGED thresholds /\ now \in Nat
      /\ left' = left \/ (left > 0 /\ left' = left - 1)
  BY TableSteps DEF TableStep, LimiterInv
<1>2. \A s \in Slots : Carries(conn'[s], agents', now')
  BY <1>1, CarriesOn
<1>3. agents' \in Seq(Agents) /\ IsInjective(agents')
  <2>1. agents \in Seq(Agents) /\ IsInjective(agents)
    BY DEF FleetInv, TableInv, FleetTypeOK
  <2>2. ASSUME NEW a \in Agents, Upsert(a) PROVE agents' \in Seq(Agents) /\ IsInjective(agents')
    BY <2>1, <2>2, UpsertKeeps DEF Upsert
  <2> QED BY <1>1, <2>1, <2>2 DEF TableStep, Rests, Grows, Ticks, Purges, Stores
<1>4. left' \in Nat /\ thresholds' \in [healthy : Nat \ {0}, stale : Nat \ {0}]
  BY <1>1 DEF FleetInv, TableInv, FleetTypeOK
<1>5. /\ telemetry' \in [Agents -> Seq(Rows)]
      /\ \A a \in Agents :
            Dated(telemetry'[a], now') /\ (telemetry'[a] # <<>> => Contains(agents', a))
  BY <1>1, RowsKeep
<1>6. TableInv'
  BY <1>3, <1>4, <1>5 DEF TableInv, FleetTypeOK, Dated
<1> QED BY <1>1, <1>2, <1>6 DEF FleetInv

(* At the start the tables are as the configuration has them.              *)
LEMMA FleetInit == Init => FleetInv
<1> SUFFICES ASSUME Init PROVE FleetInv
  OBVIOUS
<1>1. /\ env.agents \in Seq(Agents) /\ IsInjective(env.agents) /\ env.load \in Nat
      /\ env.healthy \in Int /\ env.stale \in Int
  BY RequestsAssumption DEF Init
<1>2. agents \in Seq(Agents) /\ IsInjective(agents) /\ left \in Nat
      /\ telemetry = [a \in Agents |-> <<>>]
  BY <1>1 DEF Init, FleetTables
<1>3. thresholds \in [healthy : Nat \ {0}, stale : Nat \ {0}]
  <2>1. \A x \in Int, y \in Nat \ {0} : LoadDuration(x, y) \in Nat \ {0}
    BY DEF LoadDuration
  <2>2. \A x \in Nat \ {0}, y \in Nat \ {0} :
            NewService(x, y) \in [healthy : Nat \ {0}, stale : Nat \ {0}]
    BY FleetAssumption DEF NewService
  <2> QED BY <1>1, <2>1, <2>2, FleetAssumption DEF Init, LoadThresholds
<1>4. \A s \in Slots : Carries(conn[s], agents, now)
  BY DEF Init, NoRequest, Carries
<1>5. TableInv
  BY <1>2, <1>3 DEF TableInv, FleetTypeOK
<1> QED BY <1>4, <1>5 DEF FleetInv

(* The tables are always in order.                                         *)
LEMMA FleetInvariant == Spec => []FleetInv
BY FleetInit, FleetStep, RequestInvariant, LimiterInvariant, PTL DEF Spec

----------------------------------------------------------------------------
(* Health follows the newest time.                                         *)
ClassOf(latest, t, limits) ==
    IF latest = None THEN "offline"
    ELSE IF AgeOf(latest, t) <= limits.healthy THEN "healthy"
    ELSE IF AgeOf(latest, t) < limits.stale THEN "stale" ELSE "offline"

(* The class of an agent is that of its newest time.                       *)
LEMMA HealthIs ==
    ASSUME NEW a \in Agents
    PROVE  /\ GetLatest(a) = Newest(telemetry[a])
           /\ Status(a) = ClassOf(Newest(telemetry[a]), now, thresholds)
<1>1. GetLatest(a) = Newest(telemetry[a])
  BY DEF GetLatest, Times, Newest, TimesOf
<1> QED BY <1>1 DEF Status, Health, Classify, ClassOf

(* The same of the state after a step.                                     *)
LEMMA HealthWillBe ==
    ASSUME NEW a \in Agents
    PROVE  /\ GetLatest(a)' = Newest(telemetry'[a])
           /\ Status(a)' = ClassOf(Newest(telemetry'[a]), now', thresholds')
<1>1. GetLatest(a)' = Newest(telemetry'[a])
  BY DEF GetLatest, Times, Newest, TimesOf
<1> QED BY <1>1 DEF Status, Health, Classify, ClassOf

(* The newest time after a step: a purge forgets it if it is older than    *)
(* the retention, and a new one is that of a sample just stored, the last  *)
(* row then.                                                               *)
LEMMA NewestMoves ==
    ASSUME FleetInv, TableStep, now \in Nat, NEW a \in Agents
    PROVE  /\ telemetry[a] \in Seq(Rows) /\ Newest(telemetry[a]) \in Int
           /\ \/ Newest(telemetry'[a]) = Newest(telemetry[a])
              \/ /\ Purges /\ Newest(telemetry[a]) < now - Retention
                 /\ Newest(telemetry'[a]) = None
              \/ /\ Stores /\ Newest(telemetry'[a]) > Newest(telemetry[a])
                 /\ Newest(telemetry'[a]) \in Nat
                 /\ Len(telemetry'[a]) > Len(telemetry[a])
                 /\ Last(telemetry'[a]).time = Newest(telemetry'[a])
<1>1. /\ telemetry \in [Agents -> Seq(Rows)] /\ telemetry[a] \in Seq(Rows)
      /\ Newest(telemetry[a]) \in Int
  BY NewestIs DEF FleetInv, TableInv, FleetTypeOK
<1>2. CASE UNCHANGED telemetry
  BY <1>1, <1>2
<1>3. CASE Purges
  <2>1. telemetry'[a] = Kept(telemetry[a], {r \in Rows : r.time >= now - Retention})
    BY <1>3 DEF Purges, Purge
  <2>2. now - Retention \in Int
    BY FleetAssumption
  <2>3. Newest(telemetry'[a]) = IF Newest(telemetry[a]) >= now - Retention
                                THEN Newest(telemetry[a]) ELSE None
    BY <1>1, <2>1, <2>2, NewestOfPurge
  <2> QED BY <1>1, <1>3, <2>2, <2>3
<1>4. CASE Stores
  <2>1. PICK r \in Slots : conn[r].pc = "store"
                /\ Insert(conn[r].body.agent, conn[r].body.time, now)
    BY <1>4 DEF Stores
  <2> DEFINE b == conn[r].body.agent
             ts == conn[r].body.time
  <2>2. b \in Agents /\ ts \in Nat
    BY <2>1 DEF FleetInv, Carries
  <2> HIDE DEF b, ts
  <2>4. telemetry'[a] = IF a = b THEN Append(telemetry[a], [time |-> ts, created |-> now])
                        ELSE telemetry[a]
    BY <1>1, <2>1, <2>2 DEF Insert, b, ts
  <2>5. [time |-> ts, created |-> now] \in Rows
    BY <2>2 DEF Rows
  <2>6. a = b => Newest(telemetry'[a]) =
            IF ts > Newest(telemetry[a]) THEN ts ELSE Newest(telemetry[a])
    BY <1>1, <2>4, <2>5, NewestOfInsert
  <2>7. a = b => /\ Len(telemetry'[a]) > Len(telemetry[a])
                 /\ Last(telemetry'[a]).time = ts
    BY <1>1, <2>4, <2>5 DEF Last
  <2> QED BY <1>1, <1>4, <2>2, <2>4, <2>6, <2>7
<1> QED BY <1>2, <1>3, <1>4 DEF TableStep, Rests, Grows, Ticks

(* The last time an agent was seen moves forward until all is purged.      *)
THEOREM LastSeenMovesForward == Spec => LastSeenAdvances
<1>1. ASSUME RequestInv, LimiterInv, FleetInv, [Next]_vars, NEW a \in Agents
      PROVE  GetLatest(a)' >= GetLatest(a) \/ GetLatest(a)' = None
  <2>1. TableStep /\ now \in Nat
    BY <1>1, FleetStep DEF LimiterInv
  <2>2. GetLatest(a) = Newest(telemetry[a]) /\ GetLatest(a)' = Newest(telemetry'[a])
    BY HealthIs, HealthWillBe
  <2> QED BY <1>1, <2>1, <2>2, NewestMoves
<1>2. RequestInv /\ LimiterInv /\ FleetInv /\ [Next]_vars =>
        [\A a \in Agents : GetLatest(a)' >= GetLatest(a) \/ GetLatest(a)' = None]_telemetry
  BY <1>1
<1> QED BY <1>2, RequestInvariant, LimiterInvariant, FleetInvariant, PTL DEF Spec, LastSeenAdvances
Limits == [healthy : Nat \ {0}, stale : Nat \ {0}]

(* The classes from the worst to the best.                                 *)
LEMMA RankIs == Rank("offline") = 0 /\ Rank("stale") = 1 /\ Rank("healthy") = 2
BY DEF Rank

(* What is older is in no better class.                                    *)
LEMMA OlderIsNoBetter ==
    ASSUME NEW limits \in Limits, NEW l \in Int, NEW t \in Int, NEW m \in Int, NEW u \in Int,
           l # None, t - l <= u - m
    PROVE  Rank(ClassOf(m, u, limits)) <= Rank(ClassOf(l, t, limits))
<1>1. AgeOf(l, t) \in Nat /\ AgeOf(m, u) \in Nat /\ AgeOf(l, t) <= AgeOf(m, u)
  BY CutAge, CutAgeGrows
<1>2. limits.healthy \in Nat /\ limits.stale \in Nat
  BY DEF Limits
<1>3. CASE m = None
  BY <1>3, RankIs DEF ClassOf
<1>4. CASE AgeOf(l, t) <= limits.healthy
  BY <1>4, RankIs DEF ClassOf
<1>5. CASE m # None /\ ~(AgeOf(l, t) <= limits.healthy)
  <2>1. ~(AgeOf(m, u) <= limits.healthy)
    BY <1>1, <1>2, <1>5
  <2>2. AgeOf(m, u) < limits.stale => AgeOf(l, t) < limits.stale
    BY <1>1, <1>2
  <2> QED BY <1>5, <2>1, <2>2, RankIs DEF ClassOf
<1> QED BY <1>3, <1>4, <1>5

(* An agent gets better only by a new sample of its own.                   *)
LEMMA HealedBySample ==
    ASSUME RequestInv, LimiterInv, FleetInv, [Next]_vars, NEW a \in Agents,
           Rank(Status(a))' > Rank(Status(a))
    PROVE  Len(telemetry'[a]) > Len(telemetry[a]) /\ Last(telemetry'[a]).time > GetLatest(a)
<1> DEFINE l == Newest(telemetry[a])
           m == Newest(telemetry'[a])
<1>1. TableStep /\ now \in Nat /\ UNCHANGED thresholds /\ thresholds \in Limits
  BY FleetStep DEF LimiterInv, FleetInv, TableInv, FleetTypeOK, Limits
<1>2. Rank(ClassOf(m, now', thresholds)) > Rank(ClassOf(l, now, thresholds)) /\ GetLatest(a) = l
  <2>1. /\ Status(a) = ClassOf(l, now, thresholds) /\ GetLatest(a) = l
        /\ Status(a)' = ClassOf(m, now', thresholds')
    BY HealthIs, HealthWillBe
  <2>2. Rank(Status(a))' = Rank(ClassOf(m, now', thresholds))
    BY <1>1, <2>1 DEF Rank
  <2> QED BY <2>1, <2>2
<1>3. now' \in Nat /\ now <= now'
  BY <1>1 DEF TableStep, Rests, Grows, Ticks, Purges, Stores
<1>4. l \in Int
  BY <1>1, NewestMoves
<1> HIDE DEF l, m
<1>5. CASE m = l
  <2>1. l # None => Rank(ClassOf(l, now', thresholds)) <= Rank(ClassOf(l, now, thresholds))
    BY <1>1, <1>3, <1>4, OlderIsNoBetter
  <2>2. l = None => Rank(ClassOf(l, now', thresholds)) = 0 /\ Rank(ClassOf(l, now, thresholds)) = 0
    BY RankIs DEF ClassOf
  <2>3. \A u \in Nat : Rank(ClassOf(l, u, thresholds)) \in {0, 1, 2}
    BY RankIs DEF ClassOf
  <2> QED BY <1>1, <1>2, <1>3, <1>5, <2>1, <2>2, <2>3
<1>6. CASE m = None
  <2>1. Rank(ClassOf(m, now', thresholds)) = 0
    BY <1>6, RankIs DEF ClassOf
  <2>2. Rank(ClassOf(l, now, thresholds)) \in {0, 1, 2}
    BY RankIs DEF ClassOf
  <2> QED BY <1>2, <2>1, <2>2
<1>7. CASE /\ m > l /\ Len(telemetry'[a]) > Len(telemetry[a])
           /\ Last(telemetry'[a]).time = m
  BY <1>2, <1>7
<1> QED BY <1>1, <1>5, <1>6, <1>7, NewestMoves DEF l, m

(* The class of an agent gets better only in a step that stores a sample   *)
(* of its own, newer than all before.                                      *)
THEOREM SamplesHeal == Spec => OnlyASampleHeals
<1>1. RequestInv /\ LimiterInv /\ FleetInv /\ [Next]_vars =>
        [\A a \in Agents : Rank(Status(a))' > Rank(Status(a)) =>
            /\ Len(telemetry'[a]) > Len(telemetry[a])
            /\ Last(telemetry'[a]).time > GetLatest(a)]_vars
  BY HealedBySample
<1> QED BY <1>1, RequestInvariant, LimiterInvariant, FleetInvariant, PTL DEF Spec, OnlyASampleHeals

(* An agent that reports no more is offline in time.                       *)
THEOREM SilentAgentsGoOffline == Spec => []OfflineInTime
<1>1. LimiterInv /\ FleetInv => OfflineInTime
  <2> SUFFICES ASSUME LimiterInv, FleetInv, NEW a \in Agents,
                      \A b \in {thresholds.stale + Second - 1, thresholds.healthy + Second},
                         c \in Silent(a) : now - c >= Ahead + b
               PROVE  Status(a) = "offline"
    BY DEF OfflineInTime
  <2> DEFINE l == Newest(telemetry[a])
  <2>1. Status(a) = ClassOf(l, now, thresholds)
    BY HealthIs
  <2>2. /\ telemetry[a] \in Seq(Rows) /\ now \in Nat
        /\ thresholds.healthy \in Nat /\ thresholds.stale \in Nat /\ Second \in Nat \ {0}
        /\ Ahead \in Nat
    BY FleetAssumption, RequestsAssumption DEF FleetInv, TableInv, FleetTypeOK, LimiterInv
  <2>3. CASE telemetry[a] = <<>>
    BY <2>1, <2>3 DEF Newest, ClassOf
  <2>4. CASE telemetry[a] # <<>>
    <3>1. PICK k \in 1 .. Len(telemetry[a]) : l = telemetry[a][k].time
      BY <2>2, <2>4, NewestIs
    <3>2. telemetry[a][k] \in Rows /\ k \in DOMAIN telemetry[a]
      BY <2>2
    <3> DEFINE c == telemetry[a][k].created
    <3>3. c \in Nat /\ l \in Nat /\ l <= c + Ahead /\ c \in Silent(a)
      BY <3>1, <3>2 DEF Rows, FleetInv, TableInv, Silent
    <3>4. now - c >= Ahead + (thresholds.stale + Second - 1)
          /\ now - c >= Ahead + (thresholds.healthy + Second)
      BY <3>3
    <3> HIDE DEF c, l
    <3>5. now - l >= thresholds.stale + Second - 1 /\ now - l >= thresholds.healthy + Second
      BY <2>2, <3>3, <3>4
    <3>6. now - l < AgeOf(l, now) + Second /\ AgeOf(l, now) \in Nat
      <4>1. now \in Int /\ l \in Int /\ l <= now
        BY <2>2, <3>3, <3>5
      <4> QED BY <4>1, CutAge
    <3>7. ~(AgeOf(l, now) <= thresholds.healthy) /\ ~(AgeOf(l, now) < thresholds.stale)
      BY <2>2, <3>3, <3>5, <3>6
    <3> QED BY <2>1, <3>7 DEF ClassOf, l
  <2> QED BY <2>3, <2>4
<1> QED BY <1>1, LimiterInvariant, FleetInvariant, PTL

(* No agent goes offline without having been stale.                        *)
LEMMA NotOfflineAtOnce ==
    ASSUME RequestInv, LimiterInv, FleetInv, [Next]_vars,
           thresholds.stale > thresholds.healthy + Second,
           Retention >= thresholds.healthy + Second,
           NEW a \in Agents, Status(a) = "healthy"
    PROVE  Status(a)' # "offline"
<1> DEFINE l == Newest(telemetry[a])
           m == Newest(telemetry'[a])
<1>1. TableStep /\ now \in Nat /\ UNCHANGED thresholds
  BY FleetStep DEF LimiterInv
<1>2. /\ thresholds.healthy \in Nat /\ thresholds.stale \in Nat
      /\ Second \in Nat \ {0} /\ Retention \in Nat
  BY FleetAssumption DEF FleetInv, TableInv, FleetTypeOK
<1>3. /\ ClassOf(l, now, thresholds) = "healthy"
      /\ Status(a)' = ClassOf(m, now', thresholds)
  BY <1>1, HealthIs, HealthWillBe
<1>4. l \in Int /\ now \in Int
  BY <1>1, NewestMoves
<1>5. now' \in Nat /\ now' \in Int /\ now' \in {now, now + 1}
  BY <1>1 DEF TableStep, Rests, Grows, Ticks, Purges, Stores
<1> HIDE DEF l, m
<1>6. /\ l # None /\ AgeOf(l, now) <= thresholds.healthy /\ AgeOf(l, now) \in Nat
      /\ now - l < AgeOf(l, now) + Second
  <2>1. /\ l # None /\ AgeOf(l, now) <= thresholds.healthy
    BY <1>3 DEF ClassOf
  <2>2. /\ AgeOf(l, now) \in Nat
        /\ l <= now => now - l < AgeOf(l, now) + Second
    BY <1>4, CutAge
  <2> QED BY <1>1, <1>2, <1>4, <2>1, <2>2
<1>7. CASE m = l
  <2>1. /\ AgeOf(l, now') \in Nat
        /\ l <= now' => AgeOf(l, now') <= now' - l
        /\ now' < l => AgeOf(l, now') = 0
    BY <1>4, <1>5, CutAge
  <2>2. AgeOf(l, now') < thresholds.stale
    <3>1. now' - l <= thresholds.healthy + Second
      BY <1>2, <1>4, <1>5, <1>6
    <3>2. thresholds.healthy + Second < thresholds.stale
      BY <1>2
    <3>3. CASE l <= now'
      BY <1>2, <1>4, <1>5, <2>1, <3>1, <3>2, <3>3
    <3>4. CASE ~(l <= now')
      BY <1>2, <1>4, <1>5, <2>1, <3>2, <3>4
    <3> QED BY <3>3, <3>4
  <2> QED BY <1>3, <1>6, <1>7, <2>2 DEF ClassOf
<1>8. CASE l < now - Retention
  BY <1>1, <1>2, <1>4, <1>6, <1>8
<1>9. CASE m > l /\ m \in Nat /\ now' = now
  <2>1. AgeOf(m, now) <= AgeOf(l, now) /\ AgeOf(m, now) \in Nat
    <3>1. m \in Int /\ now - m <= now - l
      BY <1>4, <1>9
    <3> QED BY <1>4, <3>1, CutAge, CutAgeGrows
  <2>2. m # None /\ AgeOf(m, now') <= thresholds.healthy
    BY <1>2, <1>6, <1>9, <2>1 DEF None
  <2> QED BY <1>3, <2>2 DEF ClassOf
<1>10. Stores => now' = now
  BY DEF Stores
<1> QED BY <1>1, <1>7, <1>8, <1>9, <1>10, NewestMoves DEF l, m

(* No step takes an agent from healthy to offline, if the thresholds are   *)
(* more than a second apart and samples are kept that long.                *)
THEOREM StaleComesFirst == Spec => StaleBeforeOffline
<1>1. RequestInv /\ LimiterInv /\ FleetInv /\ [Next]_vars =>
        [thresholds.stale > thresholds.healthy + Second
               /\ Retention >= thresholds.healthy + Second =>
            \A a \in Agents : Status(a) = "healthy" => Status(a)' # "offline"]_vars
  BY NotOfflineAtOnce
<1> QED BY <1>1, RequestInvariant, LimiterInvariant, FleetInvariant, PTL DEF Spec,
    StaleBeforeOffline
----------------------------------------------------------------------------
(* Overviews.  The agents counted so far are the first of the list, and    *)
(* the counts are those of classes the queries can have given them: by a   *)
(* time one could find and a clock since then.                             *)
Given(s, t, limits) ==
    [a \in Agents |->
        {c \in Classes : \E f \in s[a] : \E u \in f.at .. t : c = ClassOf(f.latest, u, limits)}]

Plausible(counts, done, h) ==
    /\ IsFiniteSet(done)
    /\ \E class \in [done -> Classes] :
            /\ \A a \in done : class[a] \in h[a]
            /\ \A c \in Classes : counts[c] = Cardinality({a \in done : class[a] = c})

Listed(list, n) == {list[k] : k \in 1 .. n}

Viewing(v, h, list) ==
    /\ DOMAIN v = {"todo", "total", "latest", "counts"}
    /\ v.todo \in Seq(Agents) /\ v.total \in 0 .. Len(list) /\ Len(v.todo) <= v.total
    /\ v.counts \in [Classes -> Nat]
    /\ v.total = Len(v.todo) + v.counts["healthy"] + v.counts["stale"] + v.counts["offline"]
    /\ \A k \in 1 .. Len(v.todo) : v.todo[k] = list[v.total - Len(v.todo) + k]
    /\ Plausible(v.counts, Listed(list, v.total - Len(v.todo)), h)

(* What could be found until t.                                            *)
Sightings(t) == [Agents -> SUBSET [latest : Nat \cup {None}, at : 0 .. t]]

(* What slot r knows, given its place, the list, the tables and the clock. *)
Overview(place, v, s, list, tables, t, limits) ==
    /\ s \in Sightings(t)
    /\ place \notin Counting => v = NoView
    /\ place \in Counting =>
        /\ Viewing(v, Given(s, t, limits), list)
        /\ \A a \in Agents : \E f \in s[a] : f.latest = Newest(tables[a])
    /\ place = "classify" =>
        /\ v.todo # <<>>
        /\ \E f \in s[Head(v.todo)] : f.latest = v.latest

OverviewInv ==
    /\ view = [r \in Slots |-> view[r]] /\ seen = [r \in Slots |-> seen[r]]
    /\ \A r \in Slots :
        Overview(conn[r].pc, view[r], seen[r], agents, telemetry, now, thresholds)

(* What queries can have given grows with what they could find and time.   *)
LEMMA GivenGrows ==
    ASSUME NEW t \in Nat, NEW u \in Nat, t <= u, NEW s \in Sightings(t), NEW g,
           \A a \in Agents : s[a] \subseteq g[a], NEW limits
    PROVE  \A a \in Agents : Given(s, t, limits)[a] \subseteq Given(g, u, limits)[a]
<1> SUFFICES ASSUME NEW a \in Agents, NEW c \in Given(s, t, limits)[a]
             PROVE  c \in Given(g, u, limits)[a]
  OBVIOUS
<1>1. PICK f \in s[a] : \E w \in f.at .. t : c = ClassOf(f.latest, w, limits)
  BY DEF Given
<1>2. PICK w \in f.at .. t : c = ClassOf(f.latest, w, limits)
  BY <1>1
<1>3. f.at \in Nat
  <2>1. f \in [latest : Nat \cup {None}, at : 0 .. t]
    BY DEF Sightings
  <2> QED BY <2>1
<1>4. w \in f.at .. u /\ f \in g[a] /\ c \in Classes
  BY <1>2, <1>3 DEF Given
<1> QED BY <1>2, <1>4 DEF Given

(* An overview stays valid as agents are appended and the classes they     *)
(* can have been given become more.                                        *)
LEMMA ViewingStill ==
    ASSUME NEW v, NEW h, NEW g, NEW list \in Seq(Agents), NEW more \in Seq(Agents),
           Viewing(v, h, list), \A a \in Agents : h[a] \subseteq g[a],
           Len(list) <= Len(more), \A k \in 1 .. Len(list) : more[k] = list[k]
    PROVE  Viewing(v, g, more)
<1> DEFINE n == v.total - Len(v.todo)
           done == Listed(list, n)
<1>1. /\ v.total \in 0 .. Len(list) /\ Len(v.todo) \in Nat /\ n \in 0 .. Len(list)
      /\ Len(list) \in Nat /\ Len(more) \in Nat
  BY DEF Viewing
<1>2. Listed(more, n) = done
  BY <1>1 DEF Listed
<1>3. done \subseteq Agents
  BY <1>1 DEF Listed
<1>4. Plausible(v.counts, done, g)
  <2> HIDE DEF done
  <2> SUFFICES ASSUME Plausible(v.counts, done, h) PROVE Plausible(v.counts, done, g)
    BY DEF Viewing, done
  <2>1. PICK class \in [done -> Classes] :
            /\ \A a \in done : class[a] \in h[a]
            /\ \A c \in Classes : v.counts[c] = Cardinality({a \in done : class[a] = c})
    BY DEF Plausible
  <2>2. \A a \in done : class[a] \in g[a]
    BY <1>3, <2>1
  <2> QED BY <2>1, <2>2 DEF Plausible
<1>5. \A k \in 1 .. Len(v.todo) : v.todo[k] = more[v.total - Len(v.todo) + k]
  <2> SUFFICES ASSUME NEW k \in 1 .. Len(v.todo)
               PROVE  v.todo[k] = more[v.total - Len(v.todo) + k]
    OBVIOUS
  <2>1. v.todo[k] = list[v.total - Len(v.todo) + k]
    BY DEF Viewing
  <2>2. v.total - Len(v.todo) + k \in 1 .. Len(list)
    BY <1>1
  <2> QED BY <2>1, <2>2
<1>6. v.total \in 0 .. Len(more)
  BY <1>1
<1> QED BY <1>2, <1>4, <1>5, <1>6 DEF Viewing

(* An overview starts with nothing counted and all agents to do.           *)
LEMMA ViewingStarts ==
    ASSUME NEW list \in Seq(Agents), NEW h
    PROVE  Viewing([NoView EXCEPT !.todo = list, !.total = Len(list)], h, list)
<1> DEFINE v == [NoView EXCEPT !.todo = list, !.total = Len(list)]
<1>1. /\ DOMAIN v = {"todo", "total", "latest", "counts"}
      /\ v.todo = list /\ v.total = Len(list) /\ v.counts = [c \in Classes |-> 0]
  BY DEF NoView
<1> HIDE DEF v
<1>2. Len(list) \in Nat
  OBVIOUS
<1>4. Listed(list, 0) = {}
  BY DEF Listed
<1>5. Plausible(v.counts, {}, h)
  <2>1. [a \in {} |-> "stale"] \in [{} -> Classes]
    OBVIOUS
  <2>2. \A c \in Classes : v.counts[c] = 0
    BY <1>1
  <2>3. \A c : {a \in {} : [b \in {} |-> "stale"][a] = c} = {}
    OBVIOUS
  <2> QED BY <2>1, <2>2, <2>3, FS_EmptySet DEF Plausible
<1>6. v.total - Len(v.todo) = 0
  BY <1>1, <1>2
<1>7. v.counts \in [Classes -> Nat] /\ v.counts["healthy"] = 0 /\ v.counts["stale"] = 0
      /\ v.counts["offline"] = 0
  <2>1. \A c \in Classes : v.counts[c] = 0
    BY <1>1
  <2>2. v.counts \in [Classes -> Nat]
    BY <1>1
  <2> QED BY <2>1, <2>2 DEF Classes
<1>8. Viewing(v, h, list)
  <2>1. v.todo \in Seq(Agents) /\ v.total \in 0 .. Len(list) /\ Len(v.todo) <= v.total
    BY <1>1, <1>2
  <2>2. v.total = Len(v.todo) + v.counts["healthy"] + v.counts["stale"] + v.counts["offline"]
    BY <1>1, <1>2, <1>7
  <2>3. \A k \in 1 .. Len(v.todo) : v.todo[k] = list[v.total - Len(v.todo) + k]
    BY <1>1, <1>2
  <2>4. Plausible(v.counts, Listed(list, v.total - Len(v.todo)), h)
    BY <1>4, <1>5, <1>6
  <2> QED BY <1>1, <1>7, <2>1, <2>2, <2>3, <2>4 DEF Viewing
<1> QED BY <1>8 DEF v

(* One more agent is counted, in the class it has now.                     *)
LEMMA PlausibleNext ==
    ASSUME NEW counts \in [Classes -> Nat], NEW done, NEW h,
           Plausible(counts, done, h), NEW a, a \notin done, NEW k \in Classes, k \in h[a]
    PROVE  Plausible([counts EXCEPT ![k] = @ + 1], done \cup {a}, h)
<1>1. PICK class \in [done -> Classes] :
            /\ \A b \in done : class[b] \in h[b]
            /\ \A c \in Classes : counts[c] = Cardinality({b \in done : class[b] = c})
  BY DEF Plausible
<1>0. IsFiniteSet(done) /\ IsFiniteSet(done \cup {a})
  BY FS_AddElement DEF Plausible
<1> DEFINE next == [b \in done \cup {a} |-> IF b = a THEN k ELSE class[b]]
<1>2. /\ next \in [done \cup {a} -> Classes]
      /\ next[a] = k /\ \A b \in done : next[b] = class[b]
  BY <1>1
<1> HIDE DEF next
<1>3. \A b \in done \cup {a} : next[b] \in h[b]
  BY <1>1, <1>2
<1>4. ASSUME NEW c \in Classes
      PROVE  [counts EXCEPT ![k] = @ + 1][c] = Cardinality({b \in done \cup {a} : next[b] = c})
  <2> DEFINE S == {b \in done : class[b] = c}
  <2>1. IsFiniteSet(S) /\ a \notin S /\ counts[c] = Cardinality(S) /\ S \subseteq done
    BY <1>0, <1>1, FS_Subset
  <2>2. {b \in done \cup {a} : next[b] = c} = IF c = k THEN S \cup {a} ELSE S
    BY <1>2
  <2> HIDE DEF S
  <2>3. Cardinality(S \cup {a}) = Cardinality(S) + 1
    BY <2>1, FS_AddElement
  <2> QED BY <2>1, <2>2, <2>3
<1> QED BY <1>0, <1>2, <1>3, <1>4 DEF Plausible

(* What a query found is kept until the agent is counted.                  *)
LEMMA ViewingFinds ==
    ASSUME NEW list, NEW h, NEW v, Viewing(v, h, list), NEW latest
    PROVE  LET w == [v EXCEPT !.latest = latest]
           IN  Viewing(w, h, list) /\ w.todo = v.todo /\ w.latest = latest
<1> DEFINE w == [v EXCEPT !.latest = latest]
<1>1. /\ DOMAIN w = {"todo", "total", "latest", "counts"} /\ w.todo = v.todo
      /\ w.total = v.total /\ w.counts = v.counts /\ w.latest = latest
  BY DEF Viewing
<1> HIDE DEF w
<1>2. Viewing(w, h, list)
  BY <1>1 DEF Viewing
<1> QED BY <1>1, <1>2 DEF w

(* Counting one agent takes it off the list, in a class it can be given.   *)
LEMMA ViewingCounts ==
    ASSUME NEW list \in Seq(Agents), IsInjective(list), NEW h \in [Agents -> SUBSET Classes],
           NEW v, Viewing(v, h, list), v.todo # <<>>,
           NEW k \in Classes, k \in h[Head(v.todo)]
    PROVE  Viewing([v EXCEPT !.todo = Tail(@), !.latest = None, !.counts[k] = @ + 1], h, list)
<1> DEFINE w == [v EXCEPT !.todo = Tail(@), !.latest = None, !.counts[k] = @ + 1]
           n == v.total - Len(v.todo)
           a == Head(v.todo)
<1>1. /\ DOMAIN w = {"todo", "total", "latest", "counts"} /\ w.todo = Tail(v.todo) /\ w.total = v.total
      /\ w.counts = [v.counts EXCEPT ![k] = @ + 1]
  BY DEF Viewing
<1>2. /\ v.todo \in Seq(Agents) /\ Len(v.todo) \in Nat \ {0} /\ v.total \in 0 .. Len(list)
      /\ Len(list) \in Nat /\ Len(v.todo) <= v.total
  BY DEF Viewing
<1>3. /\ Tail(v.todo) \in Seq(Agents) /\ Len(Tail(v.todo)) = Len(v.todo) - 1
      /\ \A j \in 1 .. Len(Tail(v.todo)) : Tail(v.todo)[j] = v.todo[j + 1]
      /\ a = v.todo[1]
  BY <1>2
<1> HIDE DEF w
<1>4. n \in 0 .. Len(list) /\ n + 1 \in 1 .. Len(list) /\ w.total - Len(w.todo) = n + 1
  BY <1>1, <1>2, <1>3
<1>5. a = list[n + 1]
  <2>1. 1 \in 1 .. Len(v.todo)
    BY <1>2
  <2>2. v.todo[1] = list[v.total - Len(v.todo) + 1]
    BY <2>1 DEF Viewing
  <2> QED BY <1>3, <2>2
<1>6. Listed(list, n + 1) = Listed(list, n) \cup {a}
  BY <1>4, <1>5 DEF Listed
<1>7. a \notin Listed(list, n)
  <2>1. DOMAIN list = 1 .. Len(list)
    OBVIOUS
  <2> HIDE DEF n
  <2>2. n \in Nat /\ \A j \in 1 .. n : j \in 1 .. Len(list) /\ j # n + 1
    BY <1>2, <1>4
  <2>3. \A j \in 1 .. n : list[j] # list[n + 1]
    BY <1>4, <2>1, <2>2 DEF IsInjective
  <2> QED BY <1>5, <2>3 DEF Listed
<1>9. Plausible(w.counts, Listed(list, n + 1), h)
  <2>1. Plausible(v.counts, Listed(list, n), h) /\ v.counts \in [Classes -> Nat]
    BY DEF Viewing
  <2> DEFINE done == Listed(list, n)
  <2>2. a \notin done /\ Plausible(v.counts, done, h) /\ k \in h[a]
    BY <1>7, <2>1
  <2> HIDE DEF done, a
  <2>3. Plausible([v.counts EXCEPT ![k] = @ + 1], done \cup {a}, h)
    BY <2>1, <2>2, PlausibleNext
  <2>4. Listed(list, n + 1) = done \cup {a}
    BY <1>6 DEF done, a
  <2> QED BY <1>1, <2>3, <2>4
<1>10. /\ w.counts \in [Classes -> Nat]
       /\ w.counts["healthy"] + w.counts["stale"] + w.counts["offline"]
            = v.counts["healthy"] + v.counts["stale"] + v.counts["offline"] + 1
  <2>1. v.counts \in [Classes -> Nat]
    BY DEF Viewing
  <2>2. /\ w.counts \in [Classes -> Nat]
        /\ \A c \in Classes :
             w.counts[c] = IF c = k THEN v.counts[c] + 1 ELSE v.counts[c]
    BY <1>1, <2>1
  <2>3. \A c \in Classes : v.counts[c] \in Nat
    BY <2>1
  <2>4. /\ "healthy" \in Classes /\ "stale" \in Classes /\ "offline" \in Classes
        /\ k = "healthy" \/ k = "stale" \/ k = "offline"
    BY DEF Classes
  <2> HIDE DEF w
  <2> QED BY <2>2, <2>3, <2>4
<1>11. ASSUME NEW j \in 1 .. Len(w.todo) PROVE w.todo[j] = list[w.total - Len(w.todo) + j]
  <2>1. w.todo[j] = v.todo[j + 1] /\ j + 1 \in 1 .. Len(v.todo)
    BY <1>1, <1>2, <1>3
  <2>2. v.todo[j + 1] = list[v.total - Len(v.todo) + (j + 1)]
    BY <2>1 DEF Viewing
  <2>3. w.total = v.total /\ Len(w.todo) = Len(v.todo) - 1 /\ v.total \in Nat
    BY <1>1, <1>2, <1>3
  <2>5. Len(v.todo) \in Nat /\ j \in Nat
    BY <1>1, <1>2, <1>3
  <2> DEFINE p == w.total
             l == Len(w.todo)
             i == v.total - Len(v.todo)
  <2>6. p - l = i + 1 /\ p \in Int /\ l \in Int /\ i \in Int
    BY <1>4, <2>3, <2>5
  <2> HIDE DEF p, l, i
  <2>7. p - l + j = i + (j + 1)
    BY <2>5, <2>6
  <2> QED BY <2>1, <2>2, <2>7 DEF p, l, i
<1>12. w.total = Len(w.todo) + w.counts["healthy"] + w.counts["stale"] + w.counts["offline"]
  <2>1. /\ v.total = Len(v.todo) + v.counts["healthy"] + v.counts["stale"] + v.counts["offline"]
        /\ v.counts \in [Classes -> Nat]
    BY DEF Viewing
  <2>2. /\ v.counts["healthy"] \in Nat /\ v.counts["stale"] \in Nat
        /\ v.counts["offline"] \in Nat /\ w.counts["healthy"] \in Nat
        /\ w.counts["stale"] \in Nat /\ w.counts["offline"] \in Nat
    BY <1>10, <2>1 DEF Classes
  <2>3. w.total = v.total /\ Len(w.todo) = Len(v.todo) - 1
    BY <1>1, <1>3
  <2>5. Len(v.todo) \in Nat /\ v.total \in Nat
    BY <1>2
  <2> DEFINE h0 == v.counts["healthy"]
             s0 == v.counts["stale"]
             o0 == v.counts["offline"]
             h1 == w.counts["healthy"]
             s1 == w.counts["stale"]
             o1 == w.counts["offline"]
             t == v.total
             l == Len(v.todo)
  <2>6. /\ h0 \in Nat /\ s0 \in Nat /\ o0 \in Nat
        /\ h1 \in Nat /\ s1 \in Nat /\ o1 \in Nat
        /\ t \in Nat /\ l \in Nat
    BY <2>2, <2>5
  <2>7. t = l + h0 + s0 + o0
    BY <2>1
  <2>8. h1 + s1 + o1 = h0 + s0 + o0 + 1
    BY <1>10
  <2>9. w.total = t /\ Len(w.todo) = l - 1
    BY <2>3
  <2> HIDE DEF h0, s0, o0, h1, s1, o1, t, l
  <2>10. t = (l - 1) + h1 + s1 + o1
    BY <2>6, <2>7, <2>8
  <2> QED BY <2>9, <2>10 DEF h1, s1, o1
<1>13. Viewing(w, h, list)
  <2>1. w.todo \in Seq(Agents) /\ w.total \in 0 .. Len(list) /\ Len(w.todo) <= w.total
    BY <1>1, <1>2, <1>3
  <2>2. Plausible(w.counts, Listed(list, w.total - Len(w.todo)), h)
    BY <1>4, <1>9
  <2> QED BY <1>1, <1>10, <1>11, <1>12, <2>1, <2>2 DEF Viewing
<1> QED BY <1>13 DEF w

(* The list only grows at its end.                                         *)
LEMMA ListGrows ==
    ASSUME FleetInv, TableStep
    PROVE  /\ agents \in Seq(Agents) /\ agents' \in Seq(Agents)
           /\ Len(agents) <= Len(agents')
           /\ \A k \in 1 .. Len(agents) : agents'[k] = agents[k]
<1>1. agents \in Seq(Agents)
  BY DEF FleetInv, TableInv, FleetTypeOK
<1>2. CASE agents' = agents
  BY <1>1, <1>2
<1>3. ASSUME NEW a \in Agents, agents' = Append(agents, a)
      PROVE  /\ agents' \in Seq(Agents) /\ Len(agents) <= Len(agents')
             /\ \A k \in 1 .. Len(agents) : agents'[k] = agents[k]
  BY <1>1, <1>3
<1> QED BY <1>1, <1>2, <1>3 DEF TableStep, Rests, Grows, Ticks, Purges, Stores, Upsert

(* What an overview knows stays true, while the newest times are noted.    *)
LEMMA OverviewGoesOn ==
    ASSUME FleetInv, TableStep, UNCHANGED thresholds, now \in Nat,
           NEW place, NEW v, NEW s, NEW g \in Sightings(now'),
           Overview(place, v, s, agents, telemetry, now, thresholds),
           \A a \in Agents : s[a] \subseteq g[a],
           place \in Counting =>
               \A a \in Agents : \E f \in g[a] : f.latest = Newest(telemetry'[a]),
           NEW next, next = place \/ (next \notin Counting /\ place \notin Counting)
    PROVE  Overview(next, v, g, agents', telemetry', now', thresholds')
<1>1. CASE place \notin Counting
  <2>1. "classify" \in Counting
    BY DEF Counting
  <2> QED BY <1>1, <2>1 DEF Overview
<1>2. CASE place \in Counting
  <2>1. Viewing(v, Given(s, now, thresholds), agents) /\ s \in Sightings(now)
    BY <1>2 DEF Overview
  <2>2. now' \in Nat /\ now <= now'
    BY DEF TableStep, Rests, Grows, Ticks, Purges, Stores
  <2>3. \A a \in Agents :
            Given(s, now, thresholds)[a] \subseteq Given(g, now', thresholds)[a]
    BY <2>1, <2>2, GivenGrows
  <2>4. Viewing(v, Given(g, now', thresholds), agents')
    BY <2>1, <2>3, ListGrows, ViewingStill
  <2>5. place = "classify" => v.todo # <<>> /\ \E f \in g[Head(v.todo)] : f.latest = v.latest
    <3> SUFFICES ASSUME place = "classify"
                 PROVE  v.todo # <<>> /\ \E f \in g[Head(v.todo)] : f.latest = v.latest
      OBVIOUS
    <3>1. v.todo # <<>> /\ \E f \in s[Head(v.todo)] : f.latest = v.latest
      BY DEF Overview
    <3>2. v.todo \in Seq(Agents)
      BY <2>1 DEF Viewing
    <3>3. Head(v.todo) \in Agents
      BY <3>1, <3>2
    <3> QED BY <3>1, <3>3
  <2> QED BY <1>2, <2>4, <2>5 DEF Overview
<1> QED BY <1>1, <1>2

SameLoops ==
    \A s \in Slots : \/ conn'[s].pc = conn[s].pc
                    \/ (conn'[s].pc \notin Counting /\ conn[s].pc \notin Counting)

(* Other handlers leave the overviews under way alone.                     *)
LEMMA LoopsStay ==
    ASSUME RequestInv, [Next]_vars,
           ~ \E r \in Slots : ListAgents(r) \/ QueryAgent(r) \/ CountAgent(r)
                               \/ ShowOverview(r)
    PROVE  SameLoops
<1>1. conn = [s \in Slots |-> conn[s]] /\ \A s \in Slots : DOMAIN conn[s] = RequestFields
  BY DEF RequestInv, ConnShape
<1>2. ASSUME NEW r \in Slots, NEW q, conn' = [conn EXCEPT ![r] = q],
             q.pc \notin Counting, conn[r].pc \notin Counting
      PROVE  SameLoops
  BY <1>1, <1>2 DEF SameLoops
<1>3. ASSUME NEW r \in Slots, NEW code, Reply(r, code), conn[r].pc \notin Counting PROVE SameLoops
  <2> DEFINE q == [NoRequest EXCEPT !.answer = code]
  <2>1. q.pc \notin Counting /\ conn' = [conn EXCEPT ![r] = q]
    BY <1>3 DEF NoRequest, Reply, Counting
  <2> HIDE DEF q
  <2> QED BY <1>2, <1>3, <2>1
<1>4. ASSUME NEW r \in Slots, NEW l, Goto(r, l), conn[r].pc \notin Counting, l \notin Counting
      PROVE  SameLoops
  <2> DEFINE q == [conn[r] EXCEPT !.pc = l]
  <2>1. q.pc \notin Counting /\ conn' = [conn EXCEPT ![r] = q]
    BY <1>1, <1>4 DEF RequestFields, Goto
  <2> HIDE DEF q
  <2> QED BY <1>2, <1>4, <2>1
<1>5. ASSUME NEW r \in Slots, NEW given, Let(r, given), conn[r].pc \notin Counting PROVE SameLoops
  <2> DEFINE q == [conn[r] EXCEPT !.pc = "gate", !.role = given]
  <2>1. q.pc \notin Counting /\ conn' = [conn EXCEPT ![r] = q]
    BY <1>1, <1>5 DEF RequestFields, Let, Counting
  <2> HIDE DEF q
  <2> QED BY <1>2, <1>5, <2>1
<1>6. ASSUME NEW r \in Slots, Arrive(r) PROVE SameLoops
  <2>1. PICK kind, t, ip, body : conn' = [conn EXCEPT ![r] = Arrived(kind, t, ip, body)]
    BY <1>6, ArrivesWith
  <2>2. Arrived(kind, t, ip, body).pc = "auth"
    BY DEF Arrived, NoRequest
  <2>3. conn[r].pc \notin Counting
    BY <1>6 DEF Arrive, Free, Counting
  <2> QED BY <1>2, <2>1, <2>2, <2>3 DEF Counting
<1>7. ASSUME NEW r \in Slots, Authenticate(r) PROVE SameLoops
  BY <1>3, <1>5, <1>7 DEF Authenticate, Counting
<1>8. ASSUME NEW r \in Slots, Gate(r) PROVE SameLoops
  BY <1>3, <1>4, <1>8 DEF Gate, Enter, Counting
<1>9. ASSUME NEW r \in Slots, CreateToken(r) \/ DeleteToken(r) \/ Serve(r) \/ Register(r)
                 \/ CheckAgent(r)
      PROVE  SameLoops
  <2>1. conn[r].pc = "handle"
    BY <1>9 DEF CreateToken, DeleteToken, Serve, Register, CheckAgent, Handles
  <2>2. Goto(r, "store") \/ \E code : Reply(r, code)
    BY <1>9 DEF CreateToken, DeleteToken, Serve, Register, CheckAgent
  <2> QED BY <1>3, <1>4, <2>1, <2>2 DEF Counting
<1>10. ASSUME NEW r \in Slots, Store(r) PROVE SameLoops
  BY <1>3, <1>4, <1>10 DEF Store, Counting
<1>11. ASSUME NEW r \in Slots, Announce(r) PROVE SameLoops
  BY <1>3, <1>11 DEF Announce, Counting
<1>12. CASE Tick \/ PurgeTelemetry \/ (\E t \in Tokens : TokenStep(t)) \/ UNCHANGED vars
  BY <1>12 DEF Tick, PurgeTelemetry, TokenStep, vars, SameLoops
<1> QED BY <1>6, <1>7, <1>8, <1>9, <1>10, <1>11, <1>12 DEF Next, Handle

(* Steps that change nothing an overview depends on but the list and the   *)
(* clock.                                                                  *)
LEMMA OverviewUnseen ==
    ASSUME FleetInv, OverviewInv, TableStep, SameLoops, now \in Nat,
           UNCHANGED <<viewVars, telemetry, thresholds>>
    PROVE  OverviewInv'
<1>1. ASSUME NEW s \in Slots
      PROVE  Overview(conn'[s].pc, view'[s], seen'[s], agents', telemetry', now', thresholds')
  <2>1. Overview(conn[s].pc, view[s], seen[s], agents, telemetry, now, thresholds)
    BY DEF OverviewInv
  <2>2. seen[s] \in Sightings(now')
    <3>1. now' \in Nat /\ now <= now' /\ 0 .. now \subseteq 0 .. now'
      BY DEF TableStep, Rests, Grows, Ticks, Purges, Stores
    <3> QED BY <2>1, <3>1 DEF Overview, Sightings
  <2>3. conn[s].pc \in Counting =>
            \A a \in Agents : \E f \in seen[s][a] : f.latest = Newest(telemetry'[a])
    BY <2>1 DEF Overview
  <2>4. \/ conn'[s].pc = conn[s].pc
        \/ (conn'[s].pc \notin Counting /\ conn[s].pc \notin Counting)
    BY DEF SameLoops
  <2>5. Overview(conn'[s].pc, view[s], seen[s], agents', telemetry', now', thresholds')
    BY <2>1, <2>2, <2>3, <2>4, OverviewGoesOn
  <2> QED BY <2>5 DEF viewVars
<1> QED BY <1>1 DEF OverviewInv, viewVars

(* Steps that note the newest times they leave.                            *)
LEMMA OverviewNotes ==
    ASSUME FleetInv, OverviewInv, TableStep, SameLoops, Noted, now \in Nat, now' = now,
           UNCHANGED <<view, thresholds>>
    PROVE  OverviewInv'
<1>1. ASSUME NEW s \in Slots
      PROVE  Overview(conn'[s].pc, view'[s], seen'[s], agents', telemetry', now', thresholds')
  <2>1. Overview(conn[s].pc, view[s], seen[s], agents, telemetry, now, thresholds)
    BY DEF OverviewInv
  <2> DEFINE g == seen'[s]
             m(a) == Newest(telemetry'[a])
             found(a) == Finds(m(a), now)
  <2>2. \A a \in Agents : found(a) \in [latest : Nat \cup {None}, at : 0 .. now]
                          /\ found(a).latest = m(a)
    <3> SUFFICES ASSUME NEW a \in Agents
                 PROVE  /\ found(a) \in [latest : Nat \cup {None}, at : 0 .. now]
                        /\ found(a).latest = m(a)
      OBVIOUS
    <3>1. m(a) \in Nat \cup {None}
      <4>1. telemetry'[a] \in Seq(Rows)
        BY RowsKeep
      <4> QED BY <4>1, NewestIs DEF Newest
    <3> QED BY <3>1 DEF Finds
  <2>3. /\ g = [a \in Agents |-> g[a]]
        /\ \A a \in Agents :
             g[a] = IF conn[s].pc \in Counting /\ \A f \in seen[s][a] : f.latest # m(a)
                    THEN seen[s][a] \cup {found(a)} ELSE seen[s][a]
    BY HealthWillBe DEF Noted
  <2>4. seen[s] \in Sightings(now)
    BY <2>1 DEF Overview
  <2> HIDE DEF g, m, found
  <2>5. g \in Sightings(now') /\ \A a \in Agents : seen[s][a] \subseteq g[a]
    BY <2>2, <2>3, <2>4 DEF Sightings
  <2>6. conn[s].pc \in Counting => \A a \in Agents : \E f \in g[a] : f.latest = m(a)
    BY <2>2, <2>3
  <2>7. \/ conn'[s].pc = conn[s].pc
        \/ (conn'[s].pc \notin Counting /\ conn[s].pc \notin Counting)
    BY DEF SameLoops
  <2>8. Overview(conn'[s].pc, view[s], g, agents', telemetry', now', thresholds')
    BY <2>1, <2>5, <2>6, <2>7, OverviewGoesOn DEF m
  <2> QED BY <2>8 DEF g
<1>2. view' = [s \in Slots |-> view'[s]] /\ seen' = [s \in Slots |-> seen'[s]]
  BY DEF OverviewInv, Noted
<1> QED BY <1>1, <1>2 DEF OverviewInv

(* A step of one request that leaves the tables alone.                     *)
LEMMA OverviewOf ==
    ASSUME RequestInv, OverviewInv, NEW r \in Slots, NEW q, NEW v, NEW h,
           UNCHANGED <<agents, telemetry, now, thresholds>>,
           conn' = [conn EXCEPT ![r] = q],
           view' = [view EXCEPT ![r] = v], seen' = [seen EXCEPT ![r] = h],
           Overview(q.pc, v, h, agents, telemetry, now, thresholds)
    PROVE  OverviewInv'
<1>1. /\ view = [s \in Slots |-> view[s]] /\ seen = [s \in Slots |-> seen[s]]
      /\ conn = [s \in Slots |-> conn[s]]
  BY DEF OverviewInv, RequestInv, ConnShape
<1>2. ASSUME NEW s \in Slots
      PROVE  Overview(conn'[s].pc, view'[s], seen'[s], agents', telemetry', now', thresholds')
  <2>1. CASE s = r
    <3>1. conn'[s] = q /\ view'[s] = v /\ seen'[s] = h
      BY <1>1, <2>1
    <3> QED BY <3>1
  <2>2. CASE s # r
    <3>1. conn'[s] = conn[s] /\ view'[s] = view[s] /\ seen'[s] = seen[s]
      BY <1>1, <2>2
    <3> QED BY <3>1 DEF OverviewInv
  <2> QED BY <2>1, <2>2
<1>3. view' = [s \in Slots |-> view'[s]] /\ seen' = [s \in Slots |-> seen'[s]]
  BY <1>1
<1> QED BY <1>2, <1>3 DEF OverviewInv

(* An overview that was answered, or failed, is forgotten.                 *)
LEMMA OverviewForgotten ==
    ASSUME RequestInv, OverviewInv, NEW r \in Slots, NEW code, Reply(r, code), Forget(r),
           UNCHANGED <<agents, telemetry, now, thresholds>>
    PROVE  OverviewInv'
<1> DEFINE q == [NoRequest EXCEPT !.answer = code]
<1>1. q.pc = "idle" /\ conn' = [conn EXCEPT ![r] = q]
  BY DEF NoRequest, Reply
<1> HIDE DEF q
<1>2. Overview(q.pc, NoView, NothingSeen, agents, telemetry, now, thresholds)
  BY <1>1 DEF Overview, NothingSeen, Sightings, Counting
<1> QED BY <1>1, <1>2, OverviewOf DEF Forget

(* Listing the agents starts an overview.                                  *)
LEMMA OverviewStarts ==
    ASSUME RequestInv, FleetInv, OverviewInv, now \in Nat, NEW r \in Slots, Goto(r, "loop"),
           UNCHANGED <<agents, telemetry, now, thresholds>>,
           view' = [view EXCEPT ![r] = [NoView EXCEPT !.todo = agents, !.total = Len(agents)]],
           seen' = [seen EXCEPT ![r] = [a \in Agents |-> {Finds(GetLatest(a), now)}]]
    PROVE  OverviewInv'
<1> DEFINE q == [conn[r] EXCEPT !.pc = "loop"]
           v == [NoView EXCEPT !.todo = agents, !.total = Len(agents)]
           s == [a \in Agents |-> {Finds(GetLatest(a), now)}]
<1>1. q.pc = "loop" /\ conn' = [conn EXCEPT ![r] = q]
  BY DEF Goto, RequestInv, ConnShape, RequestFields
<1>2. s \in Sightings(now) /\ \A a \in Agents : \E f \in s[a] : f.latest = Newest(telemetry[a])
  <2>1. ASSUME NEW a \in Agents
        PROVE  /\ Finds(GetLatest(a), now) \in [latest : Nat \cup {None}, at : 0 .. now]
               /\ Finds(GetLatest(a), now).latest = Newest(telemetry[a])
    <3>1. GetLatest(a) = Newest(telemetry[a]) /\ telemetry[a] \in Seq(Rows)
      BY HealthIs DEF FleetInv, TableInv, FleetTypeOK
    <3>2. Newest(telemetry[a]) \in Nat \cup {None}
      BY <3>1, NewestIs
    <3> QED BY <3>1, <3>2 DEF Finds
  <2> QED BY <2>1 DEF Sightings
<1>3. Viewing(v, Given(s, now, thresholds), agents)
  BY ViewingStarts DEF FleetInv, TableInv, FleetTypeOK
<1> HIDE DEF q, v, s
<1>4. Overview(q.pc, v, s, agents, telemetry, now, thresholds)
  BY <1>1, <1>2, <1>3 DEF Overview, Counting
<1>5. view' = [view EXCEPT ![r] = v] /\ seen' = [seen EXCEPT ![r] = s]
  BY DEF v, s
<1> QED BY <1>1, <1>4, <1>5, OverviewOf

(* A query finds the newest time there is.                                 *)
LEMMA OverviewQueries ==
    ASSUME RequestInv, FleetInv, OverviewInv, NEW r \in Slots,
           conn[r].pc = "loop", view[r].todo # <<>>,
           Found(r, GetLatest(Head(view[r].todo))),
           UNCHANGED <<agents, telemetry, now, thresholds>>
    PROVE  OverviewInv'
<1> DEFINE a == Head(view[r].todo)
           v == [view[r] EXCEPT !.latest = GetLatest(a)]
           q == [conn[r] EXCEPT !.pc = "classify"]
           h == Given(seen[r], now, thresholds)
<1>1. /\ Overview(conn[r].pc, view[r], seen[r], agents, telemetry, now, thresholds)
      /\ view = [s \in Slots |-> view[s]] /\ seen = [s \in Slots |-> seen[s]]
      /\ conn = [s \in Slots |-> conn[s]] /\ DOMAIN conn[r] = RequestFields
  BY DEF OverviewInv, RequestInv, ConnShape
<1>2. /\ Viewing(view[r], h, agents) /\ seen[r] \in Sightings(now)
      /\ \A b \in Agents : \E f \in seen[r][b] : f.latest = Newest(telemetry[b])
  BY <1>1 DEF Overview, Counting
<1>3. a \in Agents
  <2>1. view[r].todo \in Seq(Agents)
    BY <1>2 DEF Viewing
  <2> QED BY <2>1
<1>4. GetLatest(a) = Newest(telemetry[a])
  BY <1>3, HealthIs
<1>5. Viewing(v, h, agents) /\ v.todo = view[r].todo /\ v.latest = GetLatest(a)
  <2> HIDE DEF a, h
  <2> QED BY <1>2, ViewingFinds
<1>6. \E f \in seen[r][Head(v.todo)] : f.latest = v.latest
  BY <1>2, <1>3, <1>4, <1>5
<1>7. q.pc = "classify" /\ conn' = [conn EXCEPT ![r] = q]
  BY <1>1 DEF Found, Goto, RequestFields
<1>8. view' = [view EXCEPT ![r] = v] /\ seen' = [seen EXCEPT ![r] = seen[r]]
  BY <1>1 DEF Found
<1> HIDE DEF v, q, a
<1>9. Overview(q.pc, v, seen[r], agents, telemetry, now, thresholds)
  BY <1>2, <1>5, <1>6, <1>7 DEF Overview, Counting
<1> QED BY <1>7, <1>8, <1>9, OverviewOf

(* Counting an agent goes on with it, by what was found and the clock now. *)
LEMMA OverviewCounts ==
    ASSUME RequestInv, FleetInv, OverviewInv, now \in Nat, NEW r \in Slots, CountAgent(r),
           UNCHANGED <<agents, telemetry, now, thresholds>>
    PROVE  OverviewInv'
<1> DEFINE a == Head(view[r].todo)
           k == Health(view[r].latest, now)
           v == [view[r] EXCEPT !.todo = Tail(@), !.latest = None, !.counts[k] = @ + 1]
           q == [conn[r] EXCEPT !.pc = "loop"]
           h == Given(seen[r], now, thresholds)
<1>1. /\ Overview(conn[r].pc, view[r], seen[r], agents, telemetry, now, thresholds)
      /\ view = [s \in Slots |-> view[s]] /\ seen = [s \in Slots |-> seen[s]]
      /\ conn = [s \in Slots |-> conn[s]] /\ DOMAIN conn[r] = RequestFields
  BY DEF OverviewInv, RequestInv, ConnShape
<1>2. /\ Viewing(view[r], h, agents) /\ seen[r] \in Sightings(now)
      /\ \A b \in Agents : \E f \in seen[r][b] : f.latest = Newest(telemetry[b])
      /\ view[r].todo # <<>> /\ \E f \in seen[r][a] : f.latest = view[r].latest
  BY <1>1 DEF Overview, Counting, CountAgent
<1>3. a \in Agents
  <2>1. view[r].todo \in Seq(Agents)
    BY <1>2 DEF Viewing
  <2> QED BY <1>2, <2>1
<1>4. k \in Classes /\ k \in h[a] /\ h \in [Agents -> SUBSET Classes]
  <2>1. PICK f \in seen[r][a] : f.latest = view[r].latest
    BY <1>2
  <2>2. f \in [latest : Nat \cup {None}, at : 0 .. now]
    BY <1>2, <1>3 DEF Sightings
  <2>3. now \in f.at .. now
    BY <2>2
  <2>4. k = ClassOf(f.latest, now, thresholds)
    BY <2>1 DEF Health, Classify, ClassOf
  <2> HIDE DEF k, a
  <2>5. k \in Classes
    BY <2>4 DEF ClassOf, Classes
  <2> QED BY <1>3, <2>1, <2>3, <2>4, <2>5 DEF Given
<1>5. view' = [view EXCEPT ![r] = v]
  BY <1>1 DEF CountAgent
<1>6. agents \in Seq(Agents) /\ IsInjective(agents)
  BY DEF FleetInv, TableInv, FleetTypeOK
<1>7. Viewing(v, h, agents)
  <2> HIDE DEF k, h
  <2> QED BY <1>2, <1>4, <1>6, ViewingCounts
<1>8. q.pc = "loop" /\ conn' = [conn EXCEPT ![r] = q]
  BY <1>1 DEF CountAgent, Goto, RequestFields
<1> HIDE DEF v, q
<1>9. Overview(q.pc, v, seen[r], agents, telemetry, now, thresholds)
  BY <1>2, <1>7, <1>8 DEF Overview, Counting
<1>10. seen' = [seen EXCEPT ![r] = seen[r]]
  BY <1>1 DEF CountAgent
<1> QED BY <1>5, <1>8, <1>9, <1>10, OverviewOf

(* Every step keeps the overviews under way plausible.                     *)
LEMMA OverviewStep ==
    ASSUME RequestInv, LimiterInv, FleetInv, OverviewInv, [Next]_vars
    PROVE  OverviewInv'
<1>1. TableStep /\ UNCHANGED thresholds /\ now \in Nat
  BY FleetStep DEF LimiterInv
<1>2. ASSUME NEW r \in Slots, ListAgents(r) PROVE OverviewInv'
  <2>1. UNCHANGED <<agents, telemetry, now, thresholds>>
    BY <1>2 DEF ListAgents, worldVars, samplesVars
  <2>2. ASSUME NEW code, Reply(r, code), UNCHANGED viewVars PROVE OverviewInv'
    <3> DEFINE q == [NoRequest EXCEPT !.answer = code]
    <3>1. q.pc = "idle" /\ conn' = [conn EXCEPT ![r] = q]
      BY <2>2 DEF NoRequest, Reply
    <3> HIDE DEF q
    <3>2. conn[r].pc \notin Counting
      BY <1>2 DEF ListAgents, Handles, Counting
    <3>3. Overview(q.pc, view[r], seen[r], agents, telemetry, now, thresholds)
      BY <3>1, <3>2 DEF OverviewInv, Overview, Counting
    <3>4. view' = [view EXCEPT ![r] = view[r]] /\ seen' = [seen EXCEPT ![r] = seen[r]]
      BY <2>2 DEF OverviewInv, viewVars
    <3> QED BY <2>1, <3>1, <3>3, <3>4, OverviewOf
  <2> QED BY <1>1, <1>2, <2>1, <2>2, OverviewStarts DEF ListAgents
<1>3. ASSUME NEW r \in Slots, CountAgent(r) PROVE OverviewInv'
  <2>1. UNCHANGED <<agents, telemetry, now, thresholds>>
    BY <1>3 DEF CountAgent, worldVars, samplesVars
  <2> QED BY <1>1, <1>3, <2>1, OverviewCounts
<1>6. ASSUME NEW r \in Slots, QueryAgent(r) PROVE OverviewInv'
  <2>1. UNCHANGED <<agents, telemetry, now, thresholds>>
    BY <1>6 DEF QueryAgent, worldVars, samplesVars
  <2> QED BY <1>6, <2>1, OverviewQueries, OverviewForgotten DEF QueryAgent
<1>4. ASSUME NEW r \in Slots, ShowOverview(r) PROVE OverviewInv'
  <2>1. UNCHANGED <<agents, telemetry, now, thresholds>>
    BY <1>4 DEF ShowOverview, worldVars, samplesVars
  <2> QED BY <1>4, <2>1, OverviewForgotten DEF ShowOverview
<1>5. CASE ~ \E r \in Slots : ListAgents(r) \/ QueryAgent(r) \/ CountAgent(r)
                              \/ ShowOverview(r)
  <2>1. SameLoops
    BY <1>5, LoopsStay
  <2>2. ASSUME NEW r \in Slots, Store(r) PROVE OverviewInv'
    <3>1. Noted /\ UNCHANGED view /\ now' = now
      BY <2>2 DEF Store, worldVars
    <3> QED BY <1>1, <2>1, <3>1, OverviewNotes
  <2>3. CASE PurgeTelemetry
    <3>1. Noted /\ UNCHANGED view /\ now' = now
      BY <2>3 DEF PurgeTelemetry, worldVars
    <3> QED BY <1>1, <2>1, <3>1, OverviewNotes
  <2>4. ASSUME NEW r \in Slots, Arrive(r) \/ Authenticate(r) \/ Gate(r) \/ CreateToken(r)
               \/ DeleteToken(r) \/ Serve(r) \/ Register(r) \/ CheckAgent(r) \/ Announce(r)
        PROVE  OverviewInv'
    <3>1. UNCHANGED <<viewVars, telemetry>>
      BY <2>4 DEF Arrive, Authenticate, Gate, CreateToken, DeleteToken, Serve, Register,
         CheckAgent, Announce, samplesVars
    <3> QED BY <1>1, <2>1, <3>1, OverviewUnseen
  <2>5. CASE Tick \/ (\E t \in Tokens : TokenStep(t)) \/ UNCHANGED vars
    <3>1. UNCHANGED <<viewVars, telemetry>>
      BY <2>5 DEF Tick, TokenStep, vars, fleetVars, samplesVars, viewVars
    <3> QED BY <1>1, <2>1, <3>1, OverviewUnseen
  <2> QED BY <1>5, <2>2, <2>3, <2>4, <2>5 DEF Next, Handle
<1> QED BY <1>2, <1>3, <1>4, <1>5, <1>6

(* At the start no overview is under way.                                  *)
LEMMA OverviewInit == Init => OverviewInv
<1> SUFFICES ASSUME Init PROVE OverviewInv
  OBVIOUS
<1>1. /\ view = [r \in Slots |-> NoView] /\ seen = [r \in Slots |-> NothingSeen]
      /\ conn = [r \in Slots |-> NoRequest] /\ NoRequest.pc = "idle"
  BY DEF Init, NoRequest
<1>2. NothingSeen \in Sightings(now)
  BY DEF NothingSeen, Sightings
<1>3. \A r \in Slots :
        Overview(conn[r].pc, view[r], seen[r], agents, telemetry, now, thresholds)
  BY <1>1, <1>2 DEF Overview, Counting
<1> QED BY <1>1, <1>3 DEF OverviewInv

(* The overviews under way are always plausible.                           *)
LEMMA OverviewInvariant == Spec => []OverviewInv
BY OverviewInit, OverviewStep, RequestInvariant, LimiterInvariant, FleetInvariant, PTL DEF Spec

(* An overview counts every agent it listed once, by a time of its newest  *)
(* sample that a query could find meanwhile and by a clock since then.     *)
THEOREM OverviewsArePlausible == Spec => []OverviewIsPlausible
<1>1. FleetInv /\ OverviewInv => OverviewIsPlausible
  <2> SUFFICES ASSUME FleetInv, OverviewInv, NEW r \in Slots, conn[r].pc = "loop", view[r].todo = <<>>
               PROVE  \E class \in [ToSet(SubSeq(agents, 1, view[r].total)) -> Classes] :
                        /\ \A a \in DOMAIN class : \E f \in seen[r][a] :
                            \E t \in f.at .. now : class[a] = Health(f.latest, t)
                        /\ \A c \in Classes :
                            view[r].counts[c] = Cardinality({a \in DOMAIN class : class[a] = c})
    BY DEF OverviewIsPlausible
  <2> DEFINE n == view[r].total
             done == ToSet(SubSeq(agents, 1, n))
  <2> DEFINE h == Given(seen[r], now, thresholds)
  <2>1. Viewing(view[r], h, agents)
    BY DEF OverviewInv, Overview, Counting
  <2>2. Len(view[r].todo) = 0 /\ n \in 0 .. Len(agents)
    BY <2>1 DEF Viewing
  <2>3. n - Len(view[r].todo) = n
    BY <2>2
  <2>4. Plausible(view[r].counts, Listed(agents, n), h)
    BY <2>1, <2>3 DEF Viewing
  <2>5. Listed(agents, n) = done
    <3>1. DOMAIN SubSeq(agents, 1, n) = 1 .. n
          /\ \A k \in 1 .. n : SubSeq(agents, 1, n)[k] = agents[k]
      BY <2>2
    <3> QED BY <3>1 DEF Listed, ToSet
  <2>6. \A l, t : Health(l, t) = ClassOf(l, t, thresholds)
    BY DEF Health, Classify, ClassOf
  <2>7. done \subseteq Agents
    <3>1. agents \in Seq(Agents)
      BY DEF FleetInv, TableInv, FleetTypeOK
    <3> QED BY <2>2, <2>5, <3>1 DEF Listed
  <2>8. \A a \in done : \A c \in h[a] :
            \E f \in seen[r][a] : \E t \in f.at .. now : c = Health(f.latest, t)
    BY <2>6, <2>7 DEF Given
  <2> HIDE DEF done, n, h
  <2>9. PICK class \in [done -> Classes] :
            /\ \A a \in done : class[a] \in h[a]
            /\ \A c \in Classes : view[r].counts[c] = Cardinality({a \in done : class[a] = c})
    BY <2>4, <2>5 DEF Plausible
  <2>10. DOMAIN class = done
    OBVIOUS
  <2>11. \A a \in done : \E f \in seen[r][a] :
            \E t \in f.at .. now : class[a] = Health(f.latest, t)
    BY <2>8, <2>9
  <2> QED BY <2>9, <2>10, <2>11 DEF done, n
<1> QED BY <1>1, FleetInvariant, OverviewInvariant, PTL

(* Types.                                                                  *)
THEOREM RequestTypes == Spec => []TypeOK
<1>1. RequestInv /\ LimiterInv /\ FleetInv /\ OverviewInv => TypeOK
  <2> SUFFICES ASSUME RequestInv, LimiterInv, FleetInv, OverviewInv PROVE TypeOK
    OBVIOUS
  <2>1. now \in Nat /\ left \in Nat /\ FleetTypeOK
    BY DEF LimiterInv, FleetInv, TableInv
  <2>2. LimiterTypeOK
    BY DEF LimiterInv, Tallies, LimiterTypeOK
  <2>3. TokensTypeOK
    BY DEF RequestInv, ConnShape, TokensTypeOK
  <2>4. ASSUME NEW r \in Slots
        PROVE  view[r].total = Len(view[r].todo) + view[r].counts["healthy"]
                    + view[r].counts["stale"] + view[r].counts["offline"]
    <3>1. Overview(conn[r].pc, view[r], seen[r], agents, telemetry, now, thresholds)
      BY DEF OverviewInv
    <3>2. CASE conn[r].pc \notin Counting
      <4>1. /\ NoView.total = 0 /\ NoView.todo = <<>>
            /\ NoView.counts["healthy"] = 0 /\ NoView.counts["stale"] = 0
            /\ NoView.counts["offline"] = 0
        BY DEF NoView, Classes
      <4>2. view[r] = NoView
        BY <3>1, <3>2 DEF Overview
      <4> QED BY <4>1, <4>2
    <3>3. CASE conn[r].pc \in Counting
      BY <3>1, <3>3 DEF Overview, Viewing
    <3> QED BY <3>2, <3>3
  <2>5. ConnTypeOK
    <3>1. ASSUME NEW r \in Slots
          PROVE  conn[r].token \in Tokens \cup {NoToken}
      <4>1. conn[r].token \in issued \cup {NoToken} /\ issued \subseteq Tokens
        BY DEF RequestInv, Known, ConnShape
      <4> QED BY <4>1
    <3> QED BY <2>4, <3>1 DEF ConnTypeOK, RequestInv, Known, Places, Codes
  <2>6. seen \in [Slots -> [Agents -> SUBSET [latest : Nat \cup {None}, at : 0 .. now]]]
    BY DEF OverviewInv, Overview, Sightings
  <2> QED BY <2>1, <2>2, <2>3, <2>5, <2>6 DEF TypeOK
<1> QED BY <1>1, RequestInvariant, LimiterInvariant, FleetInvariant, OverviewInvariant, PTL

----------------------------------------------------------------------------
(* Charts.  ORDER BY timestamp DESC has a result for any rows, and LIMIT   *)
(* cuts off the oldest of it.                                              *)

(* Of some rows one is the oldest.                                         *)
LEMMA OldestExists ==
    ASSUME NEW rows \in Seq(Rows), rows # <<>>
    PROVE  \E k \in 1 .. Len(rows) : \A m \in 1 .. Len(rows) : rows[k].time <= rows[m].time
<1>1. DOMAIN rows = 1 .. Len(rows) /\ 1 \in DOMAIN rows
  OBVIOUS
<1>2. \A m \in 1 .. Len(rows) : rows[m].time \in Nat
  BY TimesAreNumbers
<1>3. TimesOf(rows) \subseteq Nat /\ TimesOf(rows) # {}
  BY <1>1, <1>2 DEF TimesOf
<1>4. PICK t \in TimesOf(rows) : \A u \in TimesOf(rows) : t <= u
  BY <1>3, LeastExists
<1> QED BY <1>1, <1>4 DEF TimesOf

(* p puts the n rows of s in the order of a chart, newest first.           *)
Orders(p, s, n) ==
    /\ p \in [1 .. n -> 1 .. n]
    /\ \A i, j \in 1 .. n : i # j => p[i] # p[j]
    /\ \A w \in 1 .. n : \E i \in 1 .. n : p[i] = w
    /\ \A i, j \in 1 .. n : i < j => s[p[i]].time >= s[p[j]].time

(* An order of all rows but the oldest, which takes the last place there   *)
(* and leaves its own to the last row.                                     *)
LEMMA OrderOfMore ==
    ASSUME NEW n \in Nat, NEW s \in Seq(Rows), Len(s) = n + 1,
           \A r \in Seq(Rows) : Len(r) = n => \E p : Orders(p, r, n)
    PROVE  \E p : Orders(p, s, n + 1)
<1>1. PICK m \in 1 .. n + 1 : \A k \in 1 .. n + 1 : s[m].time <= s[k].time
  <2>1. s # <<>>
    OBVIOUS
  <2> QED BY <2>1, OldestExists
<1> DEFINE g == [i \in 1 .. n |-> IF i = m THEN n + 1 ELSE i]
           r == [i \in 1 .. n |-> s[g[i]]]
<1>2. /\ \A i \in 1 .. n : g[i] = IF i = m THEN n + 1 ELSE i
      /\ \A i \in 1 .. n : g[i] \in 1 .. n + 1
  OBVIOUS
<1>3. \A k \in 1 .. n + 1 : s[k] \in Rows /\ s[k].time \in Nat
  BY TimesAreNumbers DEF Rows
<1>4. r \in Seq(Rows) /\ Len(r) = n /\ \A i \in 1 .. n : r[i] = s[g[i]]
  BY <1>2, <1>3
<1> HIDE DEF g, r
<1>5. PICK p : Orders(p, r, n)
  BY <1>4
<1> DEFINE q == [i \in 1 .. n + 1 |-> IF i = n + 1 THEN m ELSE g[p[i]]]
<1>6. /\ \A i \in 1 .. n : g[i] # m
      /\ \A i, k \in 1 .. n : i # k => g[i] # g[k]
      /\ \A w \in 1 .. n + 1 : w # m => \E i \in 1 .. n : g[i] = w
  <2>1. ASSUME NEW w \in 1 .. n + 1, w # m PROVE \E i \in 1 .. n : g[i] = w
    <3>1. CASE w = n + 1
      <4>1. m \in 1 .. n
        BY <2>1, <3>1
      <4> QED BY <1>2, <3>1, <4>1
    <3>2. CASE w # n + 1
      <4>1. w \in 1 .. n
        BY <2>1, <3>2
      <4> QED BY <1>2, <2>1, <4>1
    <3> QED BY <3>1, <3>2
  <2>2. \A i \in 1 .. n : g[i] # m
    BY <1>2
  <2>3. \A i, k \in 1 .. n : i # k => g[i] # g[k]
    BY <1>2
  <2> QED BY <2>1, <2>2, <2>3
<1>7. /\ \A i \in 1 .. n : p[i] \in 1 .. n
      /\ \A i, j \in 1 .. n : i # j => p[i] # p[j]
      /\ \A w \in 1 .. n : \E i \in 1 .. n : p[i] = w
      /\ \A i, j \in 1 .. n : i < j => r[p[i]].time >= r[p[j]].time
  BY <1>5 DEF Orders
<1>8. /\ q \in [1 .. n + 1 -> 1 .. n + 1] /\ q[n + 1] = m
      /\ \A i \in 1 .. n : i \in 1 .. n + 1 /\ q[i] = g[p[i]] /\ r[p[i]] = s[q[i]]
  <2>1. n + 1 \in 1 .. n + 1 /\ \A i \in 1 .. n : i \in 1 .. n + 1 /\ i # n + 1
    OBVIOUS
  <2>2. \A i \in 1 .. n : p[i] \in 1 .. n /\ g[p[i]] \in 1 .. n + 1 /\ r[p[i]] = s[g[p[i]]]
    BY <1>2, <1>4, <1>7
  <2>3. \A i \in 1 .. n + 1 : q[i] = IF i = n + 1 THEN m ELSE g[p[i]]
    OBVIOUS
  <2>4. \A i \in 1 .. n + 1 : i # n + 1 => i \in 1 .. n
    OBVIOUS
  <2>5. \A i \in 1 .. n + 1 : (IF i = n + 1 THEN m ELSE g[p[i]]) \in 1 .. n + 1
    BY <2>2, <2>4
  <2>6. q \in [1 .. n + 1 -> 1 .. n + 1]
    BY <2>5
  <2> HIDE DEF q
  <2> QED BY <2>1, <2>2, <2>3, <2>6
<1> HIDE DEF q
<1>9. \A i \in 1 .. n + 1 : i \in 1 .. n \/ i = n + 1
  OBVIOUS
<1>10. \A i, j \in 1 .. n + 1 : i # j => q[i] # q[j]
  <2>1. ASSUME NEW i \in 1 .. n, NEW j \in 1 .. n, i # j PROVE q[i] # q[j]
    <3>1. p[i] \in 1 .. n /\ p[j] \in 1 .. n /\ p[i] # p[j]
      BY <1>7, <2>1
    <3>2. g[p[i]] # g[p[j]]
      BY <1>6, <3>1
    <3> QED BY <1>8, <3>2
  <2>2. ASSUME NEW i \in 1 .. n PROVE q[i] # q[n + 1]
    <3>1. g[p[i]] # m
      BY <1>6, <1>7
    <3> QED BY <1>8, <3>1
  <2> QED BY <1>9, <2>1, <2>2
<1>11. ASSUME NEW w \in 1 .. n + 1 PROVE \E i \in 1 .. n + 1 : q[i] = w
  <2>1. CASE w = m
    <3>1. n + 1 \in 1 .. n + 1
      OBVIOUS
    <3> QED BY <1>8, <2>1, <3>1
  <2>2. CASE w # m
    <3>1. PICK k \in 1 .. n : g[k] = w
      BY <1>6, <2>2
    <3>2. PICK i \in 1 .. n : p[i] = k
      BY <1>7
    <3>3. i \in 1 .. n + 1 /\ q[i] = w
      BY <1>8, <3>1, <3>2
    <3> QED BY <3>3
  <2> QED BY <2>1, <2>2
<1>12. ASSUME NEW i \in 1 .. n + 1, NEW j \in 1 .. n + 1, i < j
       PROVE  s[q[i]].time >= s[q[j]].time
  <2>1. i \in 1 .. n
    BY <1>12
  <2>2. CASE j = n + 1
    <3>1. q[i] \in 1 .. n + 1
      BY <1>8
    <3>2. s[m].time <= s[q[i]].time /\ s[q[i]].time \in Nat /\ s[m].time \in Nat
      BY <1>1, <1>3, <3>1
    <3> QED BY <1>8, <2>2, <3>2
  <2>3. CASE j # n + 1
    <3>1. j \in 1 .. n
      BY <2>3
    <3>2. r[p[i]].time >= r[p[j]].time
      BY <1>7, <1>12, <2>1, <3>1
    <3> QED BY <1>8, <2>1, <3>1, <3>2
  <2> QED BY <2>2, <2>3
<1>13. Orders(q, s, n + 1)
  BY <1>8, <1>10, <1>11, <1>12 DEF Orders
<1> QED BY <1>13

(* Any rows can be ordered from the newest to the oldest.                  *)
LEMMA OrderExists ==
    ASSUME NEW rows \in Seq(Rows)
    PROVE  \E p : Orders(p, rows, Len(rows))
<1> DEFINE Orderable(n) == \A s \in Seq(Rows) : Len(s) = n => \E p : Orders(p, s, n)
           D == {n \in Nat : Orderable(n)}
<1>1. 0 \in D
  <2>1. \A s : Orders([i \in 1 .. 0 |-> i], s, 0)
    BY DEF Orders
  <2> QED BY <2>1
<1>2. ASSUME NEW n \in Nat, n \in D PROVE n + 1 \in D
  <2>1. Orderable(n + 1)
    BY <1>2, OrderOfMore
  <2> HIDE DEF Orderable
  <2> QED BY <2>1
<1>3. Nat \subseteq D
  <2> HIDE DEF D
  <2> QED BY <1>1, <1>2, NaturalsAreReached
<1>4. Len(rows) \in Nat
  OBVIOUS
<1>5. Orderable(Len(rows))
  <2> HIDE DEF Orderable
  <2> QED BY <1>3, <1>4
<1> QED BY <1>5

(* The rows in that order.                                                 *)
LEMMA SortedRows ==
    ASSUME NEW rows \in Seq(Rows)
    PROVE  LET s == NewestFirst(rows) IN
           /\ s \in Seq(Rows) /\ Len(s) = Len(rows)
           /\ \A i, j \in 1 .. Len(rows) : i < j => s[i].time >= s[j].time
           /\ \A k \in 1 .. Len(rows) : \E i \in 1 .. Len(rows) : s[i] = rows[k]
<1> DEFINE n == Len(rows)
           S == 1 .. n
           Fits(p) == \A i, j \in S : i < j => rows[p[i]].time >= rows[p[j]].time
           order == CHOOSE p \in Bijection(S, S) : Fits(p)
<1>1. n \in Nat /\ DOMAIN rows = S
  OBVIOUS
<1>2. \E p \in Bijection(S, S) : Fits(p)
  <2>1. PICK p : Orders(p, rows, n)
    BY OrderExists
  <2>2. p \in Bijection(S, S)
    BY <2>1 DEF Orders, Bijection, Injection, Surjection, IsInjective
  <2>3. Fits(p)
    BY <2>1 DEF Orders
  <2> QED BY <2>2, <2>3
<1>3. order \in Bijection(S, S) /\ Fits(order)
  <2> HIDE DEF Fits
  <2> QED BY <1>2
<1>4. NewestFirst(rows) = [i \in S |-> rows[order[i]]]
  BY <1>1 DEF NewestFirst
<1> HIDE DEF order
<1>5. /\ \A i \in S : order[i] \in S
      /\ \A k \in S : \E i \in S : order[i] = k
  BY <1>3 DEF Bijection, Surjection
<1>6. /\ NewestFirst(rows) \in Seq(Rows) /\ Len(NewestFirst(rows)) = n
      /\ \A i \in S : NewestFirst(rows)[i] = rows[order[i]]
  <2>1. \A i \in S : rows[order[i]] \in Rows
    BY <1>5
  <2> QED BY <1>1, <1>4, <2>1
<1> QED BY <1>3, <1>5, <1>6

(* A chart of any rows, limited to the first so many.                      *)
LEMMA ChartOf ==
    ASSUME NEW rows \in Seq(Rows), NEW limited \in Nat
    PROVE  LET points == Reverse(FirstOf(limited, NewestFirst(rows))) IN
           /\ \A i, j \in DOMAIN points : i < j => points[i].time <= points[j].time
           /\ Len(points) = IF Len(rows) < limited THEN Len(rows) ELSE limited
           /\ \A t \in TimesOf(rows) \ TimesOf(points) : \A u \in TimesOf(points) : t < u
<1> DEFINE s == NewestFirst(rows)
           n == Len(rows)
           m == IF n < limited THEN n ELSE limited
           first == FirstOf(limited, s)
           points == Reverse(first)
<1>1. /\ s \in Seq(Rows) /\ Len(s) = n /\ n \in Nat /\ m \in Nat /\ m <= n
      /\ \A i, j \in 1 .. n : i < j => s[i].time >= s[j].time
      /\ \A k \in 1 .. n : \E i \in 1 .. n : s[i] = rows[k]
  <2>1. /\ s \in Seq(Rows) /\ Len(s) = n
        /\ \A i, j \in 1 .. n : i < j => s[i].time >= s[j].time
        /\ \A k \in 1 .. n : \E i \in 1 .. n : s[i] = rows[k]
    BY SortedRows
  <2>2. n \in Nat
    OBVIOUS
  <2>3. m \in Nat /\ m <= n
    <3> HIDE DEF n
    <3> QED BY <2>2
  <2> HIDE DEF s, m, n
  <2> QED BY <2>1, <2>2, <2>3
<1>2. \A i \in 1 .. n : s[i].time \in Nat
  BY <1>1, TimesAreNumbers
<1> HIDE DEF s
<1>3. first = SubSeq(s, 1, m)
  BY <1>1 DEF FirstOf
<1>4. Len(first) = m /\ \A i \in 1 .. m : first[i] = s[i]
  BY <1>1, <1>3
<1> HIDE DEF first, m
<1>5. points = [i \in 1 .. m |-> first[(m - i) + 1]]
  BY <1>4 DEF Reverse
<1>6. /\ Len(points) = m /\ DOMAIN points = 1 .. m
      /\ \A i \in 1 .. m : /\ (m - i) + 1 \in 1 .. m
                           /\ points[i] = s[(m - i) + 1]
  <2>1. \A i \in 1 .. m : (m - i) + 1 \in 1 .. m
    BY <1>1
  <2>2. DOMAIN points = 1 .. m /\ Len(points) = m
    BY <1>1, <1>5
  <2>3. \A i \in 1 .. m : points[i] = first[(m - i) + 1]
    BY <1>5
  <2> QED BY <1>4, <2>1, <2>2, <2>3
<1> HIDE DEF points
<1>7. ASSUME NEW i \in 1 .. m, NEW j \in 1 .. m, i < j
      PROVE  points[i].time <= points[j].time
  <2> DEFINE b == (m - i) + 1
             c == (m - j) + 1
  <2>1. b \in 1 .. n /\ c \in 1 .. n /\ c < b
    BY <1>1, <1>7
  <2>2. points[i] = s[b] /\ points[j] = s[c]
    BY <1>6
  <2> HIDE DEF b, c
  <2>3. s[c].time >= s[b].time /\ s[b].time \in Nat /\ s[c].time \in Nat
    BY <1>1, <1>2, <2>1
  <2> QED BY <2>2, <2>3
<1>8. ASSUME NEW t \in TimesOf(rows) \ TimesOf(points), NEW u \in TimesOf(points)
      PROVE  t < u
  <2>1. PICK k \in 1 .. n : t = rows[k].time
    BY <1>1 DEF TimesOf
  <2>2. PICK i \in 1 .. n : s[i] = rows[k]
    BY <1>1
  <2>3. PICK j \in 1 .. m : u = points[j].time
    BY <1>6 DEF TimesOf
  <2> DEFINE c == (m - j) + 1
  <2>4. c \in 1 .. m /\ u = s[c].time
    BY <1>6, <2>3
  <2> HIDE DEF c
  <2>5. i \notin 1 .. m
    <3> SUFFICES ASSUME i \in 1 .. m PROVE FALSE
      OBVIOUS
    <3> DEFINE h == (m - i) + 1
    <3>1. h \in 1 .. m /\ (m - h) + 1 = i
      BY <1>1
    <3>2. points[h] = s[i]
      BY <1>6, <3>1
    <3> HIDE DEF h
    <3>3. t \in TimesOf(points)
      BY <1>6, <2>1, <2>2, <3>1, <3>2 DEF TimesOf
    <3> QED BY <1>8, <3>3
  <2>6. c \in 1 .. n /\ c < i
    <3> HIDE DEF n
    <3>1. n \in Nat /\ m \in Nat /\ m <= n
      BY <1>1
    <3>2. i > m
      BY <2>5, <3>1
    <3> QED BY <2>4, <3>1, <3>2
  <2>7. u >= t /\ u \in Nat /\ t \in Nat
    BY <1>1, <1>2, <2>1, <2>2, <2>4, <2>6
  <2>8. u # t
    BY <1>8
  <2> QED BY <2>7, <2>8
<1> QED BY <1>6, <1>7, <1>8 DEF points, first, s, m

(* A chart shows the newest records of its range, in the order of time:    *)
(* for any rows, however late or repeated, any range and limit, and any    *)
(* two readings of the clock.                                              *)
THEOREM ChartsAreNewest == Spec => []ChartShowsNewest
<1>1. FleetInv => ChartShowsNewest
  <2> SUFFICES ASSUME FleetInv, NEW a \in Agents, NEW range \in Ranges,
                      NEW end \in 0 .. now, NEW start \in 0 .. end
               PROVE  LET points == Analytics(a, range, start, end)
                          inside == Between(a, start - range, end)
                          times(s) == {s[k].time : k \in DOMAIN s}
                      IN  /\ \A i, j \in DOMAIN points : i < j => points[i].time <= points[j].time
                          /\ Len(points) = (IF Len(inside) < MaxPoints THEN Len(inside) ELSE MaxPoints)
                          /\ \A t \in times(inside) \ times(points) : \A u \in times(points) : t < u
    BY DEF ChartShowsNewest
  <2> DEFINE inside == Between(a, start - range, end)
             points == Analytics(a, range, start, end)
  <2>1. telemetry[a] \in Seq(Rows)
    BY DEF FleetInv, TableInv, FleetTypeOK
  <2>2. inside \in Seq(Rows)
    BY <2>1, KeptType DEF Between
  <2>3. points = Reverse(FirstOf(MaxPoints, NewestFirst(inside)))
    BY DEF Analytics, GetHistory
  <2>4. MaxPoints \in Nat
    BY FleetAssumption
  <2> HIDE DEF inside, points
  <2>5. /\ \A i, j \in DOMAIN points : i < j => points[i].time <= points[j].time
        /\ Len(points) = IF Len(inside) < MaxPoints THEN Len(inside) ELSE MaxPoints
        /\ \A t \in TimesOf(inside) \ TimesOf(points) : \A u \in TimesOf(points) : t < u
    BY <2>2, <2>3, <2>4, ChartOf
  <2> QED BY <2>5 DEF TimesOf, inside, points
<1> QED BY <1>1, FleetInvariant, PTL
=============================================================================
