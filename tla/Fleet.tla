------------------------------- MODULE Fleet -------------------------------
(***************************************************************************)
(* The tables agents and telemetry with their statements (internal/agent,  *)
(* internal/telemetry), and what internal/observability computes from      *)
(* them.  Requests puts them behind the HTTP handlers.                     *)
(*                                                                         *)
(* Times are ticks, of which a second may have several: ages are cut to    *)
(* seconds before they are compared.  A sample is stamped by the clock of  *)
(* its agent, which may be ahead, and may arrive late.                     *)
(***************************************************************************)
EXTENDS Selection, SequencesExt

CONSTANTS
    Agents,
    Second,          \* ticks
    DefaultHealthy,  \* 30 s
    DefaultStale,    \* 2 min
    Retention,       \* age at which the retention worker purges
    MaxPoints,       \* 500, the records of a chart
    Ranges           \* the ranges of charts

ASSUME FleetAssumption ==
    /\ {Second, DefaultHealthy, DefaultStale, MaxPoints} \subseteq Nat \ {0}
    /\ Retention \in Nat /\ Ranges \subseteq Nat

VARIABLES
    agents,          \* the table agents, ORDER BY created_at
    telemetry,       \* [agent -> its rows of telemetry, by id]
    thresholds       \* Service.healthy and Service.stale

fleetVars == <<agents, telemetry, thresholds>>

None == -1
Rows == [time : Nat, created : Nat]

----------------------------------------------------------------------------
(* config.Load, observability.NewService.  A value of 0 stands for all     *)
(* that loadDuration does not accept.                                      *)

LoadDuration(value, fallback) == IF value <= 0 THEN fallback ELSE value
LoadInt(value, fallback) == IF value < 0 THEN fallback ELSE value

NewService(healthy, stale) ==
    LET h == IF healthy <= 0 THEN DefaultHealthy ELSE healthy
    IN  [healthy |-> h, stale |-> IF stale <= h THEN DefaultStale ELSE stale]

LoadThresholds(healthy, stale) ==
    NewService(LoadDuration(healthy, DefaultHealthy), LoadDuration(stale, DefaultStale))

----------------------------------------------------------------------------
(* The queries.                                                            *)

Times(a) == {telemetry[a][k].time : k \in DOMAIN telemetry[a]}

(* ORDER BY timestamp DESC LIMIT 1                                         *)
GetLatestById(a) ==
    IF telemetry[a] = <<>> THEN None ELSE Last(telemetry[a]).time
GetLatest(a) ==
    IF telemetry[a] = <<>> THEN None
    ELSE CHOOSE t \in Times(a) : \A u \in Times(a) : u <= t

(* The times of the newest limit rows between from and to, newest first;   *)
(* None leaves an end open.                                                *)
Between(a, from, to) ==
    Kept(telemetry[a],
        {r \in Rows : (from = None \/ r.time >= from) /\ (to = None \/ r.time <= to)})
FirstOf(limit, s) == SubSeq(s, 1, IF Len(s) < limit THEN Len(s) ELSE limit)

(* ORDER BY timestamp DESC, which leaves the order of equal ones open.     *)
NewestFirst(s) ==
    LET order == CHOOSE p \in Bijection(DOMAIN s, DOMAIN s) :
                    \A i, j \in DOMAIN s : i < j => s[p[i]].time >= s[p[j]].time
    IN  [i \in DOMAIN s |-> s[order[i]]]

GetHistory(a, limit, from, to) == FirstOf(limit, NewestFirst(Between(a, from, to)))

(* The records of a range, in the order a chart wants them.  The clock is  *)
(* read twice before the query, for the start and for the end.             *)
AnalyticsUnreversed(a, duration, t, u) == GetHistory(a, MaxPoints, t - duration, u)
Analytics(a, duration, t, u) == Reverse(GetHistory(a, MaxPoints, t - duration, u))

----------------------------------------------------------------------------
(* Service.Health.                                                         *)

(* int64(Sub(...).Seconds()), negative ages as 0, back to a duration.      *)
AgeUnsigned(ts, t) == ((IF t < ts THEN ts - t ELSE t - ts) \div Second) * Second
AgeOf(ts, t) == (IF t < ts THEN 0 ELSE (t - ts) \div Second) * Second

ClassifyInclusive(age) ==
    IF age <= thresholds.healthy THEN "healthy"
    ELSE IF age <= thresholds.stale THEN "stale" ELSE "offline"
Classify(age) ==
    IF age <= thresholds.healthy THEN "healthy"
    ELSE IF age < thresholds.stale THEN "stale" ELSE "offline"

(* Of what the query found, latest, by the clock that is read after it.    *)
Health(latest, t) == IF latest = None THEN "offline" ELSE Classify(AgeOf(latest, t))

Classes == {"healthy", "stale", "offline"}
Rank(class) == CASE class = "offline" -> 0 [] class = "stale" -> 1 [] class = "healthy" -> 2

----------------------------------------------------------------------------
(* The statements that change the tables.                                  *)

(* INSERT ... ON CONFLICT (id) DO UPDATE: created_at stays.  What else the *)
(* row holds is only shown, by GET /agents.                                *)
Upsert(a) == agents' = IF Contains(agents, a) THEN agents ELSE Append(agents, a)

Insert(a, ts, t) ==
    telemetry' = [telemetry EXCEPT ![a] = Append(@, [time |-> ts, created |-> t])]

PurgeAtOnce(t) ==
    telemetry' = [a \in Agents |->
        Kept(telemetry[a], {r \in Rows : r.time >= t})]
Purge(t) ==
    telemetry' = [a \in Agents |->
        Kept(telemetry[a], {r \in Rows : r.time >= t - Retention})]

(* The tables when the server starts.                                      *)
FleetTables(registered) ==
    /\ agents = registered
    /\ telemetry = [a \in Agents |-> <<>>]

FleetTypeOK ==
    /\ agents \in Seq(Agents) /\ IsInjective(agents)
    /\ telemetry \in [Agents -> Seq(Rows)]
    /\ \A a \in Agents : telemetry[a] # <<>> => Contains(agents, a)
    /\ thresholds \in [healthy : Nat \ {0}, stale : Nat \ {0}]
=============================================================================
