----------------------------- MODULE Retention -----------------------------
(***************************************************************************)
(* The retention worker of internal/retention over the table telemetry:    *)
(* at every start and then at every interval it rolls the finished hours   *)
(* up into telemetry_hourly and deletes what is older than the retention,  *)
(* while samples keep arriving.                                            *)
(*                                                                         *)
(* Time advances in slots, SlotsPerHour to the hour; the cutoff of the     *)
(* purge is not aligned to hours because the worker starts at any slot.    *)
(* Timing assumption: a pass of the worker takes less than a slot.  One    *)
(* metric stands for all the columns that are aggregated alike.            *)
(***************************************************************************)
EXTENDS Integers, FiniteSets, FiniteSetsExt

CONSTANTS
    Agents,          \* registered agents
    Values,          \* measured values; at most one sample per agent and slot
    Malformed,       \* a stored metric the rollup cannot cast to a number
    SlotsPerHour,
    RetentionSlots,  \* retentionDays
    IntervalSlots,   \* interval of the worker
    Lateness,        \* how far an agent's timestamp may lag behind
    Faults,          \* the statements that may fail: "rollup", "purge"
    MaxTime,         \* bound: slots
    MaxRestarts,     \* bound: restarts of the server
    None             \* no summary

(* NewWorker takes 30 days for a retention that is not at least a day.     *)
ASSUME TimingAssumption ==
    /\ {SlotsPerHour, IntervalSlots} \subseteq Nat \ {0}
    /\ {RetentionSlots, Lateness, MaxTime, MaxRestarts} \subseteq Nat
    /\ SlotsPerHour <= RetentionSlots /\ SlotsPerHour <= MaxTime
ASSUME ValuesAssumption == Values \ {Malformed} \subseteq Int

VARIABLES
    now,
    telemetry,       \* table telemetry: the raw samples
    hourly,          \* table telemetry_hourly: [agent -> [hour -> summary]]
    phase,           \* what the worker does: idle, rollup, purge; or down
    started, ticked, \* when its ticker started, and whether a tick waits
    stored,          \* history: every sample ever stored
    rolled, purged,  \* history: whether the rollup of this pass, and the last
                     \* purge, succeeded
    restarts

workerVars  == <<phase, started, ticked>>
resultVars  == <<rolled, purged>>
vars == <<now, telemetry, hourly, workerVars, stored, resultVars, restarts>>

Times   == 0 .. MaxTime
Hours   == 0 .. MaxTime \div SlotsPerHour
Hour(t) == t \div SlotsPerHour
Samples == [agent : Agents, time : Times, value : Values]
Summaries == [count : Nat \ {0}, low : Int, high : Int]

ASSUME NoneAssumption == None \notin Summaries

InBucket(samples, a, h) == {s \in samples : s.agent = a /\ Hour(s.time) = h}
Finished(s) == Hour(s.time) < Hour(now)

SummaryOfSwapped(bucket) ==
    LET values == {s.value : s \in bucket}
    IN  [count |-> Cardinality(bucket), low |-> Max(values), high |-> Min(values)]
SummaryOf(bucket) ==
    LET values == {s.value : s \in bucket}
    IN  [count |-> Cardinality(bucket), low |-> Min(values), high |-> Max(values)]

----------------------------------------------------------------------------

(* The samples of one slot stand for the requests that arrive in it; the   *)
(* agent's own timestamp is stored.                                        *)
Store(a, v) ==
    /\ phase # "down"
    /\ \E t \in Times :
         /\ now - Lateness <= t /\ t <= now
         /\ \A s \in stored : s.agent = a => s.time # t
         /\ telemetry' = telemetry \cup {[agent |-> a, time |-> t, value |-> v]}
         /\ stored' = stored \cup {[agent |-> a, time |-> t, value |-> v]}
    /\ UNCHANGED <<now, hourly, workerVars, resultVars, restarts>>

(* ON CONFLICT (agent_id, bucket_start) DO UPDATE                          *)
UpsertedNothing(finished) ==
    [a \in Agents |-> [h \in Hours |->
        LET bucket == InBucket(finished, a, h)
        IN  IF bucket = {} \/ hourly[a][h] # None THEN hourly[a][h]
            ELSE SummaryOf(bucket)]]
Upserted(finished) ==
    [a \in Agents |-> [h \in Hours |->
        LET bucket == InBucket(finished, a, h)
        IN  IF bucket = {} THEN hourly[a][h] ELSE SummaryOf(bucket)]]

(* One row that cannot be cast fails the statement for every agent.        *)
RollupFails ==
    /\ phase = "rollup"
    /\ \/ "rollup" \in Faults
       \/ \E s \in telemetry : Finished(s) /\ s.value = Malformed
    /\ phase' = "purge"
    /\ rolled' = FALSE
    /\ UNCHANGED <<now, telemetry, hourly, started, ticked, stored, purged, restarts>>

Rollup ==
    /\ phase = "rollup"
    /\ LET finished == {s \in telemetry : Finished(s)} IN
         /\ \A s \in finished : s.value # Malformed
         /\ hourly' = Upserted(finished)
    /\ phase' = "purge"
    /\ rolled' = TRUE
    /\ UNCHANGED <<now, telemetry, started, ticked, stored, purged, restarts>>

PurgeFails ==
    /\ phase = "purge"
    /\ "purge" \in Faults
    /\ phase' = "idle"
    /\ purged' = FALSE /\ rolled' = FALSE
    /\ UNCHANGED <<now, telemetry, hourly, started, ticked, stored, restarts>>

ExpiredAtOnce(s) == s.time < now
ExpiredLate(s) == s.time + 1 < now - RetentionSlots
Expired(s) == s.time < now - RetentionSlots

Purge ==
    /\ phase = "purge"
    /\ telemetry' = {s \in telemetry : ~Expired(s)}
    /\ phase' = "idle"
    /\ purged' = TRUE /\ rolled' = FALSE
    /\ UNCHANGED <<now, hourly, started, ticked, stored, restarts>>

NextPass ==
    /\ phase = "idle"
    /\ ticked
    /\ ticked' = FALSE
    /\ phase' = "rollup"
    /\ UNCHANGED <<now, telemetry, hourly, started, stored, resultVars, restarts>>

Tick ==
    /\ phase = "down" \/ (phase = "idle" /\ ~ticked)
    /\ now < MaxTime
    /\ now' = now + 1
    /\ ticked' = (phase = "idle" /\ (now' - started) % IntervalSlots = 0)
    /\ UNCHANGED <<telemetry, hourly, phase, started, stored, resultVars, restarts>>

Crash ==
    /\ phase # "down"
    /\ restarts < MaxRestarts
    /\ restarts' = restarts + 1
    /\ phase' = "down"
    /\ ticked' = FALSE
    /\ rolled' = FALSE /\ purged' = FALSE
    /\ UNCHANGED <<now, telemetry, hourly, started, stored>>

(* Start runs a pass at once.                                              *)
Start ==
    /\ phase = "down"
    /\ phase' = "rollup"
    /\ started' = now
    /\ UNCHANGED <<now, telemetry, hourly, ticked, stored, resultVars, restarts>>

Init ==
    /\ now \in 0 .. SlotsPerHour - 1
    /\ telemetry = {} /\ stored = {}
    /\ hourly = [a \in Agents |-> [h \in Hours |-> None]]
    /\ phase = "down"
    /\ started = now
    /\ ticked = FALSE
    /\ rolled = FALSE /\ purged = FALSE
    /\ restarts = 0

Next ==
    \/ \E a \in Agents, v \in Values : Store(a, v)
    \/ Start \/ Rollup \/ RollupFails \/ Purge \/ PurgeFails \/ NextPass
    \/ Tick \/ Crash

Spec == Init /\ [][Next]_vars

----------------------------------------------------------------------------
(* Properties.                                                             *)

TypeOK ==
    /\ now \in Times /\ started \in Times
    /\ stored \in SUBSET Samples /\ telemetry \in SUBSET stored
    /\ \A a \in Agents, h \in Hours :
            LET s == hourly[a][h] IN s = None \/ (s \in Summaries /\ s.low <= s.high)
    /\ phase \in {"idle", "rollup", "purge", "down"}
    /\ {ticked, rolled, purged} \subseteq BOOLEAN
    /\ restarts \in 0 .. MaxRestarts

(* Unless the rollup before it failed, a purge deletes no sample whose hour*)
(* has no summary: across late samples, crashes between the two statements *)
(* and downtimes longer than the retention.                                *)
PurgedWereSummarised ==
    [][Purge /\ rolled =>
        \A s \in telemetry \ telemetry' : hourly[s.agent][Hour(s.time)] # None]_vars

(* From a purge that succeeded until the next one is due no raw sample is  *)
(* older than the retention and one interval, however long the server was  *)
(* down and whether or not the rollups succeed.                            *)
RetentionEnforced ==
    phase = "idle" /\ ~ticked /\ purged =>
        \A s \in telemetry : now - s.time < RetentionSlots + IntervalSlots

(* Each rollup leaves an exact summary of every finished hour that starts  *)
(* within the retention, late samples included.                            *)
ExactWhileRetained ==
    [][Rollup => \A a \in Agents, h \in Hours :
            LET bucket == InBucket(stored, a, h) IN
            /\ bucket # {}
            /\ h < Hour(now)
            /\ now - RetentionSlots <= h * SlotsPerHour
            => hourly'[a][h] = SummaryOf(bucket)]_vars

(* The summary of an hour never comes to cover fewer samples than it did   *)
(* (README: "hourly rollup summaries").                                    *)
SummariesOnlyGrow ==
    [][\A a \in Agents, h \in Hours :
            hourly[a][h] # None => hourly'[a][h].count >= hourly[a][h].count]_vars
=============================================================================
