---------------------------- MODULE AlertEngine ----------------------------
(***************************************************************************)
(* The alert rule engine of internal/alerting, with everything that runs   *)
(* against the same tables: the goroutine every accepted sample starts,    *)
(* the operator's acknowledge request, the rule editor, and the restart of *)
(* the server, which loses memory and re-runs the migrations.              *)
(*                                                                         *)
(* One action is one database statement or one critical section, so every  *)
(* interleaving of the goroutines is a behaviour.  Three abstractions:     *)
(*  - the snapshot of the rules a goroutine loads and its own sample are   *)
(*    both fixed from then on, so the goroutine keeps their "verdicts";    *)
(*  - a time.Time is kept as its age in ticks, saturating at MaxAge, which *)
(*    no rule's duration exceeds;                                          *)
(*  - the rows' texts (name, severity, message, user) are left out.        *)
(***************************************************************************)
EXTENDS Integers, Sequences, FiniteSets, Functions

CONSTANTS
    Rules,           \* ids an alert rule can have
    Agents,          \* registered agents
    AlertIds,        \* identities of alert rows; a bound: past it inserts fail
    Evaluators,      \* slots for EvaluateTelemetry goroutines (a bound)
    Requests,        \* slots for acknowledge requests (a bound)
    Samples,         \* values an agent can measure: [metric -> number]
    RuleConfigs,     \* contents an alert rule row can have
    SeedRules,       \* the default rules of the migration: [rule id -> config]
    Faults,          \* the repository calls whose database statement may fail
    MaxAge,          \* ages saturate here
    MaxEdits,        \* bound: rule creations, updates and deletions
    MaxRestarts,     \* bound: restarts of the server
    None             \* no row, no job

(* The metrics EvaluateTelemetry knows how to find in a sample.            *)
EngineMetrics == {"cpu_usage", "memory_usage", "disk_usage"}

ASSUME SlotsAssumption ==
    /\ IsFiniteSet(Evaluators)
    /\ IsFiniteSet(AlertIds)
    /\ None \notin AlertIds
ASSUME SamplesAssumption ==
    \A s \in Samples : s \in [DOMAIN s -> Int] /\ DOMAIN s \subseteq EngineMetrics
ASSUME RulesAssumption ==
    /\ MaxAge \in Nat
    /\ None \notin RuleConfigs
    /\ \A c \in RuleConfigs :
            /\ DOMAIN c = {"metric", "operator", "threshold", "forDuration", "enabled"}
            /\ c.threshold \in Int
            /\ c.forDuration \in Int
            /\ c.forDuration <= MaxAge
            /\ c.enabled \in BOOLEAN
    /\ SeedRules \in [DOMAIN SeedRules -> RuleConfigs]
ASSUME BoundsAssumption == MaxEdits \in Nat /\ MaxRestarts \in Nat

VARIABLES
    reading,         \* the values each agent's host has now (external)
    rules,           \* table alert_rules: [rule id -> config or None]
    alerts,          \* table alerts: [alert id -> row]
    sustained,       \* Engine.sustained: age of each key, or NotSeen
    pc,              \* where each evaluation goroutine is
    payload,         \* the sample it was started with, until the rules are loaded
    todo,            \* the verdicts it has not processed yet
    job,             \* the verdict it processes
    firstSeen,       \* its local copy of the age of the sustained entry
    held,            \* the alert it resolves or announces
    acking,          \* the acknowledged alert each request still has to publish
    published,       \* hub.Publish calls for each alert, in order
    notified,        \* notifQueue.Enqueue calls for each alert, in order
    edits, restarts  \* bounded counters

evaluatorVars == <<pc, payload, todo, job, firstSeen, held>>
tableVars     == <<rules, alerts>>
boundVars     == <<edits, restarts>>
vars == <<reading, tableVars, sustained, evaluatorVars, acking,
          published, notified, boundVars>>

NotSeen    == -1
Ages       == NotSeen .. MaxAge
Statuses   == {"none", "firing", "acknowledged", "resolved"}
EventTypes == {"firing", "acknowledged", "resolved"}
Row        == [status  : Statuses, acked : BOOLEAN, present : BOOLEAN,
               rule    : Rules \cup {None}, agent : Agents \cup {None}]
Verdict    == [rule : Rules, agent : Agents, triggered : BOOLEAN, forDuration : Int]
Payload    == [agent : Agents, sample : Samples]

Locations  == {"idle", "load", "rules", "duration", "lookup", "create",
               "resolve", "publish", "enqueue"}

----------------------------------------------------------------------------
(* The tables.                                                             *)

NoRow == [status |-> "none", acked |-> FALSE, present |-> FALSE,
          rule |-> None, agent |-> None]
FiringRow(v) == [status |-> "firing", acked |-> FALSE, present |-> TRUE,
                 rule |-> v.rule, agent |-> v.agent]

Active(i) == alerts[i].present /\ alerts[i].status \in {"firing", "acknowledged"}
ActiveFor(r, a) == {i \in AlertIds : Active(i) /\ alerts[i].rule = r
                                               /\ alerts[i].agent = a}
Fresh     == {i \in AlertIds : alerts[i].status = "none"}
LiveRules == {r \in Rules : rules[r] # None}

(* WHERE id = $1 AND status IN ('firing', 'acknowledged')                  *)
ResolvableFiringOnly(i) == alerts[i].present /\ alerts[i].status = "firing"
ResolvableAlways(i)     == alerts[i].present
Resolvable(i) == Active(i)
ResolvedRowClosed(row) == [row EXCEPT !.status = "closed"]
ResolvedRow(row) == [row EXCEPT !.status = "resolved"]

(* WHERE id = $1 AND status = 'firing'                                     *)
AckableAlways(i) == alerts[i].present
Ackable(i) == alerts[i].present /\ alerts[i].status = "firing"
AckedRow(row) == [row EXCEPT !.status = "acknowledged", !.acked = TRUE]

(* The seed of 003_alerts.sql, ON CONFLICT (id) DO NOTHING.                *)
Seeded(table) == [r \in Rules |-> IF table[r] = None /\ r \in DOMAIN SeedRules
                                  THEN SeedRules[r] ELSE table[r]]

----------------------------------------------------------------------------
(* The evaluation of one rule on one sample.                               *)

Compare(value, operator, threshold) ==
    \/ operator = ">"  /\ value > threshold
    \/ operator = ">=" /\ value >= threshold
    \/ operator = "<"  /\ value < threshold
    \/ operator = "<=" /\ value <= threshold
    \/ operator = "==" /\ value = threshold

Evaluated(r, sample) == rules[r].enabled /\ rules[r].metric \in DOMAIN sample
Triggers(r, sample) ==
    Compare(sample[rules[r].metric], rules[r].operator, rules[r].threshold)

Verdicts(listed, p) ==
    {[rule |-> r, agent |-> p.agent, triggered |-> Triggers(r, p.sample),
      forDuration |-> rules[r].forDuration] :
        r \in {r \in listed : Evaluated(r, p.sample)}}

(* The early return of processSustainedAndState.                           *)
TooEarlyStrict(v, age) == v.forDuration > 0 /\ age < v.forDuration - 1
TooEarly(v, age) == v.forDuration > 0 /\ age < v.forDuration

EventOf(v) == IF v.triggered THEN "firing" ELSE "resolved"

(* An interrupted iteration of rows.Next() is not reported, so a fault can *)
(* also hide a part of the rules.                                          *)
Listings == IF "rules" \in Faults THEN SUBSET LiveRules ELSE {LiveRules}

(* LIMIT 1 of an unordered SELECT; any error reads as "no active alert".   *)
LookupResultsFiringOnly(v) ==
    LET firing == {i \in ActiveFor(v.rule, v.agent) : alerts[i].status = "firing"}
    IN  IF firing = {} THEN {None} ELSE firing
LookupResults(v) ==
    (IF ActiveFor(v.rule, v.agent) = {} THEN {None} ELSE ActiveFor(v.rule, v.agent))
        \cup (IF "lookup" \in Faults THEN {None} ELSE {})

----------------------------------------------------------------------------
(* The evaluation goroutine.                                               *)

(* The next turn of the loop over the rules, or the end of the goroutine.  *)
NextRule(e, rest) ==
    /\ pc' = [pc EXCEPT ![e] = IF rest = {} THEN "idle" ELSE "rules"]
    /\ job' = [job EXCEPT ![e] = None]
    /\ held' = [held EXCEPT ![e] = None]

(* A sample of agent a is accepted and stored: persistTelemetry starts a   *)
(* goroutine that the request does not wait for.                           *)
Ingest(e, a) ==
    /\ pc[e] = "idle"
    /\ pc' = [pc EXCEPT ![e] = "load"]
    /\ payload' = [payload EXCEPT ![e] = [agent |-> a, sample |-> reading[a]]]
    /\ UNCHANGED <<reading, tableVars, sustained, todo, job, firstSeen, held,
                   acking, published, notified, boundVars>>

LoadRules(e) ==
    /\ pc[e] = "load"
    /\ \E listed \in Listings :
         LET verdicts == Verdicts(listed, payload[e]) IN
           /\ todo' = [todo EXCEPT ![e] = verdicts]
           /\ pc' = [pc EXCEPT ![e] = IF verdicts = {} THEN "idle" ELSE "rules"]
    /\ payload' = [payload EXCEPT ![e] = None]
    /\ UNCHANGED <<reading, tableVars, sustained, job, firstSeen, held, acking,
                   published, notified, boundVars>>

(* The critical section of processSustainedAndState.  Rules inserted by    *)
(* one migration share created_at, so their order is not determined.       *)
SustainTriggeredAnew(e, v) ==
    /\ v.triggered
    /\ sustained' = [sustained EXCEPT ![v.rule][v.agent] = 0]
    /\ firstSeen' = [firstSeen EXCEPT ![e] = 0]
    /\ pc' = [pc EXCEPT ![e] = "duration"]
SustainTriggered(e, v) ==
    LET since == IF sustained[v.rule][v.agent] = NotSeen
                 THEN 0 ELSE sustained[v.rule][v.agent] IN
    /\ v.triggered
    /\ sustained' = [sustained EXCEPT ![v.rule][v.agent] = since]
    /\ firstSeen' = [firstSeen EXCEPT ![e] = since]
    /\ pc' = [pc EXCEPT ![e] = "duration"]

SustainClear(e, v) ==
    /\ ~v.triggered
    /\ sustained' = [sustained EXCEPT ![v.rule][v.agent] = NotSeen]
    /\ pc' = [pc EXCEPT ![e] = "lookup"]
    /\ UNCHANGED firstSeen

Sustain(e) ==
    /\ pc[e] = "rules"
    /\ \E v \in todo[e] :
         /\ SustainTriggered(e, v) \/ SustainClear(e, v)
         /\ job' = [job EXCEPT ![e] = v]
         /\ todo' = [todo EXCEPT ![e] = @ \ {v}]
    /\ UNCHANGED <<reading, tableVars, payload, held, acking, published,
                   notified, boundVars>>

CheckDuration(e) ==
    /\ pc[e] = "duration"
    /\ firstSeen' = [firstSeen EXCEPT ![e] = NotSeen]
    /\ IF TooEarly(job[e], firstSeen[e])
       THEN NextRule(e, todo[e])
       ELSE pc' = [pc EXCEPT ![e] = "lookup"] /\ UNCHANGED <<job, held>>
    /\ UNCHANGED <<reading, tableVars, sustained, payload, todo, acking,
                   published, notified, boundVars>>

(* GetActiveAlert and the case analysis that follows it.                   *)
Lookup(e) ==
    /\ pc[e] = "lookup"
    /\ \E found \in LookupResults(job[e]) :
         \/ /\ job[e].triggered /\ found = None
            /\ pc' = [pc EXCEPT ![e] = "create"]
            /\ UNCHANGED <<job, held>>
         \/ /\ ~job[e].triggered /\ found # None
            /\ pc' = [pc EXCEPT ![e] = "resolve"]
            /\ held' = [held EXCEPT ![e] = found]
            /\ UNCHANGED job
         \/ /\ job[e].triggered <=> found # None
            /\ NextRule(e, todo[e])
    /\ UNCHANGED <<reading, tableVars, sustained, payload, todo, firstSeen,
                   acking, published, notified, boundVars>>

(* The insert fails: a database error, the rule is gone (foreign key), or  *)
(* the model ran out of identities.                                        *)
CreateFails(e) ==
    /\ pc[e] = "create"
    /\ "create" \in Faults \/ rules[job[e].rule] = None \/ Fresh = {}
    /\ NextRule(e, todo[e])
    /\ UNCHANGED <<reading, tableVars, sustained, payload, todo, firstSeen,
                   acking, published, notified, boundVars>>

(* The insert commits; the goroutine learns it, or sees an error instead   *)
(* (the connection broke after the commit) and gives the alert up.         *)
Create(e) ==
    /\ pc[e] = "create"
    /\ rules[job[e].rule] # None
    /\ \E i \in Fresh :
         /\ alerts' = [alerts EXCEPT ![i] = FiringRow(job[e])]
         /\ \/ /\ pc' = [pc EXCEPT ![e] = "publish"]
               /\ held' = [held EXCEPT ![e] = i]
               /\ UNCHANGED job
            \/ "create" \in Faults /\ NextRule(e, todo[e])
    /\ UNCHANGED <<reading, rules, sustained, payload, todo, firstSeen, acking,
                   published, notified, boundVars>>

ResolveFails(e) ==
    /\ pc[e] = "resolve"
    /\ "resolve" \in Faults \/ ~Resolvable(held[e])
    /\ NextRule(e, todo[e])
    /\ UNCHANGED <<reading, tableVars, sustained, payload, todo, firstSeen,
                   acking, published, notified, boundVars>>

ResolveUnpublished(e) ==
    /\ pc[e] = "resolve"
    /\ Resolvable(held[e])
    /\ alerts' = [alerts EXCEPT ![held[e]] = ResolvedRow(@)]
    /\ pc' = [pc EXCEPT ![e] = "enqueue"]
    /\ UNCHANGED <<reading, rules, sustained, payload, todo, job, firstSeen, held,
                   acking, published, notified, boundVars>>
Resolve(e) ==
    /\ pc[e] = "resolve"
    /\ Resolvable(held[e])
    /\ alerts' = [alerts EXCEPT ![held[e]] = ResolvedRow(@)]
    /\ \/ pc' = [pc EXCEPT ![e] = "publish"] /\ UNCHANGED <<job, held>>
       \/ "resolve" \in Faults /\ NextRule(e, todo[e])
    /\ UNCHANGED <<reading, rules, sustained, payload, todo, firstSeen, acking,
                   published, notified, boundVars>>

Publish(e) ==
    /\ pc[e] = "publish"
    /\ published' = [published EXCEPT ![held[e]] = Append(@, EventOf(job[e]))]
    /\ pc' = [pc EXCEPT ![e] = "enqueue"]
    /\ UNCHANGED <<reading, tableVars, sustained, payload, todo, job, firstSeen,
                   held, acking, notified, boundVars>>

Enqueue(e) ==
    /\ pc[e] = "enqueue"
    /\ notified' = [notified EXCEPT ![held[e]] = Append(@, EventOf(job[e]))]
    /\ NextRule(e, todo[e])
    /\ UNCHANGED <<reading, tableVars, sustained, payload, todo, firstSeen,
                   acking, published, boundVars>>

----------------------------------------------------------------------------
(* The operator: POST /alerts/{id}/acknowledge and the rule editor.        *)

(* An update that matches no row, or fails, changes nothing: a stutter.    *)
Acknowledge(h, i) ==
    /\ acking[h] = None
    /\ Ackable(i)
    /\ alerts' = [alerts EXCEPT ![i] = AckedRow(@)]
    /\ \/ acking' = [acking EXCEPT ![h] = i]
       \/ "ack" \in Faults /\ UNCHANGED acking
    /\ UNCHANGED <<reading, rules, sustained, evaluatorVars, published, notified,
                   boundVars>>

AckPublish(h) ==
    /\ acking[h] # None
    /\ published' = [published EXCEPT ![acking[h]] = Append(@, "acknowledged")]
    /\ acking' = [acking EXCEPT ![h] = None]
    /\ UNCHANGED <<reading, tableVars, sustained, evaluatorVars, notified, boundVars>>

EditRule(r, c) ==
    /\ edits < MaxEdits
    /\ edits' = edits + 1
    /\ rules' = [rules EXCEPT ![r] = c]
    /\ UNCHANGED <<reading, sustained, evaluatorVars, acking, published, notified,
                   restarts>>

CreateRule(r, c) == rules[r] = None /\ EditRule(r, c) /\ UNCHANGED alerts
UpdateRule(r, c) == rules[r] \notin {None, c} /\ EditRule(r, c) /\ UNCHANGED alerts

(* ON DELETE CASCADE takes the rule's alerts; Engine.sustained keeps its   *)
(* entries.                                                                *)
DeleteRule(r) ==
    /\ rules[r] # None
    /\ EditRule(r, None)
    /\ alerts' = [i \in AlertIds |->
            [alerts[i] EXCEPT !.present = @ /\ alerts[i].rule # r]]

----------------------------------------------------------------------------
(* The environment: hosts, the clock, a crash and the start that follows.  *)

Measure(a) ==
    /\ \E s \in Samples \ {reading[a]} : reading' = [reading EXCEPT ![a] = s]
    /\ UNCHANGED <<tableVars, sustained, evaluatorVars, acking, published,
                   notified, boundVars>>

Older(age) == IF age = NotSeen \/ age = MaxAge THEN age ELSE age + 1

Tick ==
    /\ sustained' = [r \in Rules |-> [a \in Agents |-> Older(sustained[r][a])]]
    /\ firstSeen' = [e \in Evaluators |-> Older(firstSeen[e])]
    /\ UNCHANGED <<reading, tableVars, pc, payload, todo, job, held, acking,
                   published, notified, boundVars>>

(* The memory of a server that has just started.                           *)
AllIdle     == [e \in Evaluators |-> "idle"]
NoneHeld    == [e \in Evaluators |-> None]
NoVerdicts  == [e \in Evaluators |-> {}]
NoneSeen    == [e \in Evaluators |-> NotSeen]
NoneAcking  == [h \in Requests |-> None]
NoSustained == [r \in Rules |-> [a \in Agents |-> NotSeen]]

Restart ==
    /\ restarts < MaxRestarts
    /\ restarts' = restarts + 1
    /\ pc' = AllIdle
    /\ payload' = NoneHeld
    /\ todo' = NoVerdicts
    /\ job' = NoneHeld
    /\ firstSeen' = NoneSeen
    /\ held' = NoneHeld
    /\ acking' = NoneAcking
    /\ sustained' = NoSustained
    /\ rules' = Seeded(rules)
    /\ UNCHANGED <<reading, alerts, published, notified, edits>>

Init ==
    /\ reading \in [Agents -> Samples]
    /\ rules = Seeded([r \in Rules |-> None])
    /\ alerts = [i \in AlertIds |-> NoRow]
    /\ pc = AllIdle
    /\ payload = NoneHeld
    /\ todo = NoVerdicts
    /\ job = NoneHeld
    /\ firstSeen = NoneSeen
    /\ held = NoneHeld
    /\ acking = NoneAcking
    /\ sustained = NoSustained
    /\ published = [i \in AlertIds |-> <<>>]
    /\ notified = [i \in AlertIds |-> <<>>]
    /\ edits = 0
    /\ restarts = 0

Evaluate(e) ==
    \/ LoadRules(e) \/ Sustain(e) \/ CheckDuration(e) \/ Lookup(e)
    \/ CreateFails(e) \/ Create(e) \/ ResolveFails(e) \/ Resolve(e)
    \/ Publish(e) \/ Enqueue(e)

Next ==
    \/ \E e \in Evaluators : Evaluate(e) \/ \E a \in Agents : Ingest(e, a)
    \/ \E h \in Requests : AckPublish(h) \/ \E i \in AlertIds : Acknowledge(h, i)
    \/ \E r \in Rules : DeleteRule(r)
    \/ \E r \in Rules, c \in RuleConfigs : CreateRule(r, c) \/ UpdateRule(r, c)
    \/ \E a \in Agents : Measure(a)
    \/ Tick
    \/ Restart

Spec == Init /\ [][Next]_vars

(* Every goroutine and request handler is scheduled, time passes, and each *)
(* agent keeps reporting.                                                  *)
Fairness ==
    /\ \A e \in Evaluators : WF_vars(Evaluate(e))
    /\ \A h \in Requests : WF_vars(AckPublish(h))
    /\ \A a \in Agents : WF_vars(\E e \in Evaluators : Ingest(e, a))
    /\ WF_vars(Tick)

FairSpec == Spec /\ Fairness

----------------------------------------------------------------------------
(* Properties.                                                             *)

TypeOK ==
    /\ reading \in [Agents -> Samples]
    /\ rules \in [Rules -> RuleConfigs \cup {None}]
    /\ alerts \in [AlertIds -> Row]
    /\ sustained \in [Rules -> [Agents -> Ages]]
    /\ pc \in [Evaluators -> Locations]
    /\ payload \in [Evaluators -> Payload \cup {None}]
    /\ todo \in [Evaluators -> SUBSET Verdict]
    /\ job \in [Evaluators -> Verdict \cup {None}]
    /\ firstSeen \in [Evaluators -> Ages]
    /\ held \in [Evaluators -> AlertIds \cup {None}]
    /\ acking \in [Requests -> AlertIds \cup {None}]
    /\ published \in [AlertIds -> Seq(EventTypes)]
    /\ notified \in [AlertIds -> Seq(EventTypes)]
    /\ edits \in 0 .. MaxEdits
    /\ restarts \in 0 .. MaxRestarts

(* The evaluations that found no active alert and are about to open one.   *)
Creating(r, a) == {e \in Evaluators : pc[e] = "create" /\ job[e].rule = r
                                                      /\ job[e].agent = a}

(* The check of GetActiveAlert and the insert of CreateAlert are two       *)
(* statements without a lock, so concurrent evaluations can open several   *)
(* alerts for one rule and agent; but the active ones and those about to   *)
(* be opened are never more than the evaluations that run at once, however *)
(* long the condition lasts.                                               *)
DuplicatesBounded ==
    \A r \in Rules, a \in Agents :
        Cardinality(ActiveFor(r, a)) + Cardinality(Creating(r, a))
            <= Cardinality(Evaluators)

(* No transition of an alert is announced twice, to the stream or to the   *)
(* notification channels: of two evaluations that resolve the same alert   *)
(* only one passes the WHERE clause, and only one request acknowledges it. *)
AnnouncedOnce ==
    \A i \in AlertIds : IsInjective(published[i]) /\ IsInjective(notified[i])

(* Alert i has been through transition t.                                  *)
Reached(i, t) ==
    \/ t = "firing" /\ alerts[i].status # "none"
    \/ t = "acknowledged" /\ alerts[i].acked
    \/ t = "resolved" /\ alerts[i].status = "resolved"

(* Without crashes and failing statements, every transition that commits   *)
(* is published or about to be, by somebody who cannot skip it: not even a *)
(* rule deleted in between hides it from the stream.                       *)
PublishedOrOwned ==
    restarts = 0 /\ Faults \cap {"create", "resolve", "ack"} = {} =>
        \A i \in AlertIds : \A t \in EventTypes : Reached(i, t) =>
            \/ t \in Range(published[i])
            \/ \E e \in Evaluators :
                    pc[e] = "publish" /\ held[e] = i /\ EventOf(job[e]) = t
            \/ t = "acknowledged" /\ \E h \in Requests : acking[h] = i

(* The rows and their announcements follow the abstract life cycle.        *)
Lifecycle == INSTANCE AlertLifecycle WITH
    alerts <- [i \in AlertIds |-> [status  |-> alerts[i].status,
                                   acked   |-> alerts[i].acked,
                                   present |-> alerts[i].present]],
    announced <- published
LifecycleSpec == Lifecycle!Spec

(* At most one alert is active for a rule and an agent.                    *)
OneActivePerKey ==
    \A r \in Rules, a \in Agents : Cardinality(ActiveFor(r, a)) <= 1

Current(r, a, triggered) ==
    /\ rules[r] # None
    /\ Evaluated(r, reading[a])
    /\ Triggers(r, reading[a]) = triggered

(* When a metric goes back under an enabled rule and stays there, every    *)
(* alert of that rule is resolved, duplicates and acknowledged ones too.   *)
Recovers ==
    \A r \in Rules, a \in Agents :
        <>[]Current(r, a, FALSE) => <>[](ActiveFor(r, a) = {})

(* When the condition of an enabled rule holds for good, the alert opens   *)
(* and stays active (up to the bound on identities).                       *)
SustainedFires ==
    \A r \in Rules, a \in Agents :
        <>[]Current(r, a, TRUE) =>
            <>[](ActiveFor(r, a) # {}) \/ <>(Fresh = {})
=============================================================================
