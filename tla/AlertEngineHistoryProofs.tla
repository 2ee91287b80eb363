---------------------- MODULE AlertEngineHistoryProofs ----------------------
(***************************************************************************)
(* Proof that for_duration is kept: for any rules, samples and durations,  *)
(* when one evaluation runs at a time, the listing of the rules is never   *)
(* cut short and no rule is edited.                                        *)
(*                                                                         *)
(* The argument: the sustained entry of a rule and agent is never older    *)
(* than the last sample under the rule, unless that sample is still on its *)
(* way through the goroutine (Pending); a goroutine has one verdict per    *)
(* rule, so the verdict that reads the entry is not behind such a sample.  *)
(***************************************************************************)
EXTENDS AlertEngineHistory, AlertEngineProofs

(* The rules a sample is compared with, and those that find it too low.    *)
Watched(r) == rules[r] # None /\ rules[r].enabled
FoundUnder(r, sample) == Watched(r) /\ Evaluated(r, sample) /\ ~Triggers(r, sample)

(* The goroutine has not processed yet that agent a was under rule r.      *)
Pending(e, r, a) ==
    \/ pc[e] = "load" /\ payload[e].agent = a /\ FoundUnder(r, payload[e].sample)
    \/ \E v \in todo[e] : v.rule = r /\ v.agent = a /\ ~v.triggered

SeedsPresent == \A r \in Rules \cap DOMAIN SeedRules : rules[r] # None
UnwatchedUnseen ==
    \A r \in Rules, a \in Agents : ~Watched(r) => sustained[r][a] = NotSeen
SeenSinceClear(e) ==
    \A r \in Rules, a \in Agents :
        sustained[r][a] <= clearAge[r][a] \/ Pending(e, r, a)
OneVerdictPerRule(e) ==
    /\ \A v \in todo[e] : Watched(v.rule)
    /\ \A v, w \in todo[e] : v.rule = w.rule => v = w
    /\ pc[e] \in {"idle", "load"} => todo[e] = {}
LastedSoFar(e) ==
    /\ pc[e] = "duration" => firstSeen[e] <= clearAge[job[e].rule][job[e].agent]
    /\ pc[e] \in {"lookup", "create"} /\ job[e].triggered /\ job[e].forDuration > 0 =>
            job[e].forDuration <= clearAge[job[e].rule][job[e].agent]

UneditedInv(e) ==
    /\ SeedsPresent
    /\ UnwatchedUnseen
    /\ SeenSinceClear(e)
    /\ OneVerdictPerRule(e)
    /\ LastedSoFar(e)

ClearAgeType == clearAge \in [Rules -> [Agents -> 0 .. MaxAge]]
HistoryInv(e) == TypeInv /\ ClearAgeType /\ (edits = 0 => UneditedInv(e))

----------------------------------------------------------------------------
(* Time passes alike for what is compared.                                 *)
LEMMA OlderMonotone ==
    ASSUME NEW x \in Ages, NEW y \in 0 .. MaxAge, x <= y
    PROVE  /\ Older(x) <= Older(y)
           /\ y <= Older(y) /\ Older(y) \in 0 .. MaxAge
BY RulesAssumption DEF Older, Ages, NotSeen

(* A restart seeds nothing that is there.                                  *)
LEMMA SeedingIsOver ==
    ASSUME TypeOK, SeedsPresent
    PROVE  Seeded(rules) = rules
BY DEF TypeOK, SeedsPresent, Seeded

(* At the start nothing is sustained and nobody was seen.                  *)
LEMMA HistoryInit ==
    ASSUME NEW e \in Evaluators, HInit
    PROVE  HistoryInv(e)
<1>1. TypeInv
    BY TypeInvInit DEF HInit
<1>2. ClearAgeType
    BY RulesAssumption DEF HInit, ClearAgeType
<1>3. SeedsPresent
    BY RulesAssumption DEF HInit, Init, Seeded, SeedsPresent
<1>4. /\ \A r \in Rules, a \in Agents : sustained[r][a] = NotSeen
      /\ pc[e] = "idle" /\ todo[e] = {}
    BY DEF HInit, Init, NoSustained, AllIdle, NoVerdicts
<1>5. SeenSinceClear(e)
  <2> SUFFICES ASSUME NEW r \in Rules, NEW a \in Agents
               PROVE  sustained[r][a] <= clearAge[r][a]
    BY DEF SeenSinceClear
  <2>1. clearAge[r][a] \in 0 .. MaxAge
    BY <1>2 DEF ClearAgeType
  <2> QED BY <1>4, <2>1, RulesAssumption DEF NotSeen
<1>6. UneditedInv(e)
    BY <1>3, <1>4, <1>5 DEF UneditedInv, UnwatchedUnseen, OneVerdictPerRule, LastedSoFar
<1> QED BY <1>1, <1>2, <1>6 DEF HistoryInv

(* A step of the goroutine that leaves the verdicts and entries alone.     *)
LEMMA MovesOn ==
    ASSUME NEW e \in Evaluators, UneditedInv(e),
           UNCHANGED <<rules, sustained, todo, clearAge>>,
           pc[e] \notin {"idle", "load"},
           pc'[e] \in {"idle", "rules", "resolve", "publish", "enqueue"},
           pc'[e] = "idle" => todo[e] = {}
    PROVE  UneditedInv(e)'
<1>1. SeedsPresent' /\ UnwatchedUnseen'
    BY DEF UneditedInv, SeedsPresent, UnwatchedUnseen, Watched
<1>2. SeenSinceClear(e)'
    BY DEF UneditedInv, SeenSinceClear, Pending
<1>3. OneVerdictPerRule(e)' /\ LastedSoFar(e)'
    BY DEF UneditedInv, OneVerdictPerRule, LastedSoFar, Watched
<1> QED BY <1>1, <1>2, <1>3 DEF UneditedInv

(* A step of somebody else.                                                *)
LEMMA Elsewhere ==
    ASSUME NEW e \in Evaluators, UneditedInv(e),
           UNCHANGED <<rules, sustained, evaluatorVars, clearAge>>
    PROVE  UneditedInv(e)'
BY DEF UneditedInv, SeedsPresent, UnwatchedUnseen, SeenSinceClear, OneVerdictPerRule,
   LastedSoFar, Watched, Pending, FoundUnder, Evaluated, Triggers, Compare, evaluatorVars

(* A sample under a rule is on its way as soon as it counts.               *)
LEMMA UneditedIngest ==
    ASSUME NEW e \in Evaluators, NEW a \in Agents, TypeInv, ClearAgeType,
           UneditedInv(e), HIngest(e, a)
    PROVE  UneditedInv(e)'
<1>1. /\ UNCHANGED <<rules, sustained, todo, job, firstSeen>>
      /\ pc[e] = "idle" /\ pc'[e] = "load" /\ todo[e] = {}
      /\ payload'[e].agent = a /\ payload'[e].sample = reading[a]
      /\ clearAge' = [r \in Rules |->
                        [clearAge[r] EXCEPT ![a] = IF Under(r, a) THEN 0 ELSE @]]
    BY DEF HIngest, Ingest, tableVars, TypeInv, TypeOK, UneditedInv, OneVerdictPerRule
<1>2. SeedsPresent' /\ UnwatchedUnseen'
    BY <1>1 DEF UneditedInv, SeedsPresent, UnwatchedUnseen, Watched
<1>3. OneVerdictPerRule(e)' /\ LastedSoFar(e)'
    BY <1>1 DEF UneditedInv, OneVerdictPerRule, LastedSoFar, Watched
<1>4. ASSUME NEW r \in Rules, NEW b \in Agents
      PROVE  sustained'[r][b] <= clearAge'[r][b] \/ Pending(e, r, b)'
  <2>1. sustained[r][b] <= clearAge[r][b]
    BY <1>1 DEF UneditedInv, SeenSinceClear, Pending
  <2>2. clearAge'[r][b] = IF b = a /\ Under(r, a) THEN 0 ELSE clearAge[r][b]
    BY <1>1 DEF ClearAgeType
  <2>3. CASE b = a /\ Under(r, a) /\ rules[r].enabled
    BY <1>1, <2>3 DEF Under, Pending, FoundUnder, Watched, Evaluated, Triggers
  <2>4. CASE b = a /\ Under(r, a) /\ ~rules[r].enabled
    <3>1. sustained'[r][b] = NotSeen /\ clearAge'[r][b] = 0
      BY <1>1, <2>2, <2>4 DEF UneditedInv, UnwatchedUnseen, Watched
    <3> QED BY <3>1 DEF NotSeen
  <2>5. CASE ~(b = a /\ Under(r, a))
    BY <1>1, <2>1, <2>2, <2>5
  <2> QED BY <2>3, <2>4, <2>5
<1> QED BY <1>2, <1>3, <1>4 DEF UneditedInv, SeenSinceClear

(* The listing is complete, so a sample that is on its way becomes one of  *)
(* the verdicts.                                                           *)
LEMMA UneditedLoad ==
    ASSUME NEW e \in Evaluators, "rules" \notin Faults, TypeInv, UneditedInv(e),
           LoadRules(e), UNCHANGED clearAge
    PROVE  UneditedInv(e)'
<1> DEFINE verdicts == Verdicts(LiveRules, payload[e])
<1>1. /\ UNCHANGED <<rules, sustained, job, firstSeen>>
      /\ pc[e] = "load" /\ todo'[e] = verdicts
      /\ pc'[e] = IF verdicts = {} THEN "idle" ELSE "rules"
    BY DEF LoadRules, Listings, tableVars, TypeInv, TypeOK
<1>2. \A v \in verdicts : /\ v.rule \in Rules /\ Watched(v.rule)
                          /\ v.triggered = Triggers(v.rule, payload[e].sample)
    BY DEF Verdicts, LiveRules, Watched, Evaluated
<1>3. \A v, w \in verdicts : v.rule = w.rule => v = w
    BY DEF Verdicts
<1>4. ASSUME NEW r \in Rules, FoundUnder(r, payload[e].sample)
      PROVE  \E v \in verdicts : /\ v.rule = r /\ v.agent = payload[e].agent
                                 /\ ~v.triggered
  <2> DEFINE v == [rule |-> r, agent |-> payload[e].agent,
                   triggered |-> Triggers(r, payload[e].sample),
                   forDuration |-> rules[r].forDuration]
  <2>1. v \in verdicts
    BY <1>4 DEF FoundUnder, Watched, Verdicts, LiveRules
  <2>2. v.rule = r /\ v.agent = payload[e].agent /\ ~v.triggered
    BY <1>4 DEF FoundUnder
  <2> QED BY <2>1, <2>2
<1> HIDE DEF verdicts
<1>5. SeedsPresent' /\ UnwatchedUnseen'
    BY <1>1 DEF UneditedInv, SeedsPresent, UnwatchedUnseen, Watched
<1>6. OneVerdictPerRule(e)'
    BY <1>1, <1>2, <1>3 DEF OneVerdictPerRule, Watched
<1>7. LastedSoFar(e)'
    BY <1>1 DEF LastedSoFar
<1>8. ASSUME NEW r \in Rules, NEW a \in Agents, Pending(e, r, a)
      PROVE  Pending(e, r, a)'
  <2>1. payload[e].agent = a /\ FoundUnder(r, payload[e].sample)
    BY <1>1, <1>8 DEF Pending, UneditedInv, OneVerdictPerRule
  <2>2. \E v \in todo'[e] : v.rule = r /\ v.agent = a /\ ~v.triggered
    BY <1>1, <1>4, <2>1
  <2> QED BY <2>2 DEF Pending
<1>9. SeenSinceClear(e)'
    BY <1>1, <1>8 DEF UneditedInv, SeenSinceClear
<1> QED BY <1>5, <1>6, <1>7, <1>9 DEF UneditedInv

(* The verdict that reads an entry is the only one of its rule, so no      *)
(* sample under the rule is behind it.                                     *)
LEMMA UneditedSustain ==
    ASSUME NEW e \in Evaluators, TypeInv, ClearAgeType, UneditedInv(e),
           Sustain(e), UNCHANGED clearAge
    PROVE  UneditedInv(e)'
<1>1. PICK v \in todo[e] :
            /\ SustainTriggered(e, v) \/ SustainClear(e, v)
            /\ job' = [job EXCEPT ![e] = v]
            /\ todo' = [todo EXCEPT ![e] = todo[e] \ {v}]
    BY DEF Sustain
<1>2. /\ UNCHANGED <<rules, payload>> /\ pc[e] = "rules"
      /\ job'[e] = v /\ todo'[e] = todo[e] \ {v}
      /\ v \in Verdict /\ v.rule \in Rules /\ v.agent \in Agents /\ Watched(v.rule)
    BY <1>1 DEF Sustain, tableVars, TypeInv, TypeOK, Verdict, UneditedInv,
        OneVerdictPerRule
<1> DEFINE r == v.rule
           a == v.agent
           age == clearAge[r][a]
           seen == sustained[r][a]
<1>3. age \in 0 .. MaxAge /\ seen \in Ages
    BY <1>2 DEF ClearAgeType, TypeInv, TypeOK
<1>4. SeedsPresent'
    BY <1>2 DEF UneditedInv, SeedsPresent
<1>5. /\ \A w \in todo'[e] : Watched(w.rule)'
      /\ \A w, u \in todo'[e] : w.rule = u.rule => w = u
    BY <1>2 DEF UneditedInv, OneVerdictPerRule, Watched
<1>6. \A q \in Rules, b \in Agents : Pending(e, q, b) /\ (q # r \/ b # a) => Pending(e, q, b)'
    BY <1>2 DEF Pending
<1>7. CASE SustainTriggered(e, v)
  <2> DEFINE since == IF seen = NotSeen THEN 0 ELSE seen
  <2>1. /\ v.triggered /\ pc'[e] = "duration" /\ firstSeen'[e] = since
        /\ sustained' = [sustained EXCEPT ![r][a] = since]
    BY <1>7 DEF SustainTriggered, TypeInv, TypeOK
  <2>2. ~Pending(e, r, a)
    BY <1>2, <2>1 DEF Pending, UneditedInv, OneVerdictPerRule
  <2>3. seen <= age
    BY <1>2, <2>2 DEF UneditedInv, SeenSinceClear
  <2>4. since <= age
    BY <1>3, <2>3, RulesAssumption
  <2>5. \A q \in Rules, b \in Agents :
            sustained'[q][b] = IF q = r /\ b = a THEN since ELSE sustained[q][b]
    BY <1>2, <2>1 DEF TypeInv, TypeOK
  <2> HIDE DEF since
  <2>6. SeenSinceClear(e)'
    BY <1>6, <2>4, <2>5 DEF UneditedInv, SeenSinceClear
  <2>7. UnwatchedUnseen'
    BY <1>2, <2>5 DEF UneditedInv, UnwatchedUnseen, Watched
  <2>8. OneVerdictPerRule(e)'
    BY <1>5, <2>1 DEF OneVerdictPerRule
  <2>9. LastedSoFar(e)'
    BY <1>2, <2>1, <2>4 DEF LastedSoFar
  <2> QED BY <1>4, <2>6, <2>7, <2>8, <2>9 DEF UneditedInv
<1>8. CASE SustainClear(e, v)
  <2>1. /\ ~v.triggered /\ pc'[e] = "lookup"
        /\ sustained' = [sustained EXCEPT ![r][a] = NotSeen]
    BY <1>8 DEF SustainClear, TypeInv, TypeOK
  <2>2. \A q \in Rules, b \in Agents :
            sustained'[q][b] = IF q = r /\ b = a THEN NotSeen ELSE sustained[q][b]
    BY <1>2, <2>1 DEF TypeInv, TypeOK
  <2>3. NotSeen <= age
    BY <1>3, RulesAssumption DEF NotSeen
  <2>4. SeenSinceClear(e)'
    BY <1>6, <2>2, <2>3 DEF UneditedInv, SeenSinceClear
  <2>5. UnwatchedUnseen'
    BY <1>2, <2>2 DEF UneditedInv, UnwatchedUnseen, Watched
  <2>6. OneVerdictPerRule(e)'
    BY <1>5, <2>1 DEF OneVerdictPerRule
  <2>7. LastedSoFar(e)'
    BY <1>2, <2>1 DEF LastedSoFar
  <2> QED BY <1>4, <2>4, <2>5, <2>6, <2>7 DEF UneditedInv
<1> QED BY <1>1, <1>7, <1>8

(* The early return is taken unless the entry, and so the metric, has been *)
(* there for the duration.                                                 *)
LEMMA UneditedCheck ==
    ASSUME NEW e \in Evaluators, TypeInv, ClearAgeType, UneditedInv(e),
           CheckDuration(e), UNCHANGED clearAge
    PROVE  UneditedInv(e)'
<1>1. /\ UNCHANGED <<rules, sustained, payload, todo>> /\ pc[e] = "duration"
    BY DEF CheckDuration, tableVars
<1>2. CASE TooEarly(job[e], firstSeen[e])
  <2>1. NextRule(e, todo[e])
    BY <1>2 DEF CheckDuration
  <2>2. pc'[e] = IF todo[e] = {} THEN "idle" ELSE "rules"
    BY <2>1 DEF NextRule, TypeInv, TypeOK
  <2> QED BY <1>1, <2>2, MovesOn
<1>3. CASE ~TooEarly(job[e], firstSeen[e])
  <2>1. pc'[e] = "lookup" /\ UNCHANGED job
    BY <1>3 DEF CheckDuration, TypeInv, TypeOK
  <2>2. job[e] \in Verdict /\ firstSeen[e] \in Ages
    BY <1>1 DEF TypeInv, TypeOK, Located, Processing
  <2> DEFINE age == clearAge[job[e].rule][job[e].agent]
             d == job[e].forDuration
             f == firstSeen[e]
  <2>3. age \in 0 .. MaxAge /\ d \in Int /\ f \in Int
    BY <2>2, RulesAssumption DEF ClearAgeType, Verdict, Ages, NotSeen
  <2>4. f <= age
    BY <1>1 DEF UneditedInv, LastedSoFar
  <2>5. d > 0 => ~(f < d)
    BY <1>3 DEF TooEarly
  <2> HIDE DEF age, d, f
  <2>6. d > 0 => d <= age
    BY <2>3, <2>4, <2>5, RulesAssumption
  <2>7. LastedSoFar(e)'
    BY <1>1, <2>1, <2>6 DEF LastedSoFar, age, d
  <2>8. SeedsPresent' /\ UnwatchedUnseen'
    BY <1>1 DEF UneditedInv, SeedsPresent, UnwatchedUnseen, Watched
  <2>9. SeenSinceClear(e)' /\ OneVerdictPerRule(e)'
    BY <1>1, <2>1 DEF UneditedInv, SeenSinceClear, OneVerdictPerRule, Pending, Watched
  <2> QED BY <2>7, <2>8, <2>9 DEF UneditedInv
<1> QED BY <1>2, <1>3

(* A lookup leaves the sustained entries and the rules as they are.        *)
LEMMA UneditedLookup ==
    ASSUME NEW e \in Evaluators, TypeInv, UneditedInv(e), Lookup(e), UNCHANGED clearAge
    PROVE  UneditedInv(e)'
<1>1. /\ UNCHANGED <<rules, sustained, payload, todo>> /\ pc[e] = "lookup"
    BY DEF Lookup, tableVars
<1>2. \/ pc'[e] = "create" /\ UNCHANGED job
      \/ pc'[e] = "resolve"
      \/ NextRule(e, todo[e])
    BY DEF Lookup, TypeInv, TypeOK
<1>3. CASE pc'[e] = "create" /\ UNCHANGED job
  <2>1. SeedsPresent' /\ UnwatchedUnseen'
    BY <1>1 DEF UneditedInv, SeedsPresent, UnwatchedUnseen, Watched
  <2>2. SeenSinceClear(e)' /\ OneVerdictPerRule(e)'
    BY <1>1, <1>3 DEF UneditedInv, SeenSinceClear, OneVerdictPerRule, Pending, Watched
  <2>3. LastedSoFar(e)'
    BY <1>1, <1>3 DEF UneditedInv, LastedSoFar
  <2> QED BY <2>1, <2>2, <2>3 DEF UneditedInv
<1>4. CASE pc'[e] = "resolve"
    BY <1>1, <1>4, MovesOn
<1>5. CASE NextRule(e, todo[e])
  <2>1. pc'[e] = IF todo[e] = {} THEN "idle" ELSE "rules"
    BY <1>5 DEF NextRule, TypeInv, TypeOK
  <2> QED BY <1>1, <2>1, MovesOn
<1> QED BY <1>2, <1>3, <1>4, <1>5

(* Creating, resolving and announcing do not touch the entries.            *)
LEMMA UneditedRest ==
    ASSUME NEW e \in Evaluators, TypeInv, UneditedInv(e), UNCHANGED clearAge,
           \/ CreateFails(e) \/ Create(e) \/ ResolveFails(e) \/ Resolve(e)
           \/ Publish(e) \/ Enqueue(e)
    PROVE  UneditedInv(e)'
<1>1. /\ UNCHANGED <<rules, sustained, todo>>
      /\ pc[e] \in {"create", "resolve", "publish", "enqueue"}
    BY DEF CreateFails, Create, ResolveFails, Resolve, Publish, Enqueue, tableVars
<1>2. \/ pc' = [pc EXCEPT ![e] = "publish"] \/ pc' = [pc EXCEPT ![e] = "enqueue"]
      \/ NextRule(e, todo[e])
    BY DEF CreateFails, Create, ResolveFails, Resolve, Publish, Enqueue
<1>3. \/ pc'[e] \in {"publish", "enqueue"}
      \/ pc'[e] = IF todo[e] = {} THEN "idle" ELSE "rules"
    BY <1>2 DEF NextRule, TypeInv, TypeOK
<1> QED BY <1>1, <1>3, MovesOn

(* Everything that is compared ages by the same tick, or not at all.       *)
LEMMA UneditedTick ==
    ASSUME NEW e \in Evaluators, TypeInv, ClearAgeType, UneditedInv(e), HTick
    PROVE  UneditedInv(e)'
<1>1. UNCHANGED <<rules, pc, payload, todo, job>>
    BY DEF HTick, Tick, tableVars
<1>2. /\ firstSeen'[e] = Older(firstSeen[e]) /\ firstSeen[e] \in Ages
      /\ \A r \in Rules, a \in Agents :
            /\ sustained'[r][a] = Older(sustained[r][a]) /\ sustained[r][a] \in Ages
            /\ clearAge'[r][a] = Older(clearAge[r][a]) /\ clearAge[r][a] \in 0 .. MaxAge
    BY DEF HTick, Tick, TypeInv, TypeOK, ClearAgeType
<1>3. SeedsPresent' /\ OneVerdictPerRule(e)'
    BY <1>1 DEF UneditedInv, SeedsPresent, OneVerdictPerRule, Watched
<1>4. UnwatchedUnseen'
    BY <1>1, <1>2 DEF UneditedInv, UnwatchedUnseen, Watched, Older
<1>5. ASSUME NEW r \in Rules, NEW a \in Agents
      PROVE  sustained'[r][a] <= clearAge'[r][a] \/ Pending(e, r, a)'
  <2>1. CASE Pending(e, r, a)
    BY <1>1, <2>1 DEF Pending, FoundUnder, Watched, Evaluated, Triggers
  <2>2. CASE sustained[r][a] <= clearAge[r][a]
    BY <1>2, <2>2, OlderMonotone
  <2> QED BY <2>1, <2>2 DEF UneditedInv, SeenSinceClear
<1>6. ASSUME pc[e] \in {"duration", "lookup", "create"}
      PROVE  /\ job[e].rule \in Rules /\ job[e].agent \in Agents
             /\ job[e].forDuration \in Int
    BY <1>6 DEF TypeInv, Located, Processing, Verdict
<1>7. pc'[e] = "duration" => firstSeen'[e] <= clearAge'[job'[e].rule][job'[e].agent]
    BY <1>1, <1>2, <1>6, OlderMonotone DEF UneditedInv, LastedSoFar
<1>8. ASSUME pc[e] \in {"lookup", "create"}, job[e].triggered, job[e].forDuration > 0
      PROVE  job[e].forDuration <= clearAge'[job[e].rule][job[e].agent]
  <2> DEFINE old == clearAge[job[e].rule][job[e].agent]
             new == clearAge'[job[e].rule][job[e].agent]
             d == job[e].forDuration
  <2>1. /\ old \in 0 .. MaxAge /\ new = Older(old) /\ d \in Int
    BY <1>2, <1>6, <1>8
  <2>2. d <= old
    BY <1>8 DEF UneditedInv, LastedSoFar
  <2> HIDE DEF old, new, d
  <2>3. old \in Ages /\ old <= old
    BY <2>1, RulesAssumption DEF Ages, NotSeen
  <2>4. old <= new /\ new \in 0 .. MaxAge
    BY <2>1, <2>3, OlderMonotone
  <2>5. d <= new
    BY <2>1, <2>2, <2>4, RulesAssumption
  <2> QED BY <2>5 DEF new, d
<1>9. LastedSoFar(e)'
    BY <1>1, <1>7, <1>8 DEF LastedSoFar
<1> QED BY <1>3, <1>4, <1>5, <1>9 DEF UneditedInv, SeenSinceClear

(* A restart forgets: what fires late cannot fire early.                   *)
LEMMA UneditedRestart ==
    ASSUME NEW e \in Evaluators, TypeInv, ClearAgeType, UneditedInv(e), Restart,
           UNCHANGED clearAge
    PROVE  UneditedInv(e)'
<1>1. /\ \A r \in Rules, a \in Agents : sustained'[r][a] = NotSeen
      /\ pc'[e] = "idle" /\ todo'[e] = {}
    BY DEF Restart, NoSustained, AllIdle, NoVerdicts
<1>2. UNCHANGED rules
    BY SeedingIsOver DEF Restart, UneditedInv, TypeInv
<1>3. SeedsPresent' /\ UnwatchedUnseen' /\ OneVerdictPerRule(e)' /\ LastedSoFar(e)'
    BY <1>1, <1>2 DEF UneditedInv, SeedsPresent, UnwatchedUnseen, OneVerdictPerRule,
        LastedSoFar
<1>4. ASSUME NEW r \in Rules, NEW a \in Agents PROVE sustained'[r][a] <= clearAge'[r][a]
  <2>1. clearAge'[r][a] \in 0 .. MaxAge
    BY DEF ClearAgeType
  <2> QED BY <1>1, <2>1, RulesAssumption DEF NotSeen
<1> QED BY <1>3, <1>4 DEF UneditedInv, SeenSinceClear

----------------------------------------------------------------------------
(* The recorded ages stay within MaxAge, or say that nothing was seen.     *)
LEMMA ClearAgeStep ==
    ASSUME ClearAgeType, [HNext]_historyVars
    PROVE  ClearAgeType'
<1>1. ASSUME NEW e \in Evaluators, NEW a \in Agents, HIngest(e, a) PROVE ClearAgeType'
    BY <1>1, RulesAssumption DEF HIngest, ClearAgeType
<1>2. CASE HTick
  <2>1. ASSUME NEW y \in 0 .. MaxAge PROVE Older(y) \in 0 .. MaxAge
    BY <2>1, RulesAssumption DEF Older, NotSeen
  <2> QED BY <1>2, <2>1 DEF HTick, ClearAgeType
<1>3. CASE HOther \/ UNCHANGED historyVars
    BY <1>3 DEF HOther, historyVars, ClearAgeType
<1> QED BY <1>1, <1>2, <1>3 DEF HNext

(* Every step of the engine keeps what the property rests on.              *)
LEMMA HistoryStep ==
    ASSUME NEW e, Evaluators = {e}, "rules" \notin Faults, HistoryInv(e),
           [HNext]_historyVars
    PROVE  HistoryInv(e)'
<1>1. [Next]_vars
    BY DEF HNext, HIngest, HTick, HOther, Next, historyVars
<1>2. TypeInv' /\ ClearAgeType'
    BY <1>1, TypeInvStep, ClearAgeStep DEF HistoryInv
<1> SUFFICES ASSUME edits' = 0 PROVE UneditedInv(e)'
    BY <1>2 DEF HistoryInv
<1> USE DEF HistoryInv
<1>3. edits \in Nat
    BY BoundsAssumption DEF TypeInv, TypeOK
<1>4. \A r \in Rules : ~DeleteRule(r) /\ \A c \in RuleConfigs : ~CreateRule(r, c) /\ ~UpdateRule(r, c)
    BY <1>3 DEF DeleteRule, CreateRule, UpdateRule, EditRule
<1>5. e \in Evaluators /\ \A f \in Evaluators : f = e
    OBVIOUS
<1>6. edits = 0
    BY <1>1, <1>4 DEF Next, Evaluate, vars, boundVars, LoadRules, Sustain, CheckDuration,
        Lookup, CreateFails, Create, ResolveFails, Resolve, Publish, Enqueue, Ingest,
        AckPublish, Acknowledge, Measure, Tick, Restart
<1>7. UneditedInv(e)
    BY <1>6
<1>8. ASSUME NEW a \in Agents, HIngest(e, a) PROVE UneditedInv(e)'
    BY <1>5, <1>7, <1>8, UneditedIngest
<1>9. CASE HTick
    BY <1>5, <1>7, <1>9, UneditedTick
<1>10. CASE HOther
  <2>1. UNCHANGED clearAge
    BY <1>10 DEF HOther
  <2>2. ASSUME Evaluate(e) PROVE UneditedInv(e)'
    BY <1>5, <1>7, <2>1, <2>2, UneditedLoad, UneditedSustain, UneditedCheck,
       UneditedLookup, UneditedRest DEF Evaluate
  <2>3. CASE Restart
    BY <1>5, <1>7, <2>1, <2>3, UneditedRestart
  <2>4. CASE \/ \E h \in Requests : AckPublish(h) \/ \E i \in AlertIds : Acknowledge(h, i)
             \/ \E a \in Agents : Measure(a)
    <3>1. UNCHANGED <<rules, sustained, evaluatorVars>>
      BY <2>4 DEF AckPublish, Acknowledge, Measure, tableVars
    <3> QED BY <1>5, <1>7, <2>1, <3>1, Elsewhere
  <2> QED BY <1>4, <1>5, <1>10, <2>2, <2>3, <2>4 DEF HOther
<1>11. CASE UNCHANGED historyVars
  <2>1. UNCHANGED <<rules, sustained, evaluatorVars, clearAge>>
    BY <1>11 DEF historyVars, vars, tableVars
  <2> QED BY <1>5, <1>7, <2>1, Elsewhere
<1> QED BY <1>5, <1>8, <1>9, <1>10, <1>11 DEF HNext

(* A rule with a for_duration opens an alert only when no sample of the    *)
(* agent was under the rule for that long: for any rules and durations,    *)
(* across failing statements, acknowledgements and restarts, as long as    *)
(* one evaluation runs at a time and no rule is edited.                    *)
THEOREM AlertsAreNeverEarly ==
    ASSUME NEW e, Evaluators = {e}, "rules" \notin Faults
    PROVE  HSpec => []UneditedFiresOnlySustained
<1>1. HInit => HistoryInv(e)
    BY HistoryInit
<1>2. HistoryInv(e) /\ [HNext]_historyVars => HistoryInv(e)'
    BY HistoryStep
<1>3. HistoryInv(e) => UneditedFiresOnlySustained
  <2> SUFFICES ASSUME HistoryInv(e), edits = 0, NEW f \in Evaluators,
                      pc[f] = "create", job[f].forDuration > 0
               PROVE  clearAge[job[f].rule][job[f].agent] >= job[f].forDuration
    BY DEF UneditedFiresOnlySustained, FiresOnlySustained
  <2>1. f = e /\ job[e] \in Verdict /\ job[e].triggered
    BY DEF HistoryInv, TypeInv, Located, Processing
  <2>2. job[e].forDuration <= clearAge[job[e].rule][job[e].agent]
    BY <2>1 DEF HistoryInv, UneditedInv, LastedSoFar
  <2> DEFINE age == clearAge[job[e].rule][job[e].agent]
             d == job[e].forDuration
  <2>3. age \in 0 .. MaxAge /\ d \in Int /\ d <= age
    BY <2>1, <2>2 DEF HistoryInv, ClearAgeType, Verdict
  <2> HIDE DEF age, d
  <2>4. age >= d
    BY <2>3, RulesAssumption
  <2> QED BY <2>1, <2>4 DEF age, d
<1> QED BY <1>1, <1>2, <1>3, PTL DEF HSpec
=============================================================================
