------------------------- MODULE AlertEngineProofs -------------------------
(***************************************************************************)
(* Proofs about AlertEngine, for any rules, agents, samples, faults and    *)
(* bounds, and any number of evaluation goroutines.                        *)
(***************************************************************************)
EXTENDS AlertEngine, TLAPS, FiniteSetTheorems

(* The fields the model compares are numbers and flags.                    *)
LEMMA ConfigType ==
    ASSUME NEW c \in RuleConfigs
    PROVE  c.threshold \in Int /\ c.forDuration \in Int /\ c.enabled \in BOOLEAN
BY RulesAssumption

(* A seeded table is a table.                                              *)
LEMMA SeededType ==
    ASSUME NEW table \in [Rules -> RuleConfigs \cup {None}]
    PROVE  Seeded(table) \in [Rules -> RuleConfigs \cup {None}]
BY RulesAssumption DEF Seeded

(* What LoadRules keeps are verdicts.                                      *)
LEMMA VerdictsType ==
    ASSUME TypeOK, NEW listed \in SUBSET LiveRules, NEW p \in Payload
    PROVE  Verdicts(listed, p) \in SUBSET Verdict
<1> SUFFICES ASSUME NEW r \in listed, Evaluated(r, p.sample)
             PROVE  [rule |-> r, agent |-> p.agent,
                     triggered |-> Triggers(r, p.sample),
                     forDuration |-> rules[r].forDuration] \in Verdict
    BY DEF Verdicts
<1>1. r \in Rules /\ rules[r] \in RuleConfigs
    BY DEF LiveRules, TypeOK
<1>2. rules[r].forDuration \in Int
    BY <1>1, ConfigType
<1>3. Triggers(r, p.sample) \in BOOLEAN
    BY DEF Triggers, Compare
<1> QED BY <1>1, <1>2, <1>3 DEF Verdict, Payload

(* A listing holds existing rules only.                                    *)
LEMMA ListingsType == Listings \subseteq SUBSET LiveRules
BY DEF Listings

(* Time passing keeps an age an age.                                       *)
LEMMA OlderType == ASSUME NEW age \in Ages PROVE Older(age) \in Ages
BY RulesAssumption DEF Older, Ages, NotSeen

(* The row types the statements write.                                     *)
LEMMA RowType ==
    /\ NoRow \in Row
    /\ \A v \in Verdict : FiringRow(v) \in Row
    /\ \A row \in Row : ResolvedRow(row) \in Row /\ AckedRow(row) \in Row
BY DEF NoRow, Row, FiringRow, Verdict, ResolvedRow, AckedRow, Statuses

(* A verdict is announced as firing or resolved.                           *)
LEMMA EventType == ASSUME NEW v PROVE EventOf(v) \in EventTypes
BY DEF EventOf, EventTypes

(* The start state is well typed.                                          *)
LEMMA TypeInit == Init => TypeOK
<1> SUFFICES ASSUME Init PROVE TypeOK OBVIOUS
<1>1. [r \in Rules |-> None] \in [Rules -> RuleConfigs \cup {None}] OBVIOUS
<1>2. rules \in [Rules -> RuleConfigs \cup {None}]
    BY <1>1, SeededType DEF Init
<1>3. alerts \in [AlertIds -> Row]
    BY RowType DEF Init
<1>4. NotSeen \in Ages
    BY RulesAssumption DEF Ages, NotSeen
<1>5. edits \in 0 .. MaxEdits /\ restarts \in 0 .. MaxRestarts
    BY BoundsAssumption DEF Init
<1> QED
    BY <1>2, <1>3, <1>4, <1>5
    DEF Init, TypeOK, AllIdle, NoneHeld, NoVerdicts, NoneSeen, NoneAcking,
        NoSustained, Locations

----------------------------------------------------------------------------
(* Type correctness.  A goroutine has a sample until it loads the rules, a *)
(* verdict while it processes one, and an alert while it resolves or       *)
(* announces it.                                                           *)

Processing == {"duration", "lookup", "create", "resolve", "publish", "enqueue"}
Holding    == {"resolve", "publish", "enqueue"}

Located ==
    \A e \in Evaluators :
        /\ pc[e] = "load" => payload[e] \in Payload
        /\ pc[e] \in Processing => job[e] \in Verdict
        /\ pc[e] \in Holding => held[e] \in AlertIds
        /\ pc[e] = "create" => job[e].triggered
        /\ pc[e] = "resolve" => ~job[e].triggered

TypeInv == TypeOK /\ Located

(* At the start no goroutine holds anything.                               *)
LEMMA TypeInvInit == Init => TypeInv
BY TypeInit DEF TypeInv, Init, Located, AllIdle, Processing, Holding

(* The end of a turn of the loop keeps the goroutines well typed.          *)
LEMMA NextRuleType ==
    ASSUME TypeInv, NEW e \in Evaluators, NextRule(e, todo[e]),
           UNCHANGED <<payload, todo>>
    PROVE  /\ pc' \in [Evaluators -> Locations]
           /\ job' \in [Evaluators -> Verdict \cup {None}]
           /\ held' \in [Evaluators -> AlertIds \cup {None}]
           /\ Located'
BY DEF TypeInv, TypeOK, Located, NextRule, Locations, Processing, Holding

(* An edit keeps the rule table and its counter well typed.                *)
LEMMA EditType ==
    ASSUME TypeOK, NEW r \in Rules, NEW c \in RuleConfigs \cup {None}, EditRule(r, c)
    PROVE  rules' \in [Rules -> RuleConfigs \cup {None}] /\ edits' \in 0 .. MaxEdits
<1>1. edits \in Nat /\ edits < MaxEdits /\ edits' = edits + 1
    BY DEF EditRule, TypeOK
<1>2. edits' \in 0 .. MaxEdits
    BY <1>1, BoundsAssumption
<1> QED BY <1>2 DEF EditRule, TypeOK

(* TypeInv is inductive: one step for each action.                         *)
LEMMA TypeInvStep == TypeInv /\ [Next]_vars => TypeInv'
<1> SUFFICES ASSUME TypeInv, [Next]_vars PROVE TypeInv' OBVIOUS
<1> USE DEF TypeInv
<1>1. ASSUME NEW e \in Evaluators, NEW a \in Agents, Ingest(e, a) PROVE TypeInv'
    BY <1>1 DEF Ingest, TypeOK, Located, Locations, Payload, Processing, Holding,
        tableVars, boundVars
<1>2. ASSUME NEW e \in Evaluators, LoadRules(e) PROVE TypeInv'
  <2>1. PICK listed \in Listings :
            /\ todo' = [todo EXCEPT ![e] = Verdicts(listed, payload[e])]
            /\ pc' = [pc EXCEPT ![e] = IF Verdicts(listed, payload[e]) = {}
                                       THEN "idle" ELSE "rules"]
    BY <1>2 DEF LoadRules
  <2>2. Verdicts(listed, payload[e]) \in SUBSET Verdict
    BY <1>2, VerdictsType, ListingsType DEF LoadRules, Located
  <2> QED BY <1>2, <2>1, <2>2
    DEF LoadRules, TypeOK, Located, Locations, Processing, Holding,
        tableVars, boundVars
<1>3. ASSUME NEW e \in Evaluators, Sustain(e) PROVE TypeInv'
  <2>1. PICK v \in todo[e] :
            /\ SustainTriggered(e, v) \/ SustainClear(e, v)
            /\ job' = [job EXCEPT ![e] = v]
            /\ todo' = [todo EXCEPT ![e] = @ \ {v}]
    BY <1>3 DEF Sustain
  <2>2. v \in Verdict
    BY <2>1 DEF TypeOK
  <2>3. NotSeen \in Ages /\ 0 \in Ages
    BY RulesAssumption DEF NotSeen, Ages
  <2>4. /\ sustained' \in [Rules -> [Agents -> Ages]]
        /\ firstSeen' \in [Evaluators -> Ages]
        /\ pc' \in [Evaluators -> Locations]
        /\ pc'[e] \in {"duration", "lookup"}
        /\ \A f \in Evaluators \ {e} : pc'[f] = pc[f]
    <3>1. v.rule \in Rules /\ v.agent \in Agents
        BY <2>2 DEF Verdict
    <3>2. CASE SustainTriggered(e, v)
      <4> DEFINE since == IF sustained[v.rule][v.agent] = NotSeen
                          THEN 0 ELSE sustained[v.rule][v.agent]
      <4>1. since \in Ages
        BY <2>3, <3>1 DEF TypeOK
      <4>2. /\ sustained' = [sustained EXCEPT ![v.rule][v.agent] = since]
            /\ firstSeen' = [firstSeen EXCEPT ![e] = since]
            /\ pc' = [pc EXCEPT ![e] = "duration"]
        BY <3>2 DEF SustainTriggered
      <4> HIDE DEF since
      <4> QED BY <3>1, <4>1, <4>2 DEF TypeOK, Locations
    <3>3. CASE SustainClear(e, v)
        BY <2>3, <3>1, <3>3 DEF SustainClear, TypeOK, Locations
    <3> QED BY <2>1, <3>2, <3>3
  <2> QED BY <1>3, <2>1, <2>2, <2>4
    DEF Sustain, TypeOK, Located, Processing, Holding, tableVars, boundVars
<1>4. ASSUME NEW e \in Evaluators, CheckDuration(e) PROVE TypeInv'
  <2>1. NotSeen \in Ages
    BY RulesAssumption DEF NotSeen, Ages
  <2>2. CASE TooEarly(job[e], firstSeen[e])
    BY <1>4, <2>1, <2>2, NextRuleType
    DEF CheckDuration, TypeOK, tableVars, boundVars
  <2>3. CASE ~TooEarly(job[e], firstSeen[e])
    BY <1>4, <2>1, <2>3
    DEF CheckDuration, TypeOK, Located, Locations, Processing, Holding,
        tableVars, boundVars
  <2> QED BY <2>2, <2>3
<1>5. ASSUME NEW e \in Evaluators, Lookup(e) PROVE TypeInv'
  <2>1. PICK found \in LookupResults(job[e]) :
         \/ /\ job[e].triggered /\ found = None
            /\ pc' = [pc EXCEPT ![e] = "create"]
            /\ UNCHANGED <<job, held>>
         \/ /\ ~job[e].triggered /\ found # None
            /\ pc' = [pc EXCEPT ![e] = "resolve"]
            /\ held' = [held EXCEPT ![e] = found]
            /\ UNCHANGED job
         \/ NextRule(e, todo[e])
    BY <1>5 DEF Lookup
  <2>2. found \in AlertIds \cup {None}
    BY DEF LookupResults, ActiveFor
  <2>3. CASE NextRule(e, todo[e])
    BY <1>5, <2>3, NextRuleType DEF Lookup, TypeOK, tableVars, boundVars
  <2>4. CASE /\ job[e].triggered
             /\ pc' = [pc EXCEPT ![e] = "create"]
             /\ UNCHANGED <<job, held>>
    BY <1>5, <2>4 DEF Lookup, TypeOK, Located, Locations, Processing, Holding,
                      tableVars, boundVars
  <2>5. CASE /\ ~job[e].triggered /\ found # None
             /\ pc' = [pc EXCEPT ![e] = "resolve"]
             /\ held' = [held EXCEPT ![e] = found]
             /\ UNCHANGED job
    <3>1. found \in AlertIds BY <2>2, <2>5
    <3> QED BY <1>5, <2>5, <3>1
        DEF Lookup, TypeOK, Located, Locations, Processing, Holding,
            tableVars, boundVars
  <2> QED BY <2>1, <2>3, <2>4, <2>5
<1>6. ASSUME NEW e \in Evaluators, CreateFails(e) PROVE TypeInv'
    BY <1>6, NextRuleType DEF CreateFails, TypeOK, tableVars, boundVars
<1>7. ASSUME NEW e \in Evaluators, Create(e) PROVE TypeInv'
  <2>1. job[e] \in Verdict
    BY <1>7 DEF Create, Located, Processing
  <2>2. alerts' \in [AlertIds -> Row]
    BY <1>7, <2>1, RowType DEF Create, TypeOK
  <2>3. CASE NextRule(e, todo[e])
    BY <1>7, <2>2, <2>3, NextRuleType DEF Create, TypeOK, boundVars
  <2>4. CASE ~NextRule(e, todo[e])
    <3>1. PICK i \in AlertIds : /\ pc' = [pc EXCEPT ![e] = "publish"]
                                /\ held' = [held EXCEPT ![e] = i]
                                /\ UNCHANGED job
        BY <1>7, <2>4 DEF Create, Fresh
    <3> QED BY <1>7, <2>1, <2>2, <3>1
        DEF Create, TypeOK, Located, Locations, Processing, Holding, boundVars
  <2> QED BY <2>3, <2>4
<1>8. ASSUME NEW e \in Evaluators, ResolveFails(e) PROVE TypeInv'
    BY <1>8, NextRuleType DEF ResolveFails, TypeOK, tableVars, boundVars
<1>9. ASSUME NEW e \in Evaluators, Resolve(e) PROVE TypeInv'
  <2>1. held[e] \in AlertIds
    BY <1>9 DEF Resolve, Located, Holding
  <2>2. alerts' \in [AlertIds -> Row]
    BY <1>9, <2>1, RowType DEF Resolve, TypeOK
  <2>3. CASE NextRule(e, todo[e])
    BY <1>9, <2>2, <2>3, NextRuleType DEF Resolve, TypeOK, boundVars
  <2>4. CASE ~NextRule(e, todo[e])
    BY <1>9, <2>1, <2>2, <2>4
    DEF Resolve, TypeOK, Located, Locations, Processing, Holding, boundVars
  <2> QED BY <2>3, <2>4
<1>10. ASSUME NEW e \in Evaluators, Publish(e) PROVE TypeInv'
  <2>1. published' \in [AlertIds -> Seq(EventTypes)]
    BY <1>10, EventType DEF Publish, TypeOK, Located, Holding
  <2> QED BY <1>10, <2>1
    DEF Publish, TypeOK, Located, Locations, Processing, Holding,
        tableVars, boundVars
<1>11. ASSUME NEW e \in Evaluators, Enqueue(e) PROVE TypeInv'
  <2>1. notified' \in [AlertIds -> Seq(EventTypes)]
    BY <1>11, EventType DEF Enqueue, TypeOK, Located, Holding
  <2> QED BY <1>11, <2>1, NextRuleType DEF Enqueue, TypeOK, tableVars, boundVars
<1>12. ASSUME NEW h \in Requests, NEW i \in AlertIds, Acknowledge(h, i)
       PROVE TypeInv'
    BY <1>12, RowType DEF Acknowledge, TypeOK, Located, evaluatorVars, boundVars
<1>13. ASSUME NEW h \in Requests, AckPublish(h) PROVE TypeInv'
  <2>1. "acknowledged" \in EventTypes BY DEF EventTypes
  <2> QED BY <1>13, <2>1
    DEF AckPublish, TypeOK, Located, tableVars, evaluatorVars, boundVars
<1>14. ASSUME NEW r \in Rules, DeleteRule(r) PROVE TypeInv'
  <2>1. rules' \in [Rules -> RuleConfigs \cup {None}] /\ edits' \in 0 .. MaxEdits
    BY <1>14, EditType DEF DeleteRule
  <2>2. alerts' \in [AlertIds -> Row]
    <3>1. ASSUME NEW i \in AlertIds
          PROVE  [alerts[i] EXCEPT !.present = @ /\ alerts[i].rule # r] \in Row
      <4>1. alerts[i] \in Row BY DEF TypeOK
      <4>2. (alerts[i].present /\ alerts[i].rule # r) \in BOOLEAN OBVIOUS
      <4> QED BY <4>1, <4>2 DEF Row
    <3> QED BY <1>14, <3>1 DEF DeleteRule
  <2> QED BY <1>14, <2>1, <2>2
    DEF DeleteRule, EditRule, TypeOK, Located, evaluatorVars
<1>15. ASSUME NEW r \in Rules, NEW c \in RuleConfigs,
              CreateRule(r, c) \/ UpdateRule(r, c)
       PROVE TypeInv'
  <2>1. EditRule(r, c) /\ UNCHANGED alerts
    BY <1>15 DEF CreateRule, UpdateRule
  <2>2. rules' \in [Rules -> RuleConfigs \cup {None}] /\ edits' \in 0 .. MaxEdits
    BY <2>1, EditType
  <2> QED BY <2>1, <2>2 DEF EditRule, TypeOK, Located, evaluatorVars
<1>16. ASSUME NEW a \in Agents, Measure(a) PROVE TypeInv'
    BY <1>16 DEF Measure, TypeOK, Located, tableVars, evaluatorVars, boundVars
<1>17. CASE Tick
    BY <1>17, OlderType DEF Tick, TypeOK, Located, tableVars, boundVars
<1>18. CASE Restart
  <2>1. NotSeen \in Ages BY RulesAssumption DEF NotSeen, Ages
  <2>2. rules' \in [Rules -> RuleConfigs \cup {None}]
    BY <1>18, SeededType DEF Restart, TypeOK
  <2>3. restarts' \in 0 .. MaxRestarts
    BY <1>18, BoundsAssumption DEF Restart, TypeOK
  <2> QED BY <1>18, <2>1, <2>2, <2>3
    DEF Restart, TypeOK, Located, Locations, Processing, Holding, AllIdle, NoneHeld, NoVerdicts,
        NoneSeen, NoneAcking, NoSustained
<1>19. CASE UNCHANGED vars
    BY <1>19 DEF vars, TypeOK, Located, tableVars, evaluatorVars, boundVars
<1> QED
    BY <1>1, <1>2, <1>3, <1>4, <1>5, <1>6, <1>7, <1>8, <1>9, <1>10, <1>11,
       <1>12, <1>13, <1>14, <1>15, <1>16, <1>17, <1>18, <1>19
    DEF Next, Evaluate

(* Every variable keeps its type, whatever fails and in whatever order the *)
(* goroutines, requests and restarts run.                                  *)
THEOREM TypeCorrect == Spec => []TypeOK
<1>1. Spec => []TypeInv
    BY TypeInvInit, TypeInvStep, PTL DEF Spec
<1> QED BY <1>1, PTL DEF TypeInv

----------------------------------------------------------------------------
(* Announcements.  A committed transition has at most one owner, the       *)
(* goroutine or request that committed it, until it is announced.          *)

Announcing(e) == pc[e] \in {"publish", "enqueue"}

RowsConsistent ==
    \A i \in AlertIds :
        /\ alerts[i].status \in {"none", "firing"} => ~alerts[i].acked
        /\ alerts[i].status = "acknowledged" => alerts[i].acked

AnnouncedReached ==
    \A i \in AlertIds, t \in EventTypes :
        t \in Range(published[i]) \cup Range(notified[i]) => Reached(i, t)

EvaluatorOwns ==
    \A e \in Evaluators : Announcing(e) =>
        /\ Reached(held[e], EventOf(job[e]))
        /\ EventOf(job[e]) \notin Range(notified[held[e]])
        /\ pc[e] = "publish" => EventOf(job[e]) \notin Range(published[held[e]])

OneOwner ==
    \A e, f \in Evaluators : Announcing(e) /\ Announcing(f) /\ e # f =>
        held[e] # held[f] \/ EventOf(job[e]) # EventOf(job[f])

RequestOwns ==
    \A h \in Requests : acking[h] # None =>
        /\ alerts[acking[h]].acked
        /\ "acknowledged" \notin Range(published[acking[h]])
        /\ \A g \in Requests \ {h} : acking[g] # acking[h]

OwnershipInv ==
    /\ TypeInv
    /\ RowsConsistent
    /\ AnnouncedReached
    /\ EvaluatorOwns
    /\ OneOwner
    /\ RequestOwns
    /\ AnnouncedOnce

(* Appending an announcement that was not there.                           *)
LEMMA AppendOnce ==
    ASSUME NEW s \in Seq(EventTypes), NEW t \in EventTypes
    PROVE  /\ Range(Append(s, t)) = Range(s) \cup {t}
           /\ IsInjective(s) /\ t \notin Range(s) => IsInjective(Append(s, t))
<1>1. /\ Append(s, t) \in Seq(EventTypes)
      /\ Len(Append(s, t)) = Len(s) + 1
      /\ DOMAIN s = 1 .. Len(s) /\ DOMAIN Append(s, t) = 1 .. Len(s) + 1
      /\ Append(s, t)[Len(s) + 1] = t
      /\ \A k \in 1 .. Len(s) : Append(s, t)[k] = s[k]
      /\ Len(s) \in Nat
    OBVIOUS
<1>2. Range(Append(s, t)) = Range(s) \cup {t}
    BY <1>1 DEF Range
<1>3. ASSUME IsInjective(s), t \notin Range(s) PROVE IsInjective(Append(s, t))
    BY <1>1, <1>3 DEF IsInjective, Range
<1> QED BY <1>2, <1>3

(* At the start nothing was reached, announced or owned.                   *)
LEMMA OwnershipInit == Init => OwnershipInv
<1> SUFFICES ASSUME Init PROVE OwnershipInv OBVIOUS
<1>1. TypeInv BY TypeInvInit
<1>2. \A i \in AlertIds : /\ alerts[i] = NoRow
                          /\ published[i] = <<>> /\ notified[i] = <<>>
    BY DEF Init
<1>3. Range(<<>>) = {} /\ IsInjective(<<>>)
    BY DEF Range, IsInjective
<1>4. RowsConsistent /\ AnnouncedReached /\ AnnouncedOnce
    BY <1>2, <1>3 DEF RowsConsistent, AnnouncedReached, AnnouncedOnce, NoRow
<1>5. EvaluatorOwns /\ OneOwner
    BY DEF Init, AllIdle, EvaluatorOwns, OneOwner, Announcing
<1>6. RequestOwns
    BY DEF Init, NoneAcking, RequestOwns
<1> QED BY <1>1, <1>4, <1>5, <1>6 DEF OwnershipInv

(* A step that commits no transition, announces nothing and starts no      *)
(* announcement.                                                           *)
Quiet ==
    /\ \A i \in AlertIds : /\ alerts'[i].status = alerts[i].status
                           /\ alerts'[i].acked = alerts[i].acked
    /\ UNCHANGED <<published, notified>>
    /\ \A e \in Evaluators : Announcing(e)' =>
            pc'[e] = pc[e] /\ held'[e] = held[e] /\ job'[e] = job[e]
    /\ \A h \in Requests : acking'[h] # None => acking'[h] = acking[h]

(* A quiet step keeps the ownership of every announcement.                 *)
LEMMA QuietStep ==
    ASSUME OwnershipInv, TypeInv', Quiet
    PROVE  OwnershipInv'
<1>1. RowsConsistent'
    BY DEF OwnershipInv, RowsConsistent, Quiet
<1>2. ASSUME NEW i \in AlertIds, NEW t PROVE Reached(i, t)' <=> Reached(i, t)
    BY DEF Quiet, Reached
<1>3. AnnouncedReached' /\ AnnouncedOnce'
    BY <1>2 DEF OwnershipInv, AnnouncedReached, AnnouncedOnce, Quiet
<1>4. ASSUME NEW e \in Evaluators, Announcing(e)'
      PROVE  /\ Announcing(e) /\ held'[e] \in AlertIds
             /\ pc'[e] = pc[e] /\ held'[e] = held[e] /\ job'[e] = job[e]
    BY <1>4 DEF Quiet, Announcing, OwnershipInv, TypeInv, Located, Holding
<1>5. EvaluatorOwns'
    BY <1>2, <1>4 DEF OwnershipInv, EvaluatorOwns, Quiet
<1>6. OneOwner'
    BY <1>4 DEF OwnershipInv, OneOwner
<1>7. RequestOwns'
  <2>1. ASSUME NEW h \in Requests, acking'[h] # None
        PROVE acking'[h] = acking[h] /\ acking[h] \in AlertIds
    BY <2>1 DEF Quiet, OwnershipInv, TypeInv, TypeOK
  <2> QED BY <2>1 DEF Quiet, OwnershipInv, RequestOwns
<1> QED BY <1>1, <1>3, <1>5, <1>6, <1>7 DEF OwnershipInv

(* A turn of the loop ends an announcement or leaves it alone.             *)
LEMMA NextRuleQuiet ==
    ASSUME TypeInv, NEW e \in Evaluators, NextRule(e, todo[e])
    PROVE  /\ ~Announcing(e)'
           /\ \A f \in Evaluators \ {e} :
                pc'[f] = pc[f] /\ held'[f] = held[f] /\ job'[f] = job[f]
BY DEF NextRule, Announcing, TypeInv, TypeOK

(* Every action that does not write a row's status, publish or enqueue is  *)
(* quiet; so are the cascade of a rule deletion and a restart.             *)
LEMMA QuietActions ==
    ASSUME OwnershipInv,
           \/ \E e \in Evaluators :
                \/ \E a \in Agents : Ingest(e, a)
                \/ LoadRules(e) \/ Sustain(e) \/ CheckDuration(e) \/ Lookup(e)
                \/ CreateFails(e) \/ ResolveFails(e)
           \/ \E r \in Rules : DeleteRule(r)
           \/ \E r \in Rules, c \in RuleConfigs : CreateRule(r, c) \/ UpdateRule(r, c)
           \/ \E a \in Agents : Measure(a)
           \/ Tick
           \/ Restart
           \/ UNCHANGED vars
    PROVE  Quiet
<1> USE DEF OwnershipInv, TypeInv
<1>1. ASSUME NEW e \in Evaluators, NEW a \in Agents, Ingest(e, a) PROVE Quiet
    BY <1>1 DEF Ingest, Quiet, Announcing, TypeOK, tableVars
<1>2. ASSUME NEW e \in Evaluators, LoadRules(e) PROVE Quiet
    BY <1>2 DEF LoadRules, Quiet, Announcing, TypeOK, tableVars
<1>3. ASSUME NEW e \in Evaluators, Sustain(e) PROVE Quiet
  <2>1. /\ ~Announcing(e)'
        /\ \A f \in Evaluators \ {e} : pc'[f] = pc[f] /\ job'[f] = job[f]
    BY <1>3 DEF Sustain, SustainTriggered, SustainClear, Announcing, TypeOK
  <2> QED BY <1>3, <2>1 DEF Sustain, Quiet, Announcing, tableVars
<1>4. ASSUME NEW e \in Evaluators, CheckDuration(e) PROVE Quiet
  <2>1. /\ ~Announcing(e)'
        /\ \A f \in Evaluators \ {e} :
                pc'[f] = pc[f] /\ held'[f] = held[f] /\ job'[f] = job[f]
    BY <1>4, NextRuleQuiet DEF CheckDuration, Announcing, TypeOK
  <2> QED BY <1>4, <2>1 DEF CheckDuration, Quiet, Announcing, tableVars
<1>5. ASSUME NEW e \in Evaluators, Lookup(e) PROVE Quiet
  <2>1. /\ ~Announcing(e)'
        /\ \A f \in Evaluators \ {e} :
                pc'[f] = pc[f] /\ held'[f] = held[f] /\ job'[f] = job[f]
    BY <1>5, NextRuleQuiet DEF Lookup, Announcing, TypeOK
  <2> QED BY <1>5, <2>1 DEF Lookup, Quiet, Announcing, tableVars
<1>6. ASSUME NEW e \in Evaluators, CreateFails(e) \/ ResolveFails(e) PROVE Quiet
    BY <1>6, NextRuleQuiet
    DEF CreateFails, ResolveFails, Quiet, Announcing, tableVars
<1>7. ASSUME NEW r \in Rules, DeleteRule(r) PROVE Quiet
    BY <1>7 DEF DeleteRule, EditRule, Quiet, Announcing, TypeOK, Row, evaluatorVars
<1>8. ASSUME NEW r \in Rules, NEW c \in RuleConfigs,
             CreateRule(r, c) \/ UpdateRule(r, c)
      PROVE Quiet
    BY <1>8 DEF CreateRule, UpdateRule, EditRule, Quiet, Announcing, evaluatorVars
<1>9. CASE (\E a \in Agents : Measure(a)) \/ Tick
    BY <1>9 DEF Measure, Tick, Quiet, Announcing, tableVars, evaluatorVars
<1>10. CASE Restart
    BY <1>10 DEF Restart, Quiet, Announcing, AllIdle, NoneAcking
<1>11. CASE UNCHANGED vars
    BY <1>11 DEF vars, Quiet, Announcing, tableVars, evaluatorVars
<1> QED BY <1>1, <1>2, <1>3, <1>4, <1>5, <1>6, <1>7, <1>8, <1>9, <1>10, <1>11

(* A transition that commits reaches something new, which nobody announces *)
(* yet, and takes nothing back.                                            *)
LEMMA OwnershipCreate ==
    ASSUME OwnershipInv, TypeInv', NEW e \in Evaluators, Create(e)
    PROVE  OwnershipInv'
<1> USE DEF OwnershipInv
<1>1. PICK i \in AlertIds :
        /\ alerts[i].status = "none"
        /\ alerts' = [alerts EXCEPT ![i] = FiringRow(job[e])]
        /\ \/ /\ pc' = [pc EXCEPT ![e] = "publish"]
              /\ held' = [held EXCEPT ![e] = i]
              /\ UNCHANGED job
           \/ NextRule(e, todo[e])
    BY DEF Create, Fresh
<1>2. /\ alerts'[i].status = "firing" /\ ~alerts'[i].acked
      /\ \A k \in AlertIds \ {i} : alerts'[k] = alerts[k]
    BY <1>1 DEF FiringRow, TypeInv, TypeOK
<1>3. /\ UNCHANGED <<published, notified, acking>>
      /\ pc[e] = "create" /\ job[e].triggered
    BY DEF Create, TypeInv, Located
<1>4. \A t : ~Reached(i, t)
    BY <1>1 DEF Reached, RowsConsistent
<1>5. \A k \in AlertIds, t \in EventTypes : Reached(k, t) => Reached(k, t)'
    BY <1>2, <1>4 DEF Reached
<1>6. RowsConsistent' /\ AnnouncedReached' /\ AnnouncedOnce'
    BY <1>2, <1>3, <1>5 DEF RowsConsistent, AnnouncedReached, AnnouncedOnce
<1>7. \A f \in Evaluators \ {e} :
        /\ pc'[f] = pc[f] /\ held'[f] = held[f] /\ job'[f] = job[f]
        /\ Announcing(f) => held[f] \in AlertIds \ {i}
  <2>1. \A f \in Evaluators \ {e} :
            pc'[f] = pc[f] /\ held'[f] = held[f] /\ job'[f] = job[f]
    BY <1>1, NextRuleQuiet DEF TypeInv, TypeOK
  <2>2. \A f \in Evaluators : Announcing(f) => held[f] \in AlertIds \ {i}
    BY <1>4 DEF TypeInv, Located, Announcing, Holding, EvaluatorOwns
  <2> QED BY <2>1, <2>2
<1>8. Announcing(e)' => /\ pc'[e] = "publish" /\ held'[e] = i /\ job'[e] = job[e]
                        /\ EventOf(job[e]) = "firing"
    BY <1>1, <1>3, NextRuleQuiet DEF TypeInv, TypeOK, EventOf
<1>9. EvaluatorOwns'
  <2>2. ASSUME Announcing(e)' PROVE /\ Reached(i, "firing")'
                                    /\ "firing" \notin Range(published[i])
                                    /\ "firing" \notin Range(notified[i])
    BY <1>2, <1>4 DEF Reached, AnnouncedReached, EventTypes
  <2>3. ASSUME NEW f \in Evaluators, Announcing(f)'
        PROVE  /\ Reached(held[f], EventOf(job[f]))'
               /\ EventOf(job'[f]) \notin Range(notified'[held'[f]])
               /\ pc'[f] = "publish" => EventOf(job'[f]) \notin Range(published'[held'[f]])
    <3>1. CASE f = e
      BY <1>3, <1>8, <2>2, <2>3, <3>1 DEF Reached
    <3>2. CASE f # e
      <4>1. /\ Announcing(f) /\ pc'[f] = pc[f]
            /\ held'[f] = held[f] /\ job'[f] = job[f] /\ held[f] \in AlertIds \ {i}
        BY <1>7, <2>3, <3>2 DEF Announcing
      <4>2. /\ Reached(held[f], EventOf(job[f]))
            /\ EventOf(job[f]) \notin Range(notified[held[f]])
            /\ pc[f] = "publish" => EventOf(job[f]) \notin Range(published[held[f]])
        BY <4>1 DEF EvaluatorOwns
      <4>3. alerts'[held[f]] = alerts[held[f]]
        BY <1>2, <4>1
      <4> QED BY <1>3, <4>1, <4>2, <4>3 DEF Reached
    <3> QED BY <3>1, <3>2
  <2> QED BY <2>3 DEF EvaluatorOwns
<1>10. OneOwner'
  <2>1. ASSUME NEW f \in Evaluators, NEW g \in Evaluators, f # g,
               Announcing(f)', Announcing(g)'
        PROVE  held'[f] # held'[g] \/ EventOf(job'[f]) # EventOf(job'[g])
    <3>1. CASE f = e \/ g = e
      BY <1>7, <1>8, <2>1, <3>1 DEF Announcing
    <3>2. CASE f # e /\ g # e
      BY <1>7, <2>1, <3>2 DEF Announcing, OneOwner
    <3> QED BY <3>1, <3>2
  <2> QED BY <2>1 DEF OneOwner
<1>11. RequestOwns'
  <2>1. ASSUME NEW h \in Requests, acking[h] # None
        PROVE  acking[h] \in AlertIds \ {i}
    BY <1>4, <2>1 DEF TypeInv, TypeOK, RequestOwns, Reached
  <2> QED BY <1>2, <1>3, <2>1 DEF RequestOwns
<1> QED BY <1>6, <1>9, <1>10, <1>11

(* Resolve: the WHERE clause makes one goroutine the owner, and the alert  *)
(* was not resolved before, so nobody else owns that transition.           *)
LEMMA OwnershipResolve ==
    ASSUME OwnershipInv, TypeInv', NEW e \in Evaluators, Resolve(e)
    PROVE  OwnershipInv'
<1> USE DEF OwnershipInv
<1>1. PICK i \in AlertIds :
      /\ i = held[e]
      /\ alerts[i].status \in {"firing", "acknowledged"}
      /\ alerts' = [alerts EXCEPT ![i] = ResolvedRow(@)]
      /\ \/ pc' = [pc EXCEPT ![e] = "publish"] /\ UNCHANGED <<job, held>>
         \/ NextRule(e, todo[e])
    BY DEF Resolve, Resolvable, Active, TypeInv, Located, Holding
<1>2. /\ alerts'[i].status = "resolved" /\ alerts'[i].acked = alerts[i].acked
      /\ \A k \in AlertIds \ {i} : alerts'[k] = alerts[k]
    BY <1>1 DEF ResolvedRow, TypeInv, TypeOK, Row
<1>3. /\ UNCHANGED <<published, notified, acking>>
      /\ pc[e] = "resolve" /\ ~job[e].triggered
    BY DEF Resolve, TypeInv, Located
<1>4. ~Reached(i, "resolved")
    BY <1>1 DEF Reached
<1>5. \A k \in AlertIds, t \in EventTypes : Reached(k, t) => Reached(k, t)'
    BY <1>1, <1>2 DEF Reached, EventTypes
<1>6. RowsConsistent' /\ AnnouncedReached' /\ AnnouncedOnce'
    BY <1>2, <1>3, <1>5 DEF RowsConsistent, AnnouncedReached, AnnouncedOnce
<1>7. \A f \in Evaluators \ {e} :
        pc'[f] = pc[f] /\ held'[f] = held[f] /\ job'[f] = job[f]
    BY <1>1, NextRuleQuiet DEF TypeInv, TypeOK
<1>8. \A f \in Evaluators : Announcing(f) =>
        /\ held[f] \in AlertIds
        /\ held[f] # i \/ EventOf(job[f]) # "resolved"
    BY <1>4 DEF TypeInv, Located, Announcing, Holding, EvaluatorOwns
<1>9. Announcing(e)' => /\ pc'[e] = "publish" /\ held'[e] = i /\ job'[e] = job[e]
                        /\ EventOf(job[e]) = "resolved"
    BY <1>1, <1>3, NextRuleQuiet DEF TypeInv, TypeOK, EventOf
<1>10. EvaluatorOwns'
  <2>1. /\ Reached(i, "resolved")'
        /\ "resolved" \notin Range(published[i])
        /\ "resolved" \notin Range(notified[i])
    BY <1>1, <1>2, <1>4 DEF Reached, AnnouncedReached, EventTypes
  <2>2. ASSUME NEW f \in Evaluators, Announcing(f)'
        PROVE  /\ Reached(held[f], EventOf(job[f]))'
               /\ EventOf(job'[f]) \notin Range(notified'[held'[f]])
               /\ pc'[f] = "publish" => EventOf(job'[f]) \notin Range(published'[held'[f]])
    <3>1. CASE f = e
      BY <1>3, <1>9, <2>1, <2>2, <3>1 DEF Reached
    <3>2. CASE f # e
      <4>1. /\ Announcing(f) /\ pc'[f] = pc[f]
            /\ held'[f] = held[f] /\ job'[f] = job[f] /\ held[f] \in AlertIds
        BY <1>7, <1>8, <2>2, <3>2 DEF Announcing
      <4>2. /\ Reached(held[f], EventOf(job[f]))
            /\ EventOf(job[f]) \notin Range(notified[held[f]])
            /\ pc[f] = "publish" => EventOf(job[f]) \notin Range(published[held[f]])
        BY <4>1 DEF EvaluatorOwns
      <4>3. Reached(held[f], EventOf(job[f]))'
        BY <1>5, <4>1, <4>2, EventType DEF Reached
      <4> QED BY <1>3, <4>1, <4>2, <4>3 DEF Reached
    <3> QED BY <3>1, <3>2
  <2> QED BY <2>2 DEF EvaluatorOwns
<1>11. OneOwner'
  <2>1. ASSUME NEW f \in Evaluators, NEW g \in Evaluators, f # g,
               Announcing(f)', Announcing(g)'
        PROVE  held'[f] # held'[g] \/ EventOf(job'[f]) # EventOf(job'[g])
    <3>1. CASE f = e \/ g = e
      BY <1>7, <1>8, <1>9, <2>1, <3>1 DEF Announcing
    <3>2. CASE f # e /\ g # e
      BY <1>7, <2>1, <3>2 DEF Announcing, OneOwner
    <3> QED BY <3>1, <3>2
  <2> QED BY <2>1 DEF OneOwner
<1>12. RequestOwns'
  <2>1. ASSUME NEW h \in Requests, acking[h] # None
        PROVE  acking[h] \in AlertIds /\ alerts'[acking[h]].acked
    BY <1>2, <2>1 DEF TypeInv, TypeOK, RequestOwns
  <2> QED BY <1>3, <2>1 DEF RequestOwns
<1> QED BY <1>6, <1>10, <1>11, <1>12

(* Acknowledge: the same for the request that finds the alert firing.      *)
LEMMA OwnershipAcknowledge ==
    ASSUME OwnershipInv, TypeInv', NEW h \in Requests, NEW i \in AlertIds,
           Acknowledge(h, i)
    PROVE  OwnershipInv'
<1> USE DEF OwnershipInv
<1>1. /\ alerts[i].status = "firing" /\ ~alerts[i].acked
      /\ alerts'[i].status = "acknowledged" /\ alerts'[i].acked
      /\ \A k \in AlertIds \ {i} : alerts'[k] = alerts[k]
  <2>1. alerts[i] \in Row /\ alerts[i].status = "firing" /\ ~alerts[i].acked
    BY DEF Acknowledge, Ackable, TypeInv, TypeOK, RowsConsistent
  <2>2. AckedRow(alerts[i]).status = "acknowledged" /\ AckedRow(alerts[i]).acked
    BY <2>1 DEF AckedRow, Row
  <2>3. alerts' = [alerts EXCEPT ![i] = AckedRow(alerts[i])]
    BY DEF Acknowledge
  <2> QED BY <2>1, <2>2, <2>3 DEF TypeInv, TypeOK
<1>2. /\ UNCHANGED <<published, notified, pc, job, held>>
      /\ \A g \in Requests \ {h} : acking'[g] = acking[g]
      /\ acking'[h] \in {None, i}
    BY DEF Acknowledge, evaluatorVars, TypeInv, TypeOK
<1>3. \A k \in AlertIds, t \in EventTypes : Reached(k, t) => Reached(k, t)'
    BY <1>1 DEF Reached, EventTypes
<1>4. RowsConsistent' /\ AnnouncedReached' /\ AnnouncedOnce'
    BY <1>1, <1>2, <1>3 DEF RowsConsistent, AnnouncedReached, AnnouncedOnce
<1>5. EvaluatorOwns' /\ OneOwner'
  <2>1. ASSUME NEW e \in Evaluators, Announcing(e)
        PROVE  Reached(held[e], EventOf(job[e]))'
    <3>1. held[e] \in AlertIds /\ Reached(held[e], EventOf(job[e]))
      BY <2>1 DEF TypeInv, Located, Announcing, Holding, EvaluatorOwns
    <3> QED BY <1>2, <1>3, <3>1, EventType DEF Reached
  <2> QED BY <1>2, <2>1 DEF EvaluatorOwns, OneOwner, Announcing
<1>6. RequestOwns'
  <2>1. "acknowledged" \notin Range(published[i])
    BY <1>1 DEF AnnouncedReached, Reached, EventTypes
  <2>2. \A g \in Requests : acking[g] # None => acking[g] \in AlertIds \ {i}
    BY <1>1 DEF TypeInv, TypeOK, RequestOwns
  <2> QED BY <1>1, <1>2, <2>1, <2>2 DEF RequestOwns
<1> QED BY <1>4, <1>5, <1>6

(* An announcement is made by the owner of its transition, who gives the   *)
(* ownership up.                                                           *)
LEMMA OwnershipPublish ==
    ASSUME OwnershipInv, TypeInv', NEW e \in Evaluators, Publish(e)
    PROVE  OwnershipInv'
<1> USE DEF OwnershipInv
<1> DEFINE i == held[e]
           t == EventOf(job[e])
<1>1. /\ i \in AlertIds /\ t \in EventTypes
      /\ Reached(i, t) /\ t \notin Range(published[i])
      /\ t \notin Range(notified[i])
    BY EventType DEF Publish, TypeInv, Located, Holding, EvaluatorOwns, Announcing
<1>2. /\ Range(published'[i]) = Range(published[i]) \cup {t}
      /\ IsInjective(published'[i])
      /\ \A k \in AlertIds \ {i} : published'[k] = published[k]
    BY <1>1, AppendOnce DEF Publish, TypeInv, TypeOK, AnnouncedOnce
<1>3. /\ UNCHANGED <<alerts, notified, acking, job, held>>
      /\ pc[e] = "publish" /\ pc' = [pc EXCEPT ![e] = "enqueue"]
    BY DEF Publish, tableVars
<1>4. RowsConsistent' /\ AnnouncedReached' /\ AnnouncedOnce'
    BY <1>1, <1>2, <1>3
    DEF RowsConsistent, AnnouncedReached, AnnouncedOnce, Reached
<1>5. \A f \in Evaluators : Announcing(f)' <=> Announcing(f)
    BY <1>3 DEF Announcing, TypeInv, TypeOK
<1>6. ASSUME NEW f \in Evaluators, Announcing(f)
      PROVE  /\ Reached(held[f], EventOf(job[f]))'
             /\ EventOf(job[f]) \notin Range(notified[held[f]])
             /\ pc'[f] = "publish" => EventOf(job[f]) \notin Range(published'[held[f]])
  <2>1. /\ Reached(held[f], EventOf(job[f])) /\ held[f] \in AlertIds
        /\ EventOf(job[f]) \notin Range(notified[held[f]])
        /\ pc[f] = "publish" => EventOf(job[f]) \notin Range(published[held[f]])
        /\ f # e => held[f] # i \/ EventOf(job[f]) # t
    BY <1>3, <1>6
    DEF EvaluatorOwns, OneOwner, TypeInv, Located, Announcing, Holding
  <2>2. pc'[f] = "publish" => f # e /\ pc[f] = "publish"
    BY <1>3 DEF TypeInv, TypeOK
  <2> QED BY <1>2, <1>3, <2>1, <2>2 DEF Reached
<1>7. EvaluatorOwns' /\ OneOwner'
    BY <1>3, <1>5, <1>6 DEF EvaluatorOwns, OneOwner
<1>8. RequestOwns'
  <2>1. t # "acknowledged" BY DEF EventOf
  <2>2. \A h \in Requests : acking[h] # None => acking[h] \in AlertIds
    BY DEF TypeInv, TypeOK
  <2>3. \A k \in AlertIds : "acknowledged" \in Range(published'[k]) =>
                            "acknowledged" \in Range(published[k])
    BY <1>2, <2>1
  <2> QED BY <1>3, <2>2, <2>3 DEF RequestOwns
<1> QED BY <1>4, <1>7, <1>8

(* Enqueue: the owner announces the transition to the channels, where it   *)
(* was not announced yet, and gives it up.                                 *)
LEMMA OwnershipEnqueue ==
    ASSUME OwnershipInv, TypeInv', NEW e \in Evaluators, Enqueue(e)
    PROVE  OwnershipInv'
<1> USE DEF OwnershipInv
<1> DEFINE i == held[e]
           t == EventOf(job[e])
<1>1. /\ i \in AlertIds /\ t \in EventTypes /\ Announcing(e)
      /\ Reached(i, t) /\ t \notin Range(notified[i])
    BY EventType DEF Enqueue, TypeInv, Located, Holding, EvaluatorOwns, Announcing
<1>2. /\ Range(notified'[i]) = Range(notified[i]) \cup {t}
      /\ IsInjective(notified'[i])
      /\ \A k \in AlertIds \ {i} : notified'[k] = notified[k]
    BY <1>1, AppendOnce DEF Enqueue, TypeInv, TypeOK, AnnouncedOnce
<1>3. UNCHANGED <<alerts, published, acking>>
    BY DEF Enqueue, tableVars
<1>4. RowsConsistent' /\ AnnouncedReached' /\ AnnouncedOnce' /\ RequestOwns'
    BY <1>1, <1>2, <1>3
    DEF RowsConsistent, AnnouncedReached, AnnouncedOnce, Reached, RequestOwns
<1>5. ASSUME NEW f \in Evaluators, Announcing(f)'
      PROVE  /\ f # e /\ Announcing(f)
             /\ pc'[f] = pc[f] /\ held'[f] = held[f] /\ job'[f] = job[f]
    BY <1>5, NextRuleQuiet DEF Enqueue, Announcing
<1>6. ASSUME NEW f \in Evaluators, Announcing(f)'
      PROVE  /\ Reached(held[f], EventOf(job[f]))'
             /\ EventOf(job[f]) \notin Range(notified'[held[f]])
             /\ pc[f] = "publish" => EventOf(job[f]) \notin Range(published[held[f]])
  <2>1. /\ Reached(held[f], EventOf(job[f])) /\ held[f] \in AlertIds
        /\ EventOf(job[f]) \notin Range(notified[held[f]])
        /\ pc[f] = "publish" => EventOf(job[f]) \notin Range(published[held[f]])
        /\ held[f] # i \/ EventOf(job[f]) # t
    BY <1>1, <1>5, <1>6
    DEF EvaluatorOwns, OneOwner, TypeInv, Located, Announcing, Holding
  <2> QED BY <1>2, <1>3, <1>5, <1>6, <2>1 DEF Reached
<1>7. EvaluatorOwns' /\ OneOwner'
    BY <1>3, <1>5, <1>6 DEF EvaluatorOwns, OneOwner, Reached
<1> QED BY <1>4, <1>7

(* AckPublish: the owning request publishes and gives the transition up.   *)
LEMMA OwnershipAckPublish ==
    ASSUME OwnershipInv, TypeInv', NEW h \in Requests, AckPublish(h)
    PROVE  OwnershipInv'
<1> USE DEF OwnershipInv
<1> DEFINE i == acking[h]
           t == "acknowledged"
<1>1. /\ i \in AlertIds /\ t \in EventTypes
      /\ Reached(i, t) /\ t \notin Range(published[i])
    BY DEF AckPublish, TypeInv, TypeOK, RequestOwns, Reached, EventTypes
<1>2. /\ Range(published'[i]) = Range(published[i]) \cup {t}
      /\ IsInjective(published'[i])
      /\ \A k \in AlertIds \ {i} : published'[k] = published[k]
    BY <1>1, AppendOnce DEF AckPublish, TypeInv, TypeOK, AnnouncedOnce
<1>3. /\ UNCHANGED <<alerts, notified, pc, job, held>>
      /\ acking'[h] = None
      /\ \A g \in Requests \ {h} : acking'[g] = acking[g]
    BY DEF AckPublish, tableVars, evaluatorVars, TypeInv, TypeOK
<1>4. RowsConsistent' /\ AnnouncedReached' /\ AnnouncedOnce'
    BY <1>1, <1>2, <1>3
    DEF RowsConsistent, AnnouncedReached, AnnouncedOnce, Reached
<1>5. EvaluatorOwns' /\ OneOwner'
  <2>1. ASSUME NEW e \in Evaluators, Announcing(e)
        PROVE  held[e] \in AlertIds /\ EventOf(job[e]) # t
    BY <2>1 DEF TypeInv, Located, Announcing, Holding, EventOf
  <2> QED BY <1>2, <1>3, <2>1 DEF EvaluatorOwns, OneOwner, Announcing, Reached
<1>6. RequestOwns'
  <2>1. \A g \in Requests \ {h} : acking[g] # None =>
            acking[g] \in AlertIds \ {i}
    BY <1>1 DEF AckPublish, RequestOwns, TypeInv, TypeOK
  <2> QED BY <1>2, <1>3, <2>1 DEF RequestOwns
<1> QED BY <1>4, <1>5, <1>6

(* OwnershipInv is inductive.                                              *)
LEMMA OwnershipStep == OwnershipInv /\ [Next]_vars => OwnershipInv'
<1> SUFFICES ASSUME OwnershipInv, [Next]_vars PROVE OwnershipInv' OBVIOUS
<1>1. TypeInv'
    BY TypeInvStep DEF OwnershipInv
<1>2. ASSUME NEW e \in Evaluators,
             Create(e) \/ Resolve(e) \/ Publish(e) \/ Enqueue(e)
      PROVE  OwnershipInv'
    BY <1>1, <1>2, OwnershipCreate, OwnershipResolve, OwnershipPublish,
       OwnershipEnqueue
<1>3. ASSUME NEW h \in Requests,
             AckPublish(h) \/ \E i \in AlertIds : Acknowledge(h, i)
      PROVE  OwnershipInv'
    BY <1>1, <1>3, OwnershipAckPublish, OwnershipAcknowledge
<1>4. ASSUME Quiet PROVE OwnershipInv'
    BY <1>1, <1>4, QuietStep
<1> QED BY <1>2, <1>3, <1>4, QuietActions DEF Next, Evaluate

(* OwnershipInv holds in every state the engine can reach.                 *)
LEMMA OwnershipInvariant == Spec => []OwnershipInv
BY OwnershipInit, OwnershipStep, PTL DEF Spec

(* No transition of an alert is announced twice, to the stream or to the   *)
(* notification channels, however many evaluations and requests race, and  *)
(* whatever fails or restarts in between.                                  *)
THEOREM EachTransitionAnnouncedOnce == Spec => []AnnouncedOnce
BY OwnershipInvariant, PTL DEF OwnershipInv

----------------------------------------------------------------------------
(* Nothing is lost on the way: PublishedOrOwned is inductive together with *)
(* OwnershipInv, as long as no restart takes the owners away.              *)

(* Transition t of alert i is published, or somebody is bound to do it.    *)
AccountedFor(i, t) ==
    \/ t \in Range(published[i])
    \/ \E e \in Evaluators :
            pc[e] = "publish" /\ held[e] = i /\ EventOf(job[e]) = t
    \/ t = "acknowledged" /\ \E h \in Requests : acking[h] = i

(* A step that retracts nothing and lets no owner go before it published.  *)
Handover ==
    /\ \A i \in AlertIds : Range(published[i]) \subseteq Range(published'[i])
    /\ \A e \in Evaluators : pc[e] = "publish" =>
            \/ pc'[e] = "publish" /\ held'[e] = held[e] /\ job'[e] = job[e]
            \/ EventOf(job[e]) \in Range(published'[held[e]])
    /\ \A h \in Requests : acking[h] # None =>
            acking'[h] = acking[h] \/ "acknowledged" \in Range(published'[acking[h]])

(* Such a step leaves every transition accounted for.                      *)
LEMMA HandoverKeepsAccounts ==
    ASSUME Handover, NEW i \in AlertIds, NEW t \in EventTypes, AccountedFor(i, t)
    PROVE  AccountedFor(i, t)'
<1>1. CASE t \in Range(published[i])
    BY <1>1 DEF Handover, AccountedFor
<1>2. CASE \E e \in Evaluators :
                pc[e] = "publish" /\ held[e] = i /\ EventOf(job[e]) = t
  <2>1. PICK e \in Evaluators :
                pc[e] = "publish" /\ held[e] = i /\ EventOf(job[e]) = t
    BY <1>2
  <2>2. \/ pc'[e] = "publish" /\ held'[e] = i /\ EventOf(job'[e]) = t
        \/ t \in Range(published'[i])
    BY <2>1 DEF Handover
  <2> QED BY <2>2 DEF AccountedFor, EventOf
<1>3. CASE t = "acknowledged" /\ \E h \in Requests : acking[h] = i
    BY <1>3, SlotsAssumption DEF Handover, AccountedFor
<1> QED BY <1>1, <1>2, <1>3 DEF AccountedFor

(* A goroutine that is elsewhere is not an owner; the others do not move.  *)
LEMMA ElsewhereHandsOver ==
    ASSUME NEW e \in Evaluators, pc[e] # "publish",
           \A f \in Evaluators \ {e} :
                pc'[f] = pc[f] /\ held'[f] = held[f] /\ job'[f] = job[f],
           UNCHANGED <<published, acking>>
    PROVE  Handover
BY DEF Handover

(* Every step but a restart hands the ownership on or publishes.           *)
LEMMA HandoverStep ==
    ASSUME OwnershipInv, [Next]_vars, ~Restart
    PROVE  Handover
<1> USE DEF OwnershipInv, TypeInv
<1>1. ASSUME NEW e \in Evaluators, NEW a \in Agents, Ingest(e, a) PROVE Handover
    BY <1>1 DEF Ingest, Handover, TypeOK
<1>2. ASSUME NEW e \in Evaluators, LoadRules(e) PROVE Handover
    BY <1>2 DEF LoadRules, Handover, TypeOK
<1>3. ASSUME NEW e \in Evaluators, Sustain(e) PROVE Handover
  <2>1. \A f \in Evaluators \ {e} : pc'[f] = pc[f] /\ job'[f] = job[f]
    BY <1>3 DEF Sustain, SustainTriggered, SustainClear, TypeOK
  <2> QED BY <1>3, <2>1, ElsewhereHandsOver DEF Sustain
<1>4. ASSUME NEW e \in Evaluators, CheckDuration(e) PROVE Handover
  <2>1. \A f \in Evaluators \ {e} :
                pc'[f] = pc[f] /\ held'[f] = held[f] /\ job'[f] = job[f]
    BY <1>4, NextRuleQuiet DEF CheckDuration, TypeOK
  <2> QED BY <1>4, <2>1, ElsewhereHandsOver DEF CheckDuration
<1>5. ASSUME NEW e \in Evaluators, Lookup(e) PROVE Handover
  <2>1. \A f \in Evaluators \ {e} :
                pc'[f] = pc[f] /\ held'[f] = held[f] /\ job'[f] = job[f]
    BY <1>5, NextRuleQuiet DEF Lookup, TypeOK
  <2> QED BY <1>5, <2>1, ElsewhereHandsOver DEF Lookup
<1>6. ASSUME NEW e \in Evaluators, CreateFails(e) \/ ResolveFails(e) \/ Enqueue(e)
      PROVE Handover
  <2>1. pc[e] # "publish" /\ NextRule(e, todo[e]) /\ UNCHANGED <<published, acking>>
    BY <1>6 DEF CreateFails, ResolveFails, Enqueue
  <2> QED BY <2>1, NextRuleQuiet, ElsewhereHandsOver
<1>7. ASSUME NEW e \in Evaluators, Create(e) PROVE Handover
  <2>1. \A f \in Evaluators \ {e} :
                pc'[f] = pc[f] /\ held'[f] = held[f] /\ job'[f] = job[f]
    BY <1>7, NextRuleQuiet DEF Create, TypeOK
  <2> QED BY <1>7, <2>1, ElsewhereHandsOver DEF Create
<1>8. ASSUME NEW e \in Evaluators, Resolve(e) PROVE Handover
  <2>1. \A f \in Evaluators \ {e} :
                pc'[f] = pc[f] /\ held'[f] = held[f] /\ job'[f] = job[f]
    BY <1>8, NextRuleQuiet DEF Resolve, TypeOK
  <2> QED BY <1>8, <2>1, ElsewhereHandsOver DEF Resolve
<1>9. ASSUME NEW e \in Evaluators, Publish(e) PROVE Handover
  <2>1. /\ held[e] \in AlertIds /\ EventOf(job[e]) \in EventTypes
        /\ published[held[e]] \in Seq(EventTypes)
    BY <1>9, EventType DEF Publish, Located, Holding, TypeOK
  <2>2. /\ Range(published'[held[e]]) = Range(published[held[e]]) \cup {EventOf(job[e])}
        /\ \A k \in AlertIds \ {held[e]} : published'[k] = published[k]
    BY <1>9, <2>1, AppendOnce DEF Publish, TypeOK
  <2>3. \A f \in Evaluators \ {e} :
                pc'[f] = pc[f] /\ held'[f] = held[f] /\ job'[f] = job[f]
    BY <1>9 DEF Publish, TypeOK
  <2>4. UNCHANGED acking
    BY <1>9 DEF Publish
  <2> QED BY <2>1, <2>2, <2>3, <2>4 DEF Handover
<1>10. ASSUME NEW h \in Requests, NEW i \in AlertIds, Acknowledge(h, i)
       PROVE Handover
    BY <1>10 DEF Acknowledge, Handover, evaluatorVars, TypeOK
<1>11. ASSUME NEW h \in Requests, AckPublish(h) PROVE Handover
  <2>1. /\ acking[h] \in AlertIds /\ "acknowledged" \in EventTypes
        /\ published[acking[h]] \in Seq(EventTypes)
    BY <1>11 DEF AckPublish, TypeOK, EventTypes
  <2>2. /\ Range(published'[acking[h]]) = Range(published[acking[h]]) \cup {"acknowledged"}
        /\ \A k \in AlertIds \ {acking[h]} : published'[k] = published[k]
    BY <1>11, <2>1, AppendOnce DEF AckPublish, TypeOK
  <2>3. UNCHANGED <<pc, held, job>> /\ \A g \in Requests \ {h} : acking'[g] = acking[g]
    BY <1>11 DEF AckPublish, evaluatorVars, TypeOK
  <2> QED BY <2>1, <2>2, <2>3 DEF Handover
<1>12. ASSUME NEW r \in Rules, \/ DeleteRule(r)
                               \/ \E c \in RuleConfigs : CreateRule(r, c) \/ UpdateRule(r, c)
       PROVE Handover
    BY <1>12 DEF DeleteRule, CreateRule, UpdateRule, EditRule, Handover, evaluatorVars
<1>13. CASE (\E a \in Agents : Measure(a)) \/ Tick \/ UNCHANGED vars
    BY <1>13 DEF Measure, Tick, vars, Handover, tableVars, evaluatorVars
<1> QED BY <1>1, <1>2, <1>3, <1>4, <1>5, <1>6, <1>7, <1>8, <1>9, <1>10, <1>11,
           <1>12, <1>13 DEF Next, Evaluate

Faultless == Faults \cap {"create", "resolve", "ack"} = {}

(* Whoever commits a transition owns it from then on, if the statement     *)
(* does not report an error that did not happen.                           *)
LEMMA CommittedIsOwned ==
    ASSUME OwnershipInv, Faultless, [Next]_vars, NEW i \in AlertIds,
           NEW t \in EventTypes, Reached(i, t)', ~Reached(i, t)
    PROVE  AccountedFor(i, t)'
<1> USE DEF OwnershipInv, TypeInv
<1>1. ASSUME NEW e \in Evaluators, Create(e) PROVE AccountedFor(i, t)'
  <2>1. PICK k \in Fresh :
            /\ alerts' = [alerts EXCEPT ![k] = FiringRow(job[e])]
            /\ pc' = [pc EXCEPT ![e] = "publish"]
            /\ held' = [held EXCEPT ![e] = k]
            /\ UNCHANGED job
    BY <1>1 DEF Create, Faultless
  <2>2. /\ pc'[e] = "publish" /\ held'[e] = k /\ EventOf(job'[e]) = "firing"
        /\ alerts'[k].status = "firing" /\ ~alerts'[k].acked
        /\ \A j \in AlertIds \ {k} : alerts'[j] = alerts[j]
    BY <1>1, <2>1 DEF Create, Located, EventOf, FiringRow, TypeOK, Fresh
  <2>3. i = k /\ t = "firing"
    BY <2>2 DEF Reached
  <2> QED BY <2>2, <2>3 DEF AccountedFor, EventOf
<1>2. ASSUME NEW e \in Evaluators, Resolve(e) PROVE AccountedFor(i, t)'
  <2>1. /\ held[e] \in AlertIds
        /\ alerts[held[e]].status \in {"firing", "acknowledged"}
        /\ alerts' = [alerts EXCEPT ![held[e]] = ResolvedRow(alerts[held[e]])]
        /\ pc' = [pc EXCEPT ![e] = "publish"]
        /\ UNCHANGED <<job, held>>
    BY <1>2 DEF Resolve, Resolvable, Active, Located, Holding, Faultless
  <2>2. alerts[held[e]] \in Row
    BY <2>1 DEF TypeOK
  <2>3. /\ ResolvedRow(alerts[held[e]]).status = "resolved"
        /\ ResolvedRow(alerts[held[e]]).acked = alerts[held[e]].acked
    BY <2>2 DEF ResolvedRow, Row
  <2>4. /\ pc'[e] = "publish" /\ EventOf(job'[e]) = "resolved"
        /\ alerts'[held[e]].status = "resolved"
        /\ alerts'[held[e]].acked = alerts[held[e]].acked
        /\ \A j \in AlertIds \ {held[e]} : alerts'[j] = alerts[j]
    BY <1>2, <2>1, <2>3 DEF Resolve, Located, EventOf, TypeOK
  <2>5. i = held[e] /\ t = "resolved"
    BY <2>1, <2>4 DEF Reached
  <2> QED BY <2>1, <2>4, <2>5 DEF AccountedFor, EventOf
<1>3. ASSUME NEW h \in Requests, NEW k \in AlertIds, Acknowledge(h, k)
      PROVE  AccountedFor(i, t)'
  <2>1. /\ alerts[k].status = "firing"
        /\ alerts' = [alerts EXCEPT ![k] = AckedRow(alerts[k])]
        /\ acking' = [acking EXCEPT ![h] = k]
    BY <1>3 DEF Acknowledge, Ackable, Faultless
  <2>2. alerts[k] \in Row
    BY DEF TypeOK
  <2>3. AckedRow(alerts[k]).status = "acknowledged"
    BY <2>2 DEF AckedRow, Row
  <2>4. /\ acking'[h] = k /\ alerts'[k].status = "acknowledged"
        /\ \A j \in AlertIds \ {k} : alerts'[j] = alerts[j]
    BY <2>1, <2>3 DEF TypeOK
  <2>5. i = k /\ t = "acknowledged"
    BY <2>1, <2>4 DEF Reached
  <2> QED BY <2>4, <2>5 DEF AccountedFor
<1>4. ASSUME NEW e \in Evaluators, Publish(e) \/ Enqueue(e) PROVE FALSE
    BY <1>4 DEF Publish, Enqueue, tableVars, Reached
<1>5. ASSUME NEW h \in Requests, AckPublish(h) PROVE FALSE
    BY <1>5 DEF AckPublish, tableVars, Reached
<1>6. ASSUME Quiet PROVE FALSE
    BY <1>6 DEF Quiet, Reached
<1> QED BY <1>1, <1>2, <1>3, <1>4, <1>5, <1>6, QuietActions DEF Next, Evaluate

(* PublishedOrOwned is preserved from the states of OwnershipInv.          *)
LEMMA PublishedOrOwnedStep ==
    OwnershipInv /\ PublishedOrOwned /\ [Next]_vars => PublishedOrOwned'
<1> SUFFICES ASSUME OwnershipInv, PublishedOrOwned, [Next]_vars, restarts' = 0,
                    Faultless, NEW i \in AlertIds, NEW t \in EventTypes,
                    Reached(i, t)'
             PROVE  AccountedFor(i, t)'
    BY DEF PublishedOrOwned, AccountedFor, Faultless
<1>1. restarts \in Nat
    BY BoundsAssumption DEF OwnershipInv, TypeInv, TypeOK
<1>2. ~Restart
    BY <1>1 DEF Restart
<1>3. restarts = 0
    BY <1>2 DEF Next, Evaluate, vars, boundVars, LoadRules, Sustain, CheckDuration,
        Lookup, CreateFails, Create, ResolveFails, Resolve, Publish, Enqueue, Ingest,
        AckPublish, Acknowledge, DeleteRule, CreateRule, UpdateRule, EditRule,
        Measure, Tick
<1>4. CASE Reached(i, t)
  <2>1. AccountedFor(i, t)
    BY <1>3, <1>4 DEF PublishedOrOwned, AccountedFor, Faultless
  <2> QED BY <1>2, <2>1, HandoverStep, HandoverKeepsAccounts
<1>5. CASE ~Reached(i, t)
    BY <1>5, CommittedIsOwned
<1> QED BY <1>4, <1>5

(* Without crashes and failing statements, every transition that commits   *)
(* is published or about to be, by somebody who cannot skip it, for any    *)
(* number of goroutines, requests and rule edits.                          *)
THEOREM NoTransitionIsMissed == Spec => []PublishedOrOwned
<1>1. Init => PublishedOrOwned
    BY DEF Init, NoRow, PublishedOrOwned, Reached
<1> QED BY <1>1, OwnershipInvariant, PublishedOrOwnedStep, PTL DEF Spec

----------------------------------------------------------------------------
(* AlertEngine implements AlertLifecycle.                                  *)

(* The start state maps to the abstract one.                               *)
LEMMA LifecycleInit == Init => Lifecycle!Init
BY DEF Init, Lifecycle!Init, NoRow

(* What the engine reached, the abstract alert reached.                    *)
LEMMA LifecycleReached ==
    ASSUME NEW i \in AlertIds, NEW t, Reached(i, t)
    PROVE  Lifecycle!Reached(i, t)
BY DEF Reached, Lifecycle!Reached

(* A step that keeps the rows' life cycle and the announcements.           *)
LEMMA LifecycleStutter ==
    ASSUME UNCHANGED published,
           \A i \in AlertIds : /\ alerts'[i].status = alerts[i].status
                               /\ alerts'[i].acked = alerts[i].acked
                               /\ alerts'[i].present = alerts[i].present
    PROVE  UNCHANGED Lifecycle!vars
BY DEF Lifecycle!vars

(* Every step maps to a step of the abstract life cycle or to a stutter.   *)
LEMMA LifecycleStep ==
    OwnershipInv /\ [Next]_vars => [Lifecycle!Next]_(Lifecycle!vars)
<1> SUFFICES ASSUME OwnershipInv, [Next]_vars
             PROVE  Lifecycle!Next \/ UNCHANGED Lifecycle!vars
    OBVIOUS
<1> USE DEF OwnershipInv
<1>0. TypeOK BY DEF TypeInv
<1>1. ASSUME UNCHANGED <<alerts, published>> PROVE UNCHANGED Lifecycle!vars
    BY <1>1, LifecycleStutter
<1>2. ASSUME NEW e \in Evaluators, Create(e) PROVE Lifecycle!Next
  <2>1. PICK i \in AlertIds :
            /\ alerts[i].status = "none"
            /\ alerts' = [alerts EXCEPT ![i] = FiringRow(job[e])]
            /\ UNCHANGED published
    BY <1>2 DEF Create, Fresh
  <2>2. Lifecycle!Open(i)
    BY <1>0, <2>1 DEF Lifecycle!Open, TypeOK, FiringRow
  <2> QED BY <2>2 DEF Lifecycle!Next
<1>3. ASSUME NEW e \in Evaluators, Resolve(e) PROVE Lifecycle!Next
  <2>1. PICK i \in AlertIds :
            /\ alerts[i].present
            /\ alerts[i].status \in {"firing", "acknowledged"}
            /\ alerts' = [alerts EXCEPT ![i] = ResolvedRow(alerts[i])]
            /\ UNCHANGED published
    BY <1>3 DEF Resolve, Resolvable, Active, TypeInv, Located, Holding
  <2>2. /\ ResolvedRow(alerts[i]).status = "resolved"
        /\ ResolvedRow(alerts[i]).acked = alerts[i].acked
        /\ ResolvedRow(alerts[i]).present = TRUE
    BY <1>0, <2>1 DEF ResolvedRow, TypeOK, Row
  <2>3. Lifecycle!Resolve(i)
    BY <1>0, <2>1, <2>2 DEF Lifecycle!Resolve, Lifecycle!Active, TypeOK
  <2> QED BY <2>3 DEF Lifecycle!Next
<1>4. ASSUME NEW h \in Requests, NEW i \in AlertIds, Acknowledge(h, i)
      PROVE  Lifecycle!Next
  <2>1. /\ alerts[i].present /\ alerts[i].status = "firing"
        /\ alerts' = [alerts EXCEPT ![i] = AckedRow(alerts[i])]
        /\ UNCHANGED published
    BY <1>4 DEF Acknowledge, Ackable
  <2>2. /\ AckedRow(alerts[i]).status = "acknowledged"
        /\ AckedRow(alerts[i]).acked = TRUE
        /\ AckedRow(alerts[i]).present = TRUE
    BY <1>0, <2>1 DEF AckedRow, TypeOK, Row
  <2>3. Lifecycle!Acknowledge(i)
    BY <1>0, <2>1, <2>2 DEF Lifecycle!Acknowledge, TypeOK
  <2> QED BY <2>3 DEF Lifecycle!Next
<1>5. ASSUME NEW r \in Rules, DeleteRule(r) PROVE Lifecycle!Next
  <2>0. PICK gone \in SUBSET AlertIds :
            \A i \in AlertIds : i \in gone <=> alerts[i].rule = r
    <3>1. {i \in AlertIds : alerts[i].rule = r} \in SUBSET AlertIds OBVIOUS
    <3> QED BY <3>1
  <2>1. UNCHANGED published
    BY <1>5 DEF DeleteRule, EditRule
  <2>2. ASSUME NEW i \in AlertIds
        PROVE  /\ alerts'[i].status = alerts[i].status
               /\ alerts'[i].acked = alerts[i].acked
               /\ alerts'[i].present = (alerts[i].present /\ i \notin gone)
    BY <1>0, <1>5, <2>0 DEF DeleteRule, TypeOK, Row
  <2> DEFINE row(i) == [status |-> alerts[i].status, acked |-> alerts[i].acked,
                        present |-> alerts[i].present]
  <2>3. ASSUME NEW i \in AlertIds
        PROVE  [status |-> alerts'[i].status, acked |-> alerts'[i].acked,
                present |-> alerts'[i].present]
                = [row(i) EXCEPT !.present = @ /\ i \notin gone]
    BY <2>2
  <2>4. Lifecycle!Remove(gone)
    BY <2>1, <2>3, Zenon DEF Lifecycle!Remove
  <2> QED BY <2>4 DEF Lifecycle!Next
<1>6. ASSUME NEW e \in Evaluators, Publish(e) PROVE Lifecycle!Next
  <2>1. /\ held[e] \in AlertIds /\ EventOf(job[e]) \in Lifecycle!Announcements
        /\ Reached(held[e], EventOf(job[e]))
        /\ EventOf(job[e]) \notin Range(published[held[e]])
    BY <1>6 DEF Publish, TypeInv, Located, Holding, EvaluatorOwns, Announcing,
                EventOf, Lifecycle!Announcements
  <2>2. Lifecycle!Announce(held[e], EventOf(job[e]))
    <3>1. Lifecycle!Reached(held[e], EventOf(job[e]))
        BY <2>1, LifecycleReached
    <3>2. published' = [published EXCEPT ![held[e]] = Append(@, EventOf(job[e]))]
        BY <1>6 DEF Publish
    <3>3. UNCHANGED alerts
        BY <1>6 DEF Publish, tableVars
    <3> QED BY <2>1, <3>1, <3>2, <3>3, Zenon DEF Lifecycle!Announce,
                Lifecycle!Range, Range
  <2> QED BY <2>1, <2>2 DEF Lifecycle!Next
<1>7. ASSUME NEW h \in Requests, AckPublish(h) PROVE Lifecycle!Next
  <2>1. /\ acking[h] \in AlertIds /\ "acknowledged" \in Lifecycle!Announcements
        /\ Reached(acking[h], "acknowledged")
        /\ "acknowledged" \notin Range(published[acking[h]])
    BY <1>0, <1>7 DEF AckPublish, TypeOK, RequestOwns, Reached,
                      Lifecycle!Announcements
  <2>2. Lifecycle!Announce(acking[h], "acknowledged")
    <3>1. Lifecycle!Reached(acking[h], "acknowledged")
        BY <2>1, LifecycleReached
    <3>2. published' = [published EXCEPT ![acking[h]] = Append(@, "acknowledged")]
        BY <1>7 DEF AckPublish
    <3>3. UNCHANGED alerts
        BY <1>7 DEF AckPublish, tableVars
    <3> QED BY <2>1, <3>1, <3>2, <3>3, Zenon DEF Lifecycle!Announce,
                Lifecycle!Range, Range
  <2> QED BY <2>1, <2>2 DEF Lifecycle!Next
<1>8. ASSUME NEW e \in Evaluators, NEW a \in Agents,
             Ingest(e, a) \/ LoadRules(e) \/ Sustain(e) \/ CheckDuration(e)
             \/ Lookup(e) \/ CreateFails(e) \/ ResolveFails(e) \/ Enqueue(e)
      PROVE  UNCHANGED <<alerts, published>>
    BY <1>8 DEF Ingest, LoadRules, Sustain, CheckDuration, Lookup, CreateFails,
                ResolveFails, Enqueue, tableVars
<1>9. ASSUME NEW e \in Evaluators,
             LoadRules(e) \/ Sustain(e) \/ CheckDuration(e)
             \/ Lookup(e) \/ CreateFails(e) \/ ResolveFails(e) \/ Enqueue(e)
      PROVE  UNCHANGED <<alerts, published>>
    BY <1>9 DEF LoadRules, Sustain, CheckDuration, Lookup, CreateFails,
                ResolveFails, Enqueue, tableVars
<1>10. ASSUME NEW r \in Rules, NEW c \in RuleConfigs,
              CreateRule(r, c) \/ UpdateRule(r, c)
       PROVE  UNCHANGED <<alerts, published>>
    BY <1>10 DEF CreateRule, UpdateRule, EditRule
<1>11. ASSUME (\E a \in Agents : Measure(a)) \/ Tick \/ Restart \/ UNCHANGED vars
       PROVE  UNCHANGED <<alerts, published>>
    BY <1>11 DEF Measure, Tick, Restart, vars, tableVars
<1> QED
    BY <1>1, <1>2, <1>3, <1>4, <1>5, <1>6, <1>7, <1>8, <1>9, <1>10, <1>11
    DEF Next, Evaluate

(* Every behaviour of the engine, with its races, faults, cascades and     *)
(* restarts, is a behaviour of the abstract life cycle.                    *)
THEOREM EngineImplementsLifecycle == Spec => LifecycleSpec
<1>1. Init => Lifecycle!Init
    BY LifecycleInit
<1>2. OwnershipInv /\ [Next]_vars => [Lifecycle!Next]_(Lifecycle!vars)
    BY LifecycleStep
<1> QED BY <1>1, <1>2, OwnershipInvariant, PTL
        DEF Spec, LifecycleSpec, Lifecycle!Spec

----------------------------------------------------------------------------
(* Duplicates.  A goroutine between the check and the insert counts as an  *)
(* alert already: it found none, and each goroutine inserts once per check.*)

(* The sets the bound counts are finite.                                   *)
LEMMA KeysFinite ==
    ASSUME NEW r, NEW a
    PROVE  /\ IsFiniteSet(ActiveFor(r, a)) /\ IsFiniteSet(Creating(r, a))
           /\ Cardinality(ActiveFor(r, a)) \in Nat
           /\ Cardinality(Creating(r, a)) \in Nat
           /\ Cardinality(Evaluators) \in Nat
<1>1. ActiveFor(r, a) \in SUBSET AlertIds /\ Creating(r, a) \in SUBSET Evaluators
    BY DEF ActiveFor, Creating
<1>2. IsFiniteSet(ActiveFor(r, a)) /\ IsFiniteSet(Creating(r, a))
    BY <1>1, SlotsAssumption, FS_Subset
<1> QED BY <1>2, SlotsAssumption, FS_CardinalityType

(* At the start there is neither an alert nor a goroutine.                 *)
LEMMA OverlapInit == Init => DuplicatesBounded
<1> SUFFICES ASSUME Init, NEW r \in Rules, NEW a \in Agents
             PROVE  Cardinality(ActiveFor(r, a)) + Cardinality(Creating(r, a))
                        <= Cardinality(Evaluators)
    BY DEF DuplicatesBounded
<1>1. ActiveFor(r, a) = {} /\ Creating(r, a) = {}
    BY DEF Init, ActiveFor, Active, NoRow, Creating, AllIdle
<1> QED BY <1>1, FS_EmptySet, KeysFinite

(* A step that activates no alert and sends no goroutine to the insert.    *)
LEMMA OverlapShrinks ==
    ASSUME DuplicatesBounded,
           \A r \in Rules, a \in Agents :
                /\ ActiveFor(r, a)' \subseteq ActiveFor(r, a)
                /\ Creating(r, a)' \subseteq Creating(r, a)
    PROVE  DuplicatesBounded'
<1> SUFFICES ASSUME NEW r \in Rules, NEW a \in Agents
             PROVE  Cardinality(ActiveFor(r, a)') + Cardinality(Creating(r, a)')
                        <= Cardinality(Evaluators)
    BY DEF DuplicatesBounded
<1>1. /\ Cardinality(ActiveFor(r, a)') <= Cardinality(ActiveFor(r, a))
      /\ Cardinality(Creating(r, a)') <= Cardinality(Creating(r, a))
      /\ Cardinality(ActiveFor(r, a)') \in Nat
      /\ Cardinality(Creating(r, a)') \in Nat
    BY KeysFinite, FS_Subset, FS_CardinalityType
<1> QED BY <1>1, KeysFinite DEF DuplicatesBounded

(* The check: without lookup errors it found no active alert.              *)
LEMMA OverlapLookup ==
    ASSUME "lookup" \notin Faults, TypeInv, DuplicatesBounded,
           NEW e \in Evaluators, Lookup(e)
    PROVE  DuplicatesBounded'
<1> SUFFICES ASSUME NEW r \in Rules, NEW a \in Agents
             PROVE  Cardinality(ActiveFor(r, a)') + Cardinality(Creating(r, a)')
                        <= Cardinality(Evaluators)
    BY DEF DuplicatesBounded
<1>1. ActiveFor(r, a)' = ActiveFor(r, a)
    BY DEF Lookup, tableVars, ActiveFor, Active
<1>2. CASE e \in Creating(r, a)'
  <2>1. job'[e] = job[e] /\ job[e].rule = r /\ job[e].agent = a
        /\ None \in LookupResults(job[e])
    BY <1>2 DEF Lookup, Creating, NextRule, TypeInv, TypeOK
  <2>2. ActiveFor(r, a) = {}
    BY <2>1, SlotsAssumption DEF LookupResults, ActiveFor
  <2>3. Creating(r, a)' \subseteq Evaluators
    BY DEF Creating
  <2>4. /\ Cardinality(Creating(r, a)') <= Cardinality(Evaluators)
        /\ Cardinality(Creating(r, a)') \in Nat
    BY <2>3, SlotsAssumption, FS_Subset, FS_CardinalityType
  <2>5. Cardinality(ActiveFor(r, a)') = 0
    BY <1>1, <2>2, FS_EmptySet
  <2>6. Cardinality(Evaluators) \in Nat
    BY SlotsAssumption, FS_CardinalityType
  <2> QED BY <2>4, <2>5, <2>6
<1>3. CASE e \notin Creating(r, a)'
  <2>1. Creating(r, a)' \subseteq Creating(r, a)
    <3>1. \A f \in Evaluators \ {e} : pc'[f] = pc[f] /\ job'[f] = job[f]
        BY DEF Lookup, NextRule, TypeInv, TypeOK
    <3> QED BY <1>3, <3>1 DEF Creating
  <2>2. /\ Cardinality(Creating(r, a)') <= Cardinality(Creating(r, a))
        /\ Cardinality(Creating(r, a)') \in Nat
    BY <2>1, KeysFinite, FS_Subset, FS_CardinalityType
  <2> QED BY <1>1, <2>2, KeysFinite DEF DuplicatesBounded
<1> QED BY <1>2, <1>3

(* The insert: the goroutine turns into the alert it was counted for.      *)
LEMMA OverlapCreate ==
    ASSUME TypeInv, DuplicatesBounded, NEW e \in Evaluators, Create(e)
    PROVE  DuplicatesBounded'
<1> SUFFICES ASSUME NEW r \in Rules, NEW a \in Agents
             PROVE  Cardinality(ActiveFor(r, a)') + Cardinality(Creating(r, a)')
                        <= Cardinality(Evaluators)
    BY DEF DuplicatesBounded
<1>1. PICK i \in AlertIds :
        /\ alerts[i].status = "none"
        /\ alerts' = [alerts EXCEPT ![i] = FiringRow(job[e])]
    BY DEF Create, Fresh
<1>2. Creating(r, a)' = Creating(r, a) \ {e}
    BY DEF Create, Creating, NextRule, TypeInv, TypeOK
<1>3. i \notin ActiveFor(r, a)
    BY <1>1 DEF ActiveFor, Active
<1>4. /\ Cardinality(ActiveFor(r, a)) + Cardinality(Creating(r, a))
            <= Cardinality(Evaluators)
    BY DEF DuplicatesBounded
<1>5. CASE e \in Creating(r, a)
  <2>1. ActiveFor(r, a)' = ActiveFor(r, a) \cup {i}
    BY <1>1, <1>5 DEF ActiveFor, Active, FiringRow, Creating, TypeInv, TypeOK
  <2>2. /\ Cardinality(ActiveFor(r, a)') = Cardinality(ActiveFor(r, a)) + 1
        /\ Cardinality(Creating(r, a)') = Cardinality(Creating(r, a)) - 1
    <3>1. Cardinality(ActiveFor(r, a) \cup {i}) = Cardinality(ActiveFor(r, a)) + 1
        BY <1>3, KeysFinite, FS_AddElement
    <3>2. Cardinality(Creating(r, a) \ {e}) = Cardinality(Creating(r, a)) - 1
        BY <1>5, KeysFinite, FS_RemoveElement
    <3> QED BY <1>2, <2>1, <3>1, <3>2
  <2> QED BY <1>4, <2>2, KeysFinite
<1>6. CASE e \notin Creating(r, a)
  <2>1. ActiveFor(r, a)' = ActiveFor(r, a)
    BY <1>1, <1>6 DEF Create, ActiveFor, Active, FiringRow, Creating, TypeInv, TypeOK
  <2>2. Creating(r, a)' = Creating(r, a)
    BY <1>2, <1>6
  <2> QED BY <1>4, <2>1, <2>2
<1> QED BY <1>5, <1>6

(* The bound on duplicates is inductive, if no lookup error is taken for   *)
(* "no active alert".                                                      *)
LEMMA OverlapStep ==
    "lookup" \notin Faults /\ TypeInv /\ DuplicatesBounded /\ [Next]_vars
        => DuplicatesBounded'
<1> SUFFICES ASSUME "lookup" \notin Faults, TypeInv, DuplicatesBounded, [Next]_vars
             PROVE  DuplicatesBounded'
    OBVIOUS
<1> USE DEF TypeInv
<1>1. ASSUME NEW e \in Evaluators, Lookup(e) PROVE DuplicatesBounded'
    BY <1>1, OverlapLookup
<1>2. ASSUME NEW e \in Evaluators, Create(e) PROVE DuplicatesBounded'
    BY <1>2, OverlapCreate
<1>3. ASSUME UNCHANGED alerts,
             \A e \in Evaluators : pc'[e] = "create" => pc[e] = "create" /\ job'[e] = job[e]
      PROVE  DuplicatesBounded'
  <2>1. ASSUME NEW r \in Rules, NEW a \in Agents
        PROVE  /\ ActiveFor(r, a)' \subseteq ActiveFor(r, a)
               /\ Creating(r, a)' \subseteq Creating(r, a)
    BY <1>3 DEF ActiveFor, Active, Creating
  <2> QED BY <2>1, OverlapShrinks
<1>4. ASSUME NEW e \in Evaluators, Resolve(e) PROVE DuplicatesBounded'
  <2>1. /\ held[e] \in AlertIds
        /\ alerts' = [alerts EXCEPT ![held[e]] = ResolvedRow(alerts[held[e]])]
    BY <1>4 DEF Resolve, Located, Holding
  <2>2. ResolvedRow(alerts[held[e]]).status = "resolved"
    BY <2>1 DEF ResolvedRow, TypeOK, Row
  <2>3. ASSUME NEW r \in Rules, NEW a \in Agents
        PROVE  /\ ActiveFor(r, a)' \subseteq ActiveFor(r, a)
               /\ Creating(r, a)' \subseteq Creating(r, a)
    <3>1. ActiveFor(r, a)' \subseteq ActiveFor(r, a)
      BY <2>1, <2>2 DEF ActiveFor, Active, TypeOK
    <3>2. Creating(r, a)' \subseteq Creating(r, a)
      BY <1>4 DEF Resolve, Creating, NextRule, TypeOK
    <3> QED BY <3>1, <3>2
  <2> QED BY <2>3, OverlapShrinks
<1>5. ASSUME NEW h \in Requests, NEW i \in AlertIds, Acknowledge(h, i)
      PROVE  DuplicatesBounded'
  <2>1. /\ alerts[i].present /\ alerts[i].status = "firing"
        /\ alerts' = [alerts EXCEPT ![i] = AckedRow(alerts[i])]
        /\ UNCHANGED <<pc, job>>
    BY <1>5 DEF Acknowledge, Ackable, evaluatorVars
  <2>2. /\ AckedRow(alerts[i]).rule = alerts[i].rule
        /\ AckedRow(alerts[i]).agent = alerts[i].agent
    BY <2>1 DEF AckedRow, TypeOK, Row
  <2>3. ASSUME NEW r \in Rules, NEW a \in Agents
        PROVE  /\ ActiveFor(r, a)' \subseteq ActiveFor(r, a)
               /\ Creating(r, a)' \subseteq Creating(r, a)
    BY <2>1, <2>2 DEF ActiveFor, Active, Creating, TypeOK
  <2> QED BY <2>3, OverlapShrinks
<1>6. ASSUME NEW r \in Rules, DeleteRule(r) PROVE DuplicatesBounded'
  <2>1. ASSUME NEW i \in AlertIds
        PROVE  /\ alerts'[i].status = alerts[i].status
               /\ alerts'[i].rule = alerts[i].rule
               /\ alerts'[i].agent = alerts[i].agent
               /\ alerts'[i].present => alerts[i].present
    BY <1>6 DEF DeleteRule, TypeOK, Row
  <2>2. UNCHANGED <<pc, job>>
    BY <1>6 DEF DeleteRule, EditRule, evaluatorVars
  <2>3. ASSUME NEW q \in Rules, NEW a \in Agents
        PROVE  /\ ActiveFor(q, a)' \subseteq ActiveFor(q, a)
               /\ Creating(q, a)' \subseteq Creating(q, a)
    BY <2>1, <2>2 DEF ActiveFor, Active, Creating
  <2> QED BY <2>3, OverlapShrinks
<1>7. ASSUME NEW e \in Evaluators,
             \/ \E a \in Agents : Ingest(e, a)
             \/ LoadRules(e) \/ Publish(e)
      PROVE  DuplicatesBounded'
    BY <1>3, <1>7 DEF Ingest, LoadRules, Publish, tableVars, TypeOK
<1>8. ASSUME NEW e \in Evaluators,
             Sustain(e) \/ CheckDuration(e) \/ CreateFails(e) \/ ResolveFails(e)
             \/ Enqueue(e)
      PROVE  DuplicatesBounded'
    BY <1>3, <1>8
    DEF Sustain, SustainTriggered, SustainClear, CheckDuration, CreateFails,
        ResolveFails, Enqueue, NextRule, tableVars, TypeOK
<1>9. ASSUME NEW r \in Rules, NEW c \in RuleConfigs,
             CreateRule(r, c) \/ UpdateRule(r, c)
      PROVE  DuplicatesBounded'
    BY <1>3, <1>9 DEF CreateRule, UpdateRule, EditRule, evaluatorVars
<1>10. ASSUME \/ \E h \in Requests : AckPublish(h)
              \/ \E a \in Agents : Measure(a)
              \/ Tick \/ UNCHANGED vars
       PROVE  DuplicatesBounded'
    BY <1>3, <1>10 DEF AckPublish, Measure, Tick, vars, tableVars, evaluatorVars
<1>11. CASE Restart
    BY <1>3, <1>11 DEF Restart, AllIdle
<1> QED
    BY <1>1, <1>2, <1>4, <1>5, <1>6, <1>7, <1>8, <1>9, <1>10, <1>11
    DEF Next, Evaluate

(* As long as a failing lookup is not taken for "no active alert", a rule  *)
(* and an agent never have more active alerts than evaluations run at      *)
(* once; one evaluation at a time keeps at most one.                       *)
THEOREM DuplicatesNeverAccumulate ==
    "lookup" \notin Faults => (Spec => []DuplicatesBounded)
<1> SUFFICES ASSUME "lookup" \notin Faults PROVE Spec => []DuplicatesBounded
    OBVIOUS
<1>1. Init => TypeInv /\ DuplicatesBounded
    BY TypeInvInit, OverlapInit
<1>2. TypeInv /\ DuplicatesBounded /\ [Next]_vars => (TypeInv /\ DuplicatesBounded)'
    BY TypeInvStep, OverlapStep
<1> QED BY <1>1, <1>2, PTL DEF Spec

(* If evaluations never overlap and lookups do not fail, a rule and agent  *)
(* have at most one active alert, as GetActiveAlert is there to ensure.    *)
THEOREM OneAlertAtATime ==
    "lookup" \notin Faults /\ Cardinality(Evaluators) = 1
        => (Spec => []OneActivePerKey)
<1> SUFFICES ASSUME "lookup" \notin Faults, Cardinality(Evaluators) = 1
             PROVE  Spec => []OneActivePerKey
    OBVIOUS
<1>1. DuplicatesBounded => OneActivePerKey
    BY KeysFinite DEF DuplicatesBounded, OneActivePerKey
<1> QED BY <1>1, DuplicatesNeverAccumulate, PTL
=============================================================================
