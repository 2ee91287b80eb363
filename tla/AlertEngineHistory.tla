------------------------- MODULE AlertEngineHistory -------------------------
(***************************************************************************)
(* AlertEngine with a history variable that the program does not have: how *)
(* long ago each agent last reported a value that did not satisfy each     *)
(* rule.  It lets for_duration be stated as the promise it is, "the metric *)
(* was over its threshold for that long", instead of as the bookkeeping    *)
(* that is meant to keep it.                                               *)
(***************************************************************************)
EXTENDS AlertEngine

VARIABLE clearAge    \* [rule -> [agent -> age of the last sample under the rule]]

historyVars == <<vars, clearAge>>

(* The sample agent a sends now is one that rule r, enabled or not, would  *)
(* find under its threshold.                                               *)
Under(r, a) ==
    /\ rules[r] # None
    /\ rules[r].metric \in DOMAIN reading[a]
    /\ ~Triggers(r, reading[a])

HInit == Init /\ clearAge = [r \in Rules |-> [a \in Agents |-> MaxAge]]

HIngest(e, a) ==
    /\ Ingest(e, a)
    /\ clearAge' = [r \in Rules |->
            [clearAge[r] EXCEPT ![a] = IF Under(r, a) THEN 0 ELSE @]]

HTick ==
    /\ Tick
    /\ clearAge' = [r \in Rules |-> [a \in Agents |-> Older(clearAge[r][a])]]

HOther ==
    /\ \/ \E e \in Evaluators : Evaluate(e)
       \/ \E r \in Rules : DeleteRule(r)
       \/ \E r \in Rules, c \in RuleConfigs : CreateRule(r, c) \/ UpdateRule(r, c)
       \/ \E h \in Requests : AckPublish(h) \/ \E i \in AlertIds : Acknowledge(h, i)
       \/ \E a \in Agents : Measure(a)
       \/ Restart
    /\ UNCHANGED clearAge

HNext ==
    \/ \E e \in Evaluators, a \in Agents : HIngest(e, a)
    \/ HTick
    \/ HOther

HSpec == HInit /\ [][HNext]_historyVars

(* A rule with a for_duration opens an alert only when no sample of the    *)
(* agent was under the rule for that long (README: "evaluates sustained    *)
(* metric thresholds (for_duration)").                                     *)
FiresOnlySustained ==
    \A e \in Evaluators :
        pc[e] = "create" /\ job[e].forDuration > 0 =>
            clearAge[job[e].rule][job[e].agent] >= job[e].forDuration

(* The same as long as no rule is edited: across failing statements,       *)
(* acknowledgements, and a restart that forgets the sustained entries.  A  *)
(* listing of the rules cut short would break it, as an edit does.         *)
UneditedFiresOnlySustained == edits = 0 => FiresOnlySustained
=============================================================================
