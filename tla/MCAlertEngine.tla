--------------------------- MODULE MCAlertEngine ---------------------------
(* Values for the constants of AlertEngine. *)
EXTENDS AlertEngine, TLC

CONSTANT cpu                            \* a rule id

(* Samples under and over the thresholds.                                  *)
Low  == [m \in {"cpu_usage", "memory_usage"} |-> 1]
High == [m \in {"cpu_usage", "memory_usage"} |-> 3]
MCSamples == {Low, High}

Config(operator, threshold, forDuration, enabled) ==
    [metric |-> "cpu_usage", operator |-> operator, threshold |-> threshold,
     forDuration |-> forDuration, enabled |-> enabled]
Immediate == Config(">", 2, 0, TRUE)
Sustained == Config(">=", 3, 1, TRUE)

MCImmediate == {Immediate}
MCSwitched  == {Immediate, [Immediate EXCEPT !.enabled = FALSE]}
MCSustained == {Sustained}
SeedImmediate == (cpu :> Immediate)
SeedNone      == [r \in {} |-> Sustained]

MCSymmetry == Permutations(AlertIds) \cup Permutations(Evaluators)
=============================================================================
