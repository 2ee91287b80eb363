----------------------- MODULE MCAlertEngineHistory -----------------------
(* Values for the constants of AlertEngineHistory. *)
EXTENDS AlertEngineHistory, TLC

CONSTANTS cpu, mem

Low  == [m \in {"cpu_usage", "memory_usage"} |-> 1]
High == [m \in {"cpu_usage", "memory_usage"} |-> 3]
MCSamples == {Low, High}

SustainedCpu == [metric |-> "cpu_usage", operator |-> ">", threshold |-> 2,
                 forDuration |-> 2, enabled |-> TRUE]
DisabledCpu  == [SustainedCpu EXCEPT !.enabled = FALSE]
SustainedMem == [metric |-> "memory_usage", operator |-> ">", threshold |-> 1,
                 forDuration |-> 1, enabled |-> TRUE]

MCConfigs == {SustainedCpu, DisabledCpu, SustainedMem}
ShortCpu    == [SustainedCpu EXCEPT !.forDuration = 1]
Offline     == [SustainedCpu EXCEPT !.metric = "agent_offline", !.forDuration = 0]
MCEdits     == {ShortCpu, Offline}
MCSeedShort == (cpu :> ShortCpu)
MCSeedOne   == (cpu :> SustainedCpu)
=============================================================================
