------------------------- MODULE MCScheduledRun -------------------------
(* Instances of ScheduledRun for TLC: a gated script with its follow-up    *)
(* agent, a system task, and an agent that runs as a project.              *)
EXTENDS ScheduledRun

ScriptSystemGate == [t \in Tasks |-> IF t = "gate" THEN "agent" ELSE t]
OneAgent == [t \in Tasks |-> "agent"]
SameRank == [t \in Tasks |-> 1]
=============================================================================
