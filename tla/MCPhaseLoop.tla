---------------------------- MODULE MCPhaseLoop ----------------------------
(* PhaseLoop under the configurations the worker can be given, but for the *)
(* review phase in a workflow without an implementation review: each of    *)
(* its steps is one of another configuration's.                            *)
EXTENDS PhaseLoop

MCConfigs == {c \in Configurations : c.gate = "none" => ~c.review}
=============================================================================
