---------------------------- MODULE MCLaneQueue ----------------------------
(* Instances of LaneQueue for TLC. *)
EXTENDS LaneQueue, TLC

CONSTANTS x, y

MCTasks == {x, y}
MCModes == (x :> {"external"}) @@ (y :> {"internal", "external", "hybrid"})
=============================================================================
