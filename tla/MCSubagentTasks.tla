-------------------------- MODULE MCSubagentTasks --------------------------
(* Instances of SubagentTasks for TLC. *)
EXTENDS SubagentTasks, TLC

CONSTANTS x, y

MCTasks == {x, y}

World(m, n, cap, disturb, limit) ==
  [mode |-> (x :> m) @@ (y :> n), cap |-> cap, disturb |-> disturb,
   deadline |-> "deadline" \in limit, early |-> "early" \in limit]

\* One task of each kind with everything around it, its record evicted as soon
\* as it is terminal, the fan-out limited in every way it can be; and two tasks
\* with room for one terminal record.
MCWorlds ==
  {World(m, "absent", 0, {"host", "close", "scope"}, {"deadline"}) :
     m \in {"background", "foreground"}}
  \cup {World("fanout", "absent", 0, {"host", "close", "scope"}, limit) :
          limit \in SUBSET {"deadline", "early"} \ {{}}}
  \cup {World("fanout", "fanout", 1, {"host", "scope"}, {"deadline", "early"}),
        World("fanout", "fanout", 2, {"close"}, {"early"}),
        World("background", "background", 1, {"close"}, {"deadline"}),
        World("background", "foreground", 1, {"host", "close"}, {"deadline"})}
=============================================================================
