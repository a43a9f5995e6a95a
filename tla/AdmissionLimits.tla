-------------------------- MODULE AdmissionLimits --------------------------
(***************************************************************************)
(* What the task scheduler promises its callers, with no queue, actor or   *)
(* channel: leases are granted within the limits, at most once per call,   *)
(* and never again after a shutdown has returned.                          *)
(***************************************************************************)
EXTENDS Integers, FiniteSets

CONSTANTS Tasks, QuotaId, MaxActive

VARIABLES
    req,      \* req[t]: what call t asks for
    held,     \* leases their callers hold
    spent,    \* calls that can no longer be granted
    over      \* shutdown has returned

vars == <<req, held, spent, over>>

Uses(t, q) == req[t].limit[q] # 0

(* S may be held at the same time. *)
WithinLimits(S) ==
    /\ Cardinality({t \in S : req[t].global}) <= MaxActive
    /\ \A t \in S : \A q \in QuotaId : Uses(t, q) =>
         Cardinality({u \in S : Uses(u, q)}) <= req[t].limit[q]

Init ==
    /\ held = {}
    /\ spent = {}
    /\ over = FALSE

Grant(t) ==
    /\ ~over
    /\ t \notin held \cup spent
    /\ WithinLimits(held \cup {t})
    /\ held' = held \cup {t}
    /\ UNCHANGED <<req, spent, over>>

Return(t) ==
    /\ t \in held
    /\ held' = held \ {t}
    /\ spent' = spent \cup {t}
    /\ UNCHANGED <<req, over>>

GiveUp(t) ==
    /\ t \notin held
    /\ spent' = spent \cup {t}
    /\ UNCHANGED <<req, held, over>>

Finish ==
    /\ held = {}
    /\ over' = TRUE
    /\ UNCHANGED <<req, held, spent>>

Next == (\E t \in Tasks : Grant(t) \/ Return(t) \/ GiveUp(t)) \/ Finish

Spec == Init /\ [][Next]_vars
=============================================================================
