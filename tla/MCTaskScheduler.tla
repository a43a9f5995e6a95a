-------------------------- MODULE MCTaskScheduler --------------------------
(* Small instances of TaskScheduler. *)
EXTENDS TaskScheduler, TLC

CONSTANTS qa, qb

(* A request of priority p with the given limits on the two quotas. *)
Ask(p, g, a, b) ==
    [priority |-> p, global |-> g,
     limit |-> [q \in QuotaId |-> CASE q = qa -> a [] q = qb -> b]]

(* Global and quota-only requests that share, and disagree about, quotas. *)
QuotaRequests ==
    {Ask(1, TRUE, 1, 1), Ask(1, FALSE, 1, 0), Ask(1, TRUE, 0, 2)}

(* Priorities that age, and one that does not. *)
AgingRequests == {Ask(p, TRUE, 0, 0) : p \in {0, 1, 2}}

(* Nothing but the slot to compete for. *)
OneRequest == {Ask(1, TRUE, 0, 0)}

Symmetric == Permutations(Tasks) \cup Permutations(Closers)
=============================================================================
