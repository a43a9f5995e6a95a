--------------------------- MODULE TaskScheduler ---------------------------
(***************************************************************************)
(* The agent-wide admission scheduler of core/src/task_scheduler.rs: one   *)
(* actor that owns the queue, the slots and the quotas, the callers of     *)
(* acquire() that race with it, and the callers of shutdown().             *)
(*                                                                         *)
(* Three channels lead to the actor: the bounded admission channel `chan`, *)
(* the unbounded release channel `relq`, and the shutdown channel (at most *)
(* one caller wins the swap of `closed`, so its content is the closer in   *)
(* state "sent").  Each admission has a oneshot `ready` back to its caller.*)
(*                                                                         *)
(* A task stands for one call of acquire*() and for the admission id that  *)
(* call draws from next_id: ids are never reused, and neither are tasks.   *)
(***************************************************************************)
EXTENDS Integers, Sequences, FiniteSets

CONSTANTS
    Tasks,            \* calls of acquire*()
    QuotaId,          \* digests of quota identities
    Requests,         \* what a call may ask for
    Closers,          \* calls of shutdown()
    MaxActive,        \* config.max_active
    AgingInterval,    \* config.aging_interval_ms, in ticks of the clock
    MaxPending,       \* MAX_PENDING_ADMISSIONS
    ChannelCapacity,  \* ADMISSION_CHANNEL_CAPACITY
    Retention,        \* TASK_SCHEDULER_QUOTA_HEALTH_RETENTION
    MaxTime,          \* bound of the model: ticks of the clock
    MaxProbes,        \* bound of the model: calls of health()
    NoQuota,          \* an absent entry of a quota map
    HealthProbe       \* a Health message in the admission channel

(* A quota dimension whose limit is 0 is absent: TaskSchedulerQuota refuses *)
(* a zero limit.  A quota-only request names at least one dimension.        *)
ASSUME RequestsAssumption ==
    Requests \subseteq
        {r \in [priority : 0..4, global : BOOLEAN, limit : [QuotaId -> Nat]] :
            r.global \/ \E q \in QuotaId : r.limit[q] # 0}

ASSUME BoundsAssumption ==
    /\ MaxActive \in Nat \ {0}
    /\ AgingInterval \in Nat \ {0}
    /\ {MaxPending, ChannelCapacity, Retention, MaxTime, MaxProbes} \subseteq Nat

ASSUME ProbeAssumption == HealthProbe \notin Tasks

VARIABLES
    req,            \* req[t]: the arguments of call t
    caller,         \* caller[t]: where call t is
    ready,          \* ready[t]: the oneshot of call t
    enqueuedAt,     \* enqueuedAt[t]: the clock when call t built its item
    chan,           \* the admission channel
    relq,           \* the release channel
    closed,         \* the shared AtomicBool
    closer,         \* closer[c]: where call c of shutdown() is
    pc,             \* where the actor is in its loop
    closing,        \* SchedulerState.closing
    pending,        \* ids in the priority queue
    seqno,          \* seqno[t]: the queue's sequence number of t
    nextSeq,        \* the sequence number of the next push
    eff,            \* eff[t]: effective_priority
    active,         \* ids in the active map
    quotas,         \* live quota states
    retained,       \* retained_quota_health
    retainedOrder,  \* retained_quota_order
    counters,       \* SchedulerCounters
    now,            \* the monotonic clock
    probes          \* health() calls so far

callerVars == <<req, caller, enqueuedAt>>
queueVars == <<pending, seqno, nextSeq, eff>>
quotaVars == <<quotas, retained, retainedOrder>>
clockVars == <<now, probes>>
vars == <<req, caller, ready, enqueuedAt, chan, relq, closed, closer, pc,
          closing, pending, seqno, nextSeq, eff, active, quotas, retained,
          retainedOrder, counters, now, probes>>

-----------------------------------------------------------------------------
(* Data. *)

Outcome == {"admitted", "released", "cancelled", "rejected"}

NoOutcome == [o \in Outcome |-> 0]

(* A quota state: its limit, its live occupancy, its cumulative counters.  *)
(* Wait times and peaks, which nothing reads back, are left out.           *)
QuotaState == [max : Nat, active : Nat, pending : Nat, tally : [Outcome -> Nat]]

ASSUME NoQuotaAssumption == NoQuota \notin QuotaState

NewQuota(limit) ==
    [max |-> limit, active |-> 0, pending |-> 0, tally |-> NoOutcome]

(* The quota dimensions of a request. *)
Dims(t) == {q \in QuotaId : req[t].limit[q] # 0}

SaturatingDec(n) == IF n = 0 THEN 0 ELSE n - 1

Elements(s) == {s[i] : i \in 1..Len(s)}

(* All orders in which the keys of a finite set may be visited. *)
Orders(S) ==
    {f \in [1..Cardinality(S) -> S] : \A q \in S : \E i \in 1..Cardinality(S) : f[i] = q}

(* The last n entries of s. *)
Newest(s, n) == IF Len(s) <= n THEN s ELSE SubSeq(s, Len(s) - n + 1, Len(s))

-----------------------------------------------------------------------------
(* Quota bookkeeping. *)

(* get_mut on every dimension of t, skipping the absent ones. *)
AdjustQuotas(t, F(_)) ==
    [q \in QuotaId |-> IF q \in Dims(t) /\ quotas[q] # NoQuota
                       THEN F(quotas[q]) ELSE quotas[q]]

Count(s, outcome) == [s EXCEPT !.tally[outcome] = @ + 1]

(* Fault: a settled item stays counted as pending. *)
DropPendingForgotten(s) == s

DropPending(s) == [s EXCEPT !.pending = SaturatingDec(@)]

DropActive(s) == [s EXCEPT !.active = SaturatingDec(@)]

PendingToActive(s) == [DropPending(s) EXCEPT !.active = @ + 1]

(* What each way to settle an item does to each of its quotas. *)
Released(s) == Count(DropActive(s), "released")

Cancelled(s) == Count(DropPending(s), "cancelled")

Rejected(s) == Count(DropPending(s), "rejected")

Admitted(s) == Count(PendingToActive(s), "admitted")

Abandoned(s) == Count(DropActive(PendingToActive(s)), "cancelled")

Idle(s) == s.active = 0 /\ s.pending = 0

(* prune_idle_quota on every dimension of t, each moved to the retained    *)
(* records by retain_quota_health.  The order of a request's dimensions is *)
(* the caller's: any order of the idle ones.                               *)
PruneIdleQuotas(t, qs) ==
    LET idle == {q \in Dims(t) : qs[q] # NoQuota /\ Idle(qs[q])}
        others == SelectSeq(retainedOrder, LAMBDA q : q \notin idle)
    IN  /\ quotas' = [q \in QuotaId |-> IF q \in idle THEN NoQuota ELSE qs[q]]
        /\ \E s \in Orders(idle) :
             LET order == others \o s
                 evicted == Elements(order) \ Elements(Newest(order, Retention))
             IN  /\ retainedOrder' = Newest(order, Retention)
                 /\ retained' = [q \in QuotaId |->
                        IF q \in evicted THEN NoQuota
                        ELSE IF q \in idle THEN qs[q] ELSE retained[q]]

(* The state take_retained_quota_health revives, or a fresh one. *)
RevivedQuota(t, q) ==
    IF retained[q] # NoQuota /\ retained[q].max = req[t].limit[q]
    THEN retained[q] ELSE NewQuota(req[t].limit[q])

QuotaConflict(t) ==
    \E q \in Dims(t) : quotas[q] # NoQuota /\ quotas[q].max # req[t].limit[q]

(* register_pending_quotas after its conflict check, and the loop of       *)
(* enqueue() that counts the new item as pending on each dimension.        *)
RegisterPendingQuotas(t) ==
    LET fresh == {q \in Dims(t) : quotas[q] = NoQuota}
        Registered(q) == IF q \in fresh THEN RevivedQuota(t, q) ELSE quotas[q]
    IN  /\ quotas' = [q \in QuotaId |->
                        IF q \in Dims(t)
                        THEN [Registered(q) EXCEPT !.pending = @ + 1]
                        ELSE quotas[q]]
        /\ retained' = [q \in QuotaId |-> IF q \in fresh THEN NoQuota ELSE retained[q]]
        /\ retainedOrder' = SelectSeq(retainedOrder, LAMBDA q : q \notin fresh)

(* Fault: the limit itself is still taken as room. *)
QuotaAllowsOneMore(t) ==
    \A q \in Dims(t) : quotas[q] # NoQuota /\ quotas[q].active <= quotas[q].max

QuotaAllows(t) ==
    \A q \in Dims(t) : quotas[q] # NoQuota /\ quotas[q].active < quotas[q].max

-----------------------------------------------------------------------------
(* The queue and the slots. *)

Global(S) == {t \in S : req[t].global}

GlobalActiveCount == Cardinality(Global(active))

(* The order in which the priority queue pops. *)
Precedes(t, u) ==
    \/ eff[t] < eff[u]
    \/ eff[t] = eff[u] /\ seqno[t] < seqno[u]

(* Fault: one global admission too many. *)
AdmissibleOneMore(t) ==
    /\ req[t].global => GlobalActiveCount <= MaxActive
    /\ QuotaAllows(t)

(* Eligible under the global capacity and under all of its quotas. *)
Admissible(t) ==
    /\ req[t].global => GlobalActiveCount < MaxActive
    /\ QuotaAllows(t)

(* The item pop_admissible selects. *)
Selected(t) ==
    /\ t \in pending
    /\ Admissible(t)
    /\ \A u \in pending \ {t} : Admissible(u) => Precedes(t, u)

(* Faults of aging: no floor at all, a floor that is Urgent, no aging. *)
AgedWithoutFloor(t) == req[t].priority - ((now - enqueuedAt[t]) \div AgingInterval)

AgedToUrgent(t) ==
    LET levels == (now - enqueuedAt[t]) \div AgingInterval
    IN  IF req[t].priority < levels THEN 0 ELSE req[t].priority - levels

NeverAged(t) == req[t].priority

AgedPriority(t) ==
    LET priority == req[t].priority
        levels == (now - enqueuedAt[t]) \div AgingInterval
    IN  IF priority = 0 THEN 0
        ELSE IF priority - levels < 1 THEN 1 ELSE priority - levels

(* apply_aging over the queue S.  Re-insertion renumbers the items in      *)
(* their old order, so seqno keeps telling them apart as it is.            *)
ApplyAging(S) ==
    eff' = [t \in Tasks |-> IF t \in S THEN AgedPriority(t) ELSE req[t].priority]

(* ready.send(): lost when the caller has dropped the receiver. *)
Listening(t) == caller[t] = "waiting"

Reply(t, answer) ==
    ready' = IF Listening(t) THEN [ready EXCEPT ![t] = answer] ELSE ready

Tally(outcome) == counters' = [counters EXCEPT ![outcome] = @ + 1]

Dequeue(t) ==
    /\ pending' = pending \ {t}
    /\ seqno' = [seqno EXCEPT ![t] = 0]
    /\ eff' = [eff EXCEPT ![t] = req[t].priority]
    /\ UNCHANGED nextSeq

-----------------------------------------------------------------------------
Init ==
    /\ req \in [Tasks -> Requests]
    /\ caller = [t \in Tasks |-> "idle"]
    /\ ready = [t \in Tasks |-> "none"]
    /\ enqueuedAt = [t \in Tasks |-> 0]
    /\ chan = <<>>
    /\ relq = <<>>
    /\ closed = FALSE
    /\ closer = [c \in Closers |-> "idle"]
    /\ pc = "pollRelease"
    /\ closing = FALSE
    /\ pending = {}
    /\ seqno = [t \in Tasks |-> 0]
    /\ nextSeq = 1
    /\ eff = [t \in Tasks |-> req[t].priority]
    /\ active = {}
    /\ quotas = [q \in QuotaId |-> NoQuota]
    /\ retained = [q \in QuotaId |-> NoQuota]
    /\ retainedOrder = <<>>
    /\ counters = NoOutcome
    /\ now = 0
    /\ probes = 0

-----------------------------------------------------------------------------
(* Calls of acquire*(): acquire_inner and TaskLease. *)

actorVars == <<pc, closing, queueVars, active, quotaVars, counters>>

(* The early return of a closed scheduler or of a cancelled token.         *)
RefuseAcquire(t) ==
    /\ caller[t] = "idle"
    /\ caller' = [caller EXCEPT ![t] = "done"]
    /\ UNCHANGED <<req, ready, enqueuedAt, chan, relq, closed, closer, actorVars, clockVars>>

(* The call passes its checks, draws its id, builds the item and starts to *)
(* wait for room in the admission channel.                                 *)
BeginAcquire(t) ==
    /\ caller[t] = "idle"
    /\ ~closed
    /\ caller' = [caller EXCEPT ![t] = "sending"]
    /\ enqueuedAt' = [enqueuedAt EXCEPT ![t] = now]
    /\ UNCHANGED <<req, ready, chan, relq, closed, closer, actorVars, clockVars>>

(* The channel accepts the item: the lease is armed. *)
SendEnqueue(t) ==
    /\ caller[t] = "sending"
    /\ pc # "stopped"
    /\ Len(chan) < ChannelCapacity
    /\ chan' = Append(chan, t)
    /\ caller' = [caller EXCEPT ![t] = "waiting"]
    /\ UNCHANGED <<req, ready, enqueuedAt, relq, closed, closer, actorVars, clockVars>>

(* Cancelled before the send: an unarmed lease emits no Release. *)
CancelSend(t) ==
    /\ caller[t] = "sending"
    /\ caller' = [caller EXCEPT ![t] = "done"]
    /\ UNCHANGED <<req, ready, enqueuedAt, chan, relq, closed, closer, actorVars, clockVars>>

(* The receiver is gone: the send fails and acquire returns Closed. *)
FailSend(t) ==
    /\ caller[t] = "sending"
    /\ pc = "stopped"
    /\ caller' = [caller EXCEPT ![t] = "done"]
    /\ UNCHANGED <<req, ready, enqueuedAt, chan, relq, closed, closer, actorVars, clockVars>>

(* The admission is granted: acquire returns the lease. *)
ReceiveLease(t) ==
    /\ caller[t] = "waiting"
    /\ ready[t] = "ok"
    /\ caller' = [caller EXCEPT ![t] = "holding"]
    /\ UNCHANGED <<req, ready, enqueuedAt, chan, relq, closed, closer, actorVars, clockVars>>

(* Fault: the loss of the sender is not noticed. *)
ReceiveAnsweredError(t) ==
    /\ caller[t] = "waiting"
    /\ ready[t] \notin {"none", "ok"}
    /\ caller' = [caller EXCEPT ![t] = "unwinding"]
    /\ UNCHANGED <<req, ready, enqueuedAt, chan, relq, closed, closer, actorVars, clockVars>>

(* An error answer, or the sender dropped with the actor. *)
ReceiveError(t) ==
    /\ caller[t] = "waiting"
    /\ \/ ready[t] \notin {"none", "ok"}
       \/ ready[t] = "none" /\ pc = "stopped"
    /\ caller' = [caller EXCEPT ![t] = "unwinding"]
    /\ UNCHANGED <<req, ready, enqueuedAt, chan, relq, closed, closer, actorVars, clockVars>>

(* Cancellation, or the acquire future is dropped: the receiver goes first,*)
(* the armed lease after it.                                               *)
AbandonWait(t) ==
    /\ caller[t] = "waiting"
    /\ caller' = [caller EXCEPT ![t] = "unwinding"]
    /\ UNCHANGED <<req, ready, enqueuedAt, chan, relq, closed, closer, actorVars, clockVars>>

(* Fault: the lease is armed only when acquire returns it. *)
DropReturnedLease(t) ==
    /\ caller[t] \in {"holding", "unwinding"}
    /\ caller' = [caller EXCEPT ![t] = "done"]
    /\ relq' = IF pc = "stopped" \/ caller[t] = "unwinding" THEN relq ELSE Append(relq, t)
    /\ UNCHANGED <<req, ready, enqueuedAt, chan, closed, closer, actorVars, clockVars>>

(* Drop of an armed lease. *)
DropLease(t) ==
    /\ caller[t] \in {"holding", "unwinding"}
    /\ caller' = [caller EXCEPT ![t] = "done"]
    /\ relq' = IF pc = "stopped" THEN relq ELSE Append(relq, t)
    /\ UNCHANGED <<req, ready, enqueuedAt, chan, closed, closer, actorVars, clockVars>>

(* health() queues its message behind the admissions. *)
SendHealth ==
    /\ probes < MaxProbes
    /\ ~closed
    /\ pc # "stopped"
    /\ Len(chan) < ChannelCapacity
    /\ chan' = Append(chan, HealthProbe)
    /\ probes' = probes + 1
    /\ UNCHANGED <<callerVars, ready, relq, closed, closer, actorVars, now>>

-----------------------------------------------------------------------------
(* Calls of shutdown(). *)

(* The swap of `closed`: every caller but the first returns at once. *)
ShutdownSwap(c) ==
    /\ closer[c] = "idle"
    /\ closed' = TRUE
    /\ closer' = [closer EXCEPT ![c] = IF closed THEN "returned" ELSE "won"]
    /\ UNCHANGED <<callerVars, ready, chan, relq, actorVars, clockVars>>

ShutdownSend(c) ==
    /\ closer[c] = "won"
    /\ closer' = [closer EXCEPT ![c] = IF pc = "stopped" THEN "drained" ELSE "sent"]
    /\ UNCHANGED <<callerVars, ready, chan, relq, closed, actorVars, clockVars>>

-----------------------------------------------------------------------------
(* The actor: run_scheduler.  Its biased select polls the three channels   *)
(* one after the other; a message that arrives on a channel already passed *)
(* over waits for the next round.                                          *)

(* Fault: the waiters are answered while leases are still out. *)
FinishShutdownAtOnce(isClosing, act, at) ==
    closer' = [c \in Closers |->
        IF isClosing /\ at[c] = "queued" THEN "drained" ELSE at[c]]

(* finish_shutdown_if_idle, with the active map and the waiters given. *)
FinishShutdownIfIdle(isClosing, act, at) ==
    closer' = [c \in Closers |->
        IF isClosing /\ act = {} /\ at[c] = "queued" THEN "drained" ELSE at[c]]

PollReleaseEmpty ==
    /\ pc = "pollRelease"
    /\ relq = <<>>
    /\ pc' = "pollShutdown"
    /\ UNCHANGED <<callerVars, ready, chan, relq, closed, closer, closing,
                   queueVars, active, quotaVars, counters, clockVars>>

(* The handler of Release up to its dispatch(). *)
ReleaseActive(t) ==
    /\ t \in active
    /\ active' = active \ {t}
    /\ Tally("released")
    /\ PruneIdleQuotas(t, AdjustQuotas(t, Released))
    /\ UNCHANGED <<pending, seqno, nextSeq, ready>>

ReleasePending(t) ==
    /\ t \notin active
    /\ t \in pending
    /\ pending' = pending \ {t}
    /\ seqno' = [seqno EXCEPT ![t] = 0]
    /\ Tally("cancelled")
    /\ PruneIdleQuotas(t, AdjustQuotas(t, Cancelled))
    /\ Reply(t, "cancelled")
    /\ UNCHANGED <<active, nextSeq>>

ReleaseUnmatched(t) ==
    /\ t \notin active \cup pending
    /\ UNCHANGED <<active, pending, seqno, nextSeq, quotaVars, counters, ready>>

(* Faults: the freed slot is not offered to the queue; the shutdown waiters*)
(* are not answered when the last lease goes.                              *)
HandleReleaseWithoutDispatch ==
    /\ pc = "pollRelease"
    /\ relq # <<>>
    /\ relq' = Tail(relq)
    /\ \/ ReleaseActive(Head(relq))
       \/ ReleasePending(Head(relq))
       \/ ReleaseUnmatched(Head(relq))
    /\ FinishShutdownIfIdle(closing, active', closer)
    /\ pc' = "loopEnd"
    /\ UNCHANGED <<callerVars, chan, closed, closing, eff, clockVars>>

HandleReleaseWithoutFinish ==
    /\ pc = "pollRelease"
    /\ relq # <<>>
    /\ relq' = Tail(relq)
    /\ \/ ReleaseActive(Head(relq))
       \/ ReleasePending(Head(relq))
       \/ ReleaseUnmatched(Head(relq))
    /\ IF closing THEN UNCHANGED eff ELSE ApplyAging(pending')
    /\ pc' = IF closing THEN "loopEnd" ELSE "dispatch"
    /\ UNCHANGED <<callerVars, chan, closed, closer, closing, clockVars>>

(* Release, with the start of dispatch(): its closing check and its aging. *)
HandleRelease ==
    /\ pc = "pollRelease"
    /\ relq # <<>>
    /\ relq' = Tail(relq)
    /\ \/ ReleaseActive(Head(relq))
       \/ ReleasePending(Head(relq))
       \/ ReleaseUnmatched(Head(relq))
    /\ IF closing THEN UNCHANGED eff ELSE ApplyAging(pending')
    /\ FinishShutdownIfIdle(closing, active', closer)
    /\ pc' = IF closing THEN "loopEnd" ELSE "dispatch"
    /\ UNCHANGED <<callerVars, chan, closed, closing, clockVars>>

PollShutdownEmpty ==
    /\ pc = "pollShutdown"
    /\ \A c \in Closers : closer[c] # "sent"
    /\ pc' = "pollRx"
    /\ UNCHANGED <<callerVars, ready, chan, relq, closed, closer, closing,
                   queueVars, active, quotaVars, counters, clockVars>>

HandleShutdown(c) ==
    /\ pc = "pollShutdown"
    /\ closer[c] = "sent"
    /\ closing' = TRUE
    /\ closed' = TRUE
    /\ closer' = [closer EXCEPT ![c] = "draining"]
    /\ pc' = "drain"
    /\ UNCHANGED <<callerVars, ready, chan, relq, queueVars, active,
                   quotaVars, counters, clockVars>>

(* One turn of the loop that pops and rejects the queue. *)
DrainOne(t) ==
    /\ pc = "drain"
    /\ t \in pending
    /\ \A u \in pending \ {t} : Precedes(t, u)
    /\ Dequeue(t)
    /\ Tally("rejected")
    /\ PruneIdleQuotas(t, AdjustQuotas(t, Rejected))
    /\ Reply(t, "closed")
    /\ UNCHANGED <<callerVars, chan, relq, closed, closer, pc, closing, active, clockVars>>

(* The queue is empty: the reply joins shutdown_waiters. *)
DrainDone ==
    /\ pc = "drain"
    /\ pending = {}
    /\ FinishShutdownIfIdle(closing, active,
           [c \in Closers |-> IF closer[c] = "draining" THEN "queued" ELSE closer[c]])
    /\ pc' = "loopEnd"
    /\ UNCHANGED <<callerVars, ready, chan, relq, closed, closing, queueVars,
                   active, quotaVars, counters, clockVars>>

PollRxEmpty ==
    /\ pc = "pollRx"
    /\ chan = <<>>
    /\ pc' = "pollRelease"
    /\ UNCHANGED <<callerVars, ready, chan, relq, closed, closer, closing,
                   queueVars, active, quotaVars, counters, clockVars>>

(* The three refusals of enqueue(), in the order of its tests. *)
RefuseEnqueue(t) ==
    /\ \/ closing /\ Reply(t, "closed") /\ UNCHANGED counters
       \/ /\ ~closing
          /\ Cardinality(pending) >= MaxPending
          /\ Reply(t, "atCapacity")
          /\ UNCHANGED counters
       \/ /\ ~closing
          /\ Cardinality(pending) < MaxPending
          /\ QuotaConflict(t)
          /\ Reply(t, "invalid")
          /\ Tally("rejected")
    /\ pc' = "loopEnd"
    /\ UNCHANGED <<queueVars, quotaVars>>

(* The item joins the queue; dispatch() starts with its aging. *)
AcceptEnqueue(t) ==
    /\ ~closing
    /\ Cardinality(pending) < MaxPending
    /\ ~QuotaConflict(t)
    /\ RegisterPendingQuotas(t)
    /\ pending' = pending \cup {t}
    /\ seqno' = [seqno EXCEPT ![t] = nextSeq]
    /\ nextSeq' = nextSeq + 1
    /\ ApplyAging(pending')
    /\ pc' = "dispatch"
    /\ UNCHANGED <<ready, counters>>

HandleEnqueue ==
    /\ pc = "pollRx"
    /\ chan # <<>>
    /\ Head(chan) \in Tasks
    /\ chan' = Tail(chan)
    /\ \/ RefuseEnqueue(Head(chan))
       \/ AcceptEnqueue(Head(chan))
    /\ UNCHANGED <<callerVars, relq, closed, closer, closing, active, clockVars>>

(* Health applies the aging that is due, and dispatches nothing. *)
HandleHealth ==
    /\ pc = "pollRx"
    /\ chan # <<>>
    /\ Head(chan) = HealthProbe
    /\ chan' = Tail(chan)
    /\ ApplyAging(pending)
    /\ pc' = "loopEnd"
    /\ UNCHANGED <<callerVars, ready, relq, closed, closer, closing, pending,
                   seqno, nextSeq, active, quotaVars, counters, clockVars>>

(* One turn of the loop of dispatch(): the selected item becomes active and*)
(* its caller is told.                                                     *)
DispatchAdmit(t) ==
    /\ pc = "dispatch"
    /\ Selected(t)
    /\ Listening(t)
    /\ Dequeue(t)
    /\ active' = active \cup {t}
    /\ quotas' = AdjustQuotas(t, Admitted)
    /\ Reply(t, "ok")
    /\ Tally("admitted")
    /\ UNCHANGED <<callerVars, chan, relq, closed, closer, pc, closing,
                   retained, retainedOrder, clockVars>>

(* Fault: an item without a listener ends the dispatch and stays queued. *)
DispatchKeepsAbandoned(t) ==
    /\ pc = "dispatch"
    /\ Selected(t)
    /\ ~Listening(t)
    /\ pc' = "loopEnd"
    /\ UNCHANGED <<callerVars, ready, chan, relq, closed, closer, closing,
                   queueVars, active, quotaVars, counters, clockVars>>

(* The caller is gone: the slot and the quotas are given back at once. *)
DispatchAbandoned(t) ==
    /\ pc = "dispatch"
    /\ Selected(t)
    /\ ~Listening(t)
    /\ Dequeue(t)
    /\ PruneIdleQuotas(t, AdjustQuotas(t, Abandoned))
    /\ Tally("cancelled")
    /\ UNCHANGED <<callerVars, ready, chan, relq, closed, closer, pc, closing,
                   active, clockVars>>

DispatchDone ==
    /\ pc = "dispatch"
    /\ \A t \in pending : ~Admissible(t)
    /\ pc' = "loopEnd"
    /\ UNCHANGED <<callerVars, ready, chan, relq, closed, closer, closing,
                   queueVars, active, quotaVars, counters, clockVars>>

(* The test that ends the loop.  The receivers go with the actor. *)
Continue ==
    /\ pc = "loopEnd"
    /\ ~(closing /\ active = {} /\ \A c \in Closers : closer[c] # "queued")
    /\ pc' = "pollRelease"
    /\ UNCHANGED <<callerVars, ready, chan, relq, closed, closer, closing,
                   queueVars, active, quotaVars, counters, clockVars>>

Stop ==
    /\ pc = "loopEnd"
    /\ closing
    /\ active = {}
    /\ \A c \in Closers : closer[c] # "queued"
    /\ pc' = "stopped"
    /\ closed' = TRUE
    /\ chan' = <<>>
    /\ relq' = <<>>
    /\ UNCHANGED <<callerVars, ready, closer, closing, queueVars, active,
                   quotaVars, counters, clockVars>>

(* The monotonic clock. *)
Tick ==
    /\ now < MaxTime
    /\ now' = now + 1
    /\ UNCHANGED <<callerVars, ready, chan, relq, closed, closer, actorVars, probes>>

-----------------------------------------------------------------------------
Caller(t) ==
    \/ RefuseAcquire(t) \/ BeginAcquire(t) \/ SendEnqueue(t) \/ CancelSend(t)
    \/ FailSend(t) \/ ReceiveLease(t) \/ ReceiveError(t) \/ AbandonWait(t) \/ DropLease(t)

Shutdown(c) == ShutdownSwap(c) \/ ShutdownSend(c)

Actor ==
    \/ PollReleaseEmpty \/ HandleRelease
    \/ PollShutdownEmpty \/ (\E c \in Closers : HandleShutdown(c))
    \/ (\E t \in Tasks : DrainOne(t)) \/ DrainDone
    \/ PollRxEmpty \/ HandleEnqueue \/ HandleHealth
    \/ (\E t \in Tasks : DispatchAdmit(t) \/ DispatchAbandoned(t)) \/ DispatchDone
    \/ Continue \/ Stop

Next ==
    \/ \E t \in Tasks : Caller(t)
    \/ \E c \in Closers : Shutdown(c)
    \/ Actor
    \/ SendHealth
    \/ Tick

Spec == Init /\ [][Next]_vars

(* Fairness.  The actor is a spawned task that Tokio keeps polling, and so *)
(* is every caller: a send with room, an answer that has arrived and a     *)
(* dropped lease are acted on.  That a holder drops its lease is the       *)
(* caller's duty, discharged by RAII.  Nobody has to start or to cancel.   *)
Fairness ==
    /\ WF_vars(Actor)
    /\ \A t \in Tasks : /\ WF_vars(SendEnqueue(t))
                        /\ WF_vars(FailSend(t))
                        /\ WF_vars(ReceiveLease(t))
                        /\ WF_vars(ReceiveError(t))
                        /\ WF_vars(DropLease(t))
    /\ \A c \in Closers : WF_vars(ShutdownSend(c))

FairSpec == Spec /\ Fairness

-----------------------------------------------------------------------------
(* Properties. *)

(* The types of the variables that admission depends on: all of them but   *)
(* the eviction order of the retained records.                             *)
TypeOK ==
    /\ req \in [Tasks -> Requests]
    /\ caller \in [Tasks -> {"idle", "sending", "waiting", "holding", "unwinding", "done"}]
    /\ ready \in [Tasks -> {"none", "ok", "cancelled", "closed", "atCapacity", "invalid"}]
    /\ enqueuedAt \in [Tasks -> Nat]
    /\ chan \in Seq(Tasks \cup {HealthProbe})
    /\ relq \in Seq(Tasks)
    /\ closed \in BOOLEAN
    /\ closer \in [Closers -> {"idle", "won", "sent", "draining", "queued",
                               "drained", "returned"}]
    /\ pc \in {"pollRelease", "pollShutdown", "pollRx", "dispatch", "drain",
               "loopEnd", "stopped"}
    /\ closing \in BOOLEAN
    /\ pending \subseteq Tasks
    /\ seqno \in [Tasks -> Nat]
    /\ nextSeq \in Nat
    /\ eff \in [Tasks -> 0..4]
    /\ active \subseteq Tasks
    /\ quotas \in [QuotaId -> QuotaState \cup {NoQuota}]
    /\ retained \in [QuotaId -> QuotaState \cup {NoQuota}]
    /\ counters \in [Outcome -> Nat]
    /\ now \in Nat
    /\ probes \in Nat

Holders == {t \in Tasks : caller[t] = "holding"}

(* The leases callers really hold never exceed the global slots nor, on    *)
(* any quota dimension, the limit each holder asked for: what the actor    *)
(* believes (its active map, its quota counters) and what the callers own  *)
(* change at different moments, with releases and cancellations in flight. *)
HoldersBounded ==
    /\ Cardinality(Global(Holders)) <= MaxActive
    /\ \A t \in Holders : \A q \in Dims(t) :
         Cardinality({u \in Holders : q \in Dims(u)}) <= req[t].limit[q]

On(S, q) == {t \in S : q \in Dims(t)}

(* A quota is live exactly while an admission or a queued item uses it, its*)
(* occupancy counters are the true numbers, and everybody on it agrees on  *)
(* its limit: enqueue(), dispatch(), the three ways to settle and the      *)
(* retirement of idle quotas keep separate copies of this fact.            *)
QuotaAccounting ==
    \A q \in QuotaId :
        IF quotas[q] = NoQuota
        THEN On(active \cup pending, q) = {}
        ELSE /\ quotas[q].active = Cardinality(On(active, q))
             /\ quotas[q].pending = Cardinality(On(pending, q))
             /\ On(active \cup pending, q) # {}
             /\ \A t \in On(active \cup pending, q) : req[t].limit[q] = quotas[q].max

(* Every occupied slot still has somebody who will give it back: a caller  *)
(* about to receive or holding the lease, a lease being dropped, or a      *)
(* Release on its way.  Cancellation races of acquire_inner leak none.     *)
NoLeakedSlot ==
    \A t \in active :
        \/ caller[t] = "waiting" /\ ready[t] = "ok"
        \/ caller[t] \in {"holding", "unwinding"}
        \/ caller[t] = "done" /\ t \in Elements(relq)

(* When the actor waits for a message, nothing in the queue could run:     *)
(* every handler that frees capacity or adds work dispatches before it     *)
(* ends, so a slot is never idle while an eligible item waits.             *)
WorkConserving ==
    pc \in {"pollRelease", "pollShutdown", "pollRx"} /\ ~closing
        => \A t \in pending : ~Admissible(t)

(* Once the shutdown that won the swap has returned, no lease is held, none*)
(* is on its way to a caller and no item is queued: it waited for the      *)
(* admitted leases and rejected the pending work.                          *)
ShutdownDrains ==
    (\E c \in Closers : closer[c] = "drained") =>
        /\ active = {} /\ pending = {}
        /\ \A t \in Tasks : /\ caller[t] # "holding"
                            /\ ~(caller[t] = "waiting" /\ ready[t] = "ok")

Admits(t) == t \in active' \ active

(* An eligible urgent item is never passed over for a less important one,  *)
(* and an item is never passed over for one that asked later, with no      *)
(* higher priority, and queued later: aging keeps FIFO within a class.     *)
NoOvertaking ==
    [][\A t, u \in Tasks :
         Admits(t) /\ u \in pending \ {t} /\ Admissible(u) =>
            /\ req[u].priority = 0 => req[t].priority = 0
            /\ ~ (/\ req[u].priority <= req[t].priority
                  /\ enqueuedAt[u] <= enqueuedAt[t]
                  /\ seqno[u] < seqno[t])]_vars

(* Aging is starvation-safe: once an item has waited long enough to reach  *)
(* the Interactive class, an eligible one is passed over for nothing that  *)
(* was requested after that moment and queued behind it, except Urgent.    *)
AgedNotStarved ==
    [][\A t, u \in Tasks :
         (/\ Admits(t) /\ u \in pending \ {t} /\ Admissible(u)
          /\ req[t].priority # 0
          /\ enqueuedAt[u] + (req[u].priority - 1) * AgingInterval <= enqueuedAt[t])
            => seqno[t] < seqno[u]]_vars

(* Every call that queued its request gets an answer, whoever cancels      *)
(* around it and even if the actor stops first.                            *)
AcquireReturns ==
    \A t \in Tasks : caller[t] \in {"sending", "waiting"} ~> caller[t] \in {"holding", "done"}

(* A shutdown that won the swap returns, since leases are dropped. *)
ShutdownReturns ==
    \A c \in Closers : closer[c] = "won" ~> closer[c] = "drained"

(* Every item leaves the queue in the end: an item orphaned by a Release   *)
(* that overtook its Enqueue does not occupy a place for ever.             *)
QueueEmpties ==
    \A t \in Tasks : t \in pending ~> t \notin pending

-----------------------------------------------------------------------------
(* The scheduler implements the abstract admission limits. *)
Limits == INSTANCE AdmissionLimits WITH
    held <- Holders,
    spent <- {t \in Tasks : caller[t] \in {"unwinding", "done"}},
    over <- \E c \in Closers : closer[c] = "drained"

(* Seen from its callers, the actor with its channels, its queue and its   *)
(* cancellation races behaves as the abstract specification: a lease is    *)
(* granted only within the limits of the leases then held, once per call,  *)
(* and none after shutdown has returned.                                   *)
ImplementsLimits == Limits!Spec
=============================================================================
