------------------------ MODULE TaskSchedulerProofs ------------------------
(* Theorems about TaskScheduler, for every value of its constants. *)
EXTENDS TaskScheduler, FiniteSetTheorems, SequenceTheorems, TLAPS

-----------------------------------------------------------------------------
(* The operators on quota states. *)

LEMMA NewQuotaFields ==
    ASSUME NEW limit \in Nat
    PROVE  /\ NewQuota(limit) \in QuotaState
           /\ NewQuota(limit).max = limit
           /\ NewQuota(limit).active = 0
           /\ NewQuota(limit).pending = 0
BY DEF NewQuota, QuotaState, NoOutcome, Outcome

LEMMA CountFields ==
    ASSUME NEW s \in QuotaState, NEW o \in Outcome
    PROVE  /\ Count(s, o) \in QuotaState
           /\ Count(s, o).max = s.max
           /\ Count(s, o).active = s.active
           /\ Count(s, o).pending = s.pending
BY DEF Count, QuotaState, Outcome

LEMMA DropPendingFields ==
    ASSUME NEW s \in QuotaState
    PROVE  /\ DropPending(s) \in QuotaState
           /\ DropPending(s).max = s.max
           /\ DropPending(s).active = s.active
           /\ DropPending(s).pending = SaturatingDec(s.pending)
BY DEF DropPending, SaturatingDec, QuotaState

LEMMA DropActiveFields ==
    ASSUME NEW s \in QuotaState
    PROVE  /\ DropActive(s) \in QuotaState
           /\ DropActive(s).max = s.max
           /\ DropActive(s).active = SaturatingDec(s.active)
           /\ DropActive(s).pending = s.pending
BY DEF DropActive, SaturatingDec, QuotaState

LEMMA PendingToActiveFields ==
    ASSUME NEW s \in QuotaState
    PROVE  /\ PendingToActive(s) \in QuotaState
           /\ PendingToActive(s).max = s.max
           /\ PendingToActive(s).active = s.active + 1
           /\ PendingToActive(s).pending = SaturatingDec(s.pending)
BY DropPendingFields DEF PendingToActive, QuotaState

LEMMA SettledFields ==
    ASSUME NEW s \in QuotaState
    PROVE  /\ Released(s) \in QuotaState
           /\ Released(s).max = s.max
           /\ Released(s).active = SaturatingDec(s.active)
           /\ Released(s).pending = s.pending
           /\ Cancelled(s) \in QuotaState
           /\ Cancelled(s).max = s.max
           /\ Cancelled(s).active = s.active
           /\ Cancelled(s).pending = SaturatingDec(s.pending)
           /\ Rejected(s) \in QuotaState
           /\ Rejected(s).max = s.max
           /\ Rejected(s).active = s.active
           /\ Rejected(s).pending = SaturatingDec(s.pending)
           /\ Admitted(s) \in QuotaState
           /\ Admitted(s).max = s.max
           /\ Admitted(s).active = s.active + 1
           /\ Admitted(s).pending = SaturatingDec(s.pending)
           /\ Abandoned(s) \in QuotaState
           /\ Abandoned(s).max = s.max
           /\ Abandoned(s).active = s.active
           /\ Abandoned(s).pending = SaturatingDec(s.pending)
<1>0. {"released", "cancelled", "rejected", "admitted"} \subseteq Outcome
  BY DEF Outcome
<1>1. /\ DropActive(s) \in QuotaState
      /\ DropPending(s) \in QuotaState
      /\ PendingToActive(s) \in QuotaState
      /\ DropActive(PendingToActive(s)) \in QuotaState
  BY DropActiveFields, DropPendingFields, PendingToActiveFields
<1>2. DropActive(PendingToActive(s)).active = s.active
  <2>1. DropActive(PendingToActive(s)).active = SaturatingDec(s.active + 1)
    BY <1>1, DropActiveFields, PendingToActiveFields
  <2> QED  BY <2>1 DEF SaturatingDec, QuotaState
<1>3. DropActive(PendingToActive(s)).pending = SaturatingDec(s.pending)
  BY <1>1, DropActiveFields, PendingToActiveFields
<1>4. DropActive(PendingToActive(s)).max = s.max
  BY <1>1, DropActiveFields, PendingToActiveFields
<1> QED
  BY <1>0, <1>1, <1>2, <1>3, <1>4, CountFields, DropActiveFields, DropPendingFields,
     PendingToActiveFields
     DEF Released, Cancelled, Rejected, Admitted, Abandoned

QuotaMaps == [QuotaId -> QuotaState \cup {NoQuota}]

LEMMA AdjustType ==
    ASSUME NEW t \in Tasks, quotas \in QuotaMaps
    PROVE  /\ AdjustQuotas(t, Released) \in QuotaMaps
           /\ AdjustQuotas(t, Cancelled) \in QuotaMaps
           /\ AdjustQuotas(t, Rejected) \in QuotaMaps
           /\ AdjustQuotas(t, Admitted) \in QuotaMaps
           /\ AdjustQuotas(t, Abandoned) \in QuotaMaps
BY SettledFields DEF AdjustQuotas, QuotaMaps

LEMMA PruneType ==
    ASSUME NEW t \in Tasks, NEW qs \in QuotaMaps, retained \in QuotaMaps,
           PruneIdleQuotas(t, qs)
    PROVE  quotas' \in QuotaMaps /\ retained' \in QuotaMaps
BY DEF PruneIdleQuotas, QuotaMaps

LEMMA RegisterType ==
    ASSUME NEW t \in Tasks, req \in [Tasks -> Requests], quotas \in QuotaMaps,
           retained \in QuotaMaps, RegisterPendingQuotas(t)
    PROVE  quotas' \in QuotaMaps /\ retained' \in QuotaMaps
<1> DEFINE R(q) == IF quotas[q] = NoQuota THEN RevivedQuota(t, q) ELSE quotas[q]
<1>1. ASSUME NEW q \in QuotaId  PROVE R(q) \in QuotaState
  <2>1. req[t].limit[q] \in Nat
    BY RequestsAssumption
  <2>2. NewQuota(req[t].limit[q]) \in QuotaState
    BY <2>1, NewQuotaFields
  <2> QED  BY <2>2 DEF RevivedQuota, QuotaMaps
<1>2. ASSUME NEW s \in QuotaState  PROVE [s EXCEPT !.pending = @ + 1] \in QuotaState
  BY DEF QuotaState
<1>3. quotas' = [q \in QuotaId |-> IF q \in Dims(t)
                                   THEN [R(q) EXCEPT !.pending = @ + 1] ELSE quotas[q]]
  BY DEF RegisterPendingQuotas
<1>4. retained' \in QuotaMaps
  BY DEF RegisterPendingQuotas, QuotaMaps
<1> QED  BY <1>1, <1>2, <1>3, <1>4 DEF QuotaMaps

LEMMA AgedPriorityType ==
    ASSUME NEW t \in Tasks, req \in [Tasks -> Requests], enqueuedAt \in [Tasks -> Nat],
           now \in Nat, enqueuedAt[t] <= now
    PROVE  AgedPriority(t) \in 0..4
<1>1. req[t].priority \in 0..4
  BY RequestsAssumption
<1>2. (now - enqueuedAt[t]) \div AgingInterval \in Nat
  BY BoundsAssumption
<1> QED  BY <1>1, <1>2 DEF AgedPriority

-----------------------------------------------------------------------------
(* Type correctness.  The effective priority stays in range because no     *)
(* item carries a time later than the clock.                               *)
ClockOK == \A t \in Tasks : enqueuedAt[t] <= now

TypeInv == TypeOK /\ ClockOK

LEMMA TypeInit == Init => TypeInv
<1> SUFFICES ASSUME Init PROVE TypeInv
  OBVIOUS
<1>1. \A t \in Tasks : req[t].priority \in 0..4
  BY RequestsAssumption DEF Init
<1>2. chan \in Seq(Tasks \cup {HealthProbe}) /\ relq \in Seq(Tasks)
  BY EmptySeq DEF Init
<1>3. counters \in [Outcome -> Nat]
  BY DEF Init, NoOutcome
<1>4. eff \in [Tasks -> 0..4] /\ seqno \in [Tasks -> Nat] /\ enqueuedAt \in [Tasks -> Nat]
  BY <1>1 DEF Init
<1>5. caller \in [Tasks -> {"idle", "sending", "waiting", "holding", "unwinding", "done"}]
  BY DEF Init
<1>6. ready \in [Tasks -> {"none", "ok", "cancelled", "closed", "atCapacity", "invalid"}]
  BY DEF Init
<1>7. closer \in [Closers -> {"idle", "won", "sent", "draining", "queued", "drained", "returned"}]
  BY DEF Init
<1>8. /\ quotas \in [QuotaId -> QuotaState \cup {NoQuota}]
      /\ retained \in [QuotaId -> QuotaState \cup {NoQuota}]
  BY DEF Init
<1>9. ClockOK
  BY DEF Init, ClockOK
<1>10. closed \in BOOLEAN /\ closing \in BOOLEAN
  BY DEF Init
<1> QED  BY <1>2, <1>3, <1>4, <1>5, <1>6, <1>7, <1>8, <1>9, <1>10 DEF Init, TypeInv, TypeOK

LEMMA AgingType ==
    ASSUME TypeInv, NEW S, ApplyAging(S)
    PROVE  eff' \in [Tasks -> 0..4]
<1>1. \A t \in Tasks : req[t].priority \in 0..4
  BY RequestsAssumption DEF TypeInv, TypeOK
<1>2. \A t \in Tasks : AgedPriority(t) \in 0..4
  BY AgedPriorityType DEF TypeInv, TypeOK, ClockOK
<1> QED  BY <1>1, <1>2 DEF ApplyAging

LEMMA DequeueType ==
    ASSUME TypeInv, NEW t \in Tasks, Dequeue(t)
    PROVE  /\ pending' \subseteq Tasks
           /\ seqno' \in [Tasks -> Nat]
           /\ nextSeq' \in Nat
           /\ eff' \in [Tasks -> 0..4]
<1>1. req[t].priority \in 0..4
  BY RequestsAssumption DEF TypeInv, TypeOK
<1> QED  BY <1>1 DEF Dequeue, TypeInv, TypeOK

LEMMA CallerType ==
    ASSUME TypeInv, NEW t \in Tasks, Caller(t)
    PROVE  TypeInv'
<1> USE DEF TypeInv, TypeOK, ClockOK, actorVars, queueVars, quotaVars, clockVars, callerVars
<1>1. CASE RefuseAcquire(t)  BY <1>1 DEF RefuseAcquire
<1>2. CASE BeginAcquire(t)  BY <1>2 DEF BeginAcquire
<1>3. CASE SendEnqueue(t)  BY <1>3 DEF SendEnqueue
<1>4. CASE CancelSend(t)  BY <1>4 DEF CancelSend
<1>5. CASE FailSend(t)  BY <1>5 DEF FailSend
<1>6. CASE ReceiveLease(t)  BY <1>6 DEF ReceiveLease
<1>7. CASE ReceiveError(t)  BY <1>7 DEF ReceiveError
<1>8. CASE AbandonWait(t)  BY <1>8 DEF AbandonWait
<1>9. CASE DropLease(t)  BY <1>9 DEF DropLease
<1> QED  BY <1>1, <1>2, <1>3, <1>4, <1>5, <1>6, <1>7, <1>8, <1>9 DEF Caller

LEMMA ReplyType ==
    ASSUME TypeInv, NEW t \in Tasks,
           NEW a \in {"ok", "cancelled", "closed", "atCapacity", "invalid"}, Reply(t, a)
    PROVE  ready' \in [Tasks -> {"none", "ok", "cancelled", "closed", "atCapacity", "invalid"}]
BY DEF Reply, TypeInv, TypeOK

LEMMA TallyType ==
    ASSUME TypeInv, NEW o \in Outcome, Tally(o)
    PROVE  counters' \in [Outcome -> Nat]
BY DEF Tally, TypeInv, TypeOK

LEMMA OutcomeNames ==
    /\ "admitted" \in Outcome /\ "released" \in Outcome
    /\ "cancelled" \in Outcome /\ "rejected" \in Outcome
BY DEF Outcome

LEMMA ReleaseType ==
    ASSUME TypeInv, HandleRelease
    PROVE  TypeInv'
<1> DEFINE t == Head(relq)
<1>1. t \in Tasks /\ relq' \in Seq(Tasks)
  BY HeadTailProperties DEF HandleRelease, TypeInv, TypeOK
<1>2. /\ active' \subseteq Tasks /\ pending' \subseteq Tasks
      /\ seqno' \in [Tasks -> Nat] /\ nextSeq' \in Nat
      /\ quotas' \in QuotaMaps /\ retained' \in QuotaMaps
      /\ counters' \in [Outcome -> Nat]
      /\ ready' \in [Tasks -> {"none", "ok", "cancelled", "closed", "atCapacity", "invalid"}]
  <2>1. CASE ReleaseActive(t)
    BY <1>1, <2>1, AdjustType, PruneType, TallyType, OutcomeNames
       DEF ReleaseActive, TypeInv, TypeOK, QuotaMaps
  <2>2. CASE ReleasePending(t)
    BY <1>1, <2>2, AdjustType, PruneType, TallyType, ReplyType, OutcomeNames
       DEF ReleasePending, TypeInv, TypeOK, QuotaMaps
  <2>3. CASE ReleaseUnmatched(t)
    BY <2>3 DEF ReleaseUnmatched, quotaVars, TypeInv, TypeOK, QuotaMaps
  <2> QED  BY <2>1, <2>2, <2>3 DEF HandleRelease
<1>3. eff' \in [Tasks -> 0..4]
  BY AgingType DEF HandleRelease, TypeInv, TypeOK
<1>4. closer' \in [Closers -> {"idle", "won", "sent", "draining", "queued", "drained", "returned"}]
  BY DEF HandleRelease, FinishShutdownIfIdle, TypeInv, TypeOK
<1>5. pc' \in {"loopEnd", "dispatch"}
  BY DEF HandleRelease
<1>6. UNCHANGED <<req, caller, enqueuedAt, chan, closed, closing, now, probes>>
  BY DEF HandleRelease, callerVars, clockVars
<1> QED
  BY <1>1, <1>2, <1>3, <1>4, <1>5, <1>6 DEF TypeInv, TypeOK, ClockOK, QuotaMaps

LEMMA EnqueueType ==
    ASSUME TypeInv, HandleEnqueue
    PROVE  TypeInv'
<1> DEFINE t == Head(chan)
<1>1. t \in Tasks /\ chan' \in Seq(Tasks \cup {HealthProbe})
  BY HeadTailProperties DEF HandleEnqueue, TypeInv, TypeOK
<1>2. /\ pending' \subseteq Tasks
      /\ seqno' \in [Tasks -> Nat] /\ nextSeq' \in Nat /\ eff' \in [Tasks -> 0..4]
      /\ quotas' \in QuotaMaps /\ retained' \in QuotaMaps
      /\ counters' \in [Outcome -> Nat]
      /\ ready' \in [Tasks -> {"none", "ok", "cancelled", "closed", "atCapacity", "invalid"}]
      /\ pc' \in {"loopEnd", "dispatch"}
  <2>1. CASE RefuseEnqueue(t)
    <3>1. counters' \in [Outcome -> Nat]
      BY <2>1, TallyType, OutcomeNames DEF RefuseEnqueue, TypeInv, TypeOK
    <3>2. ready' \in [Tasks -> {"none", "ok", "cancelled", "closed", "atCapacity", "invalid"}]
      BY <1>1, <2>1, ReplyType DEF RefuseEnqueue
    <3>3. UNCHANGED <<pending, seqno, nextSeq, eff, quotas, retained>> /\ pc' = "loopEnd"
      BY <2>1 DEF RefuseEnqueue, queueVars, quotaVars
    <3> QED  BY <3>1, <3>2, <3>3 DEF TypeInv, TypeOK, QuotaMaps
  <2>2. CASE AcceptEnqueue(t)
    <3>1. quotas' \in QuotaMaps /\ retained' \in QuotaMaps
      BY <1>1, <2>2, RegisterType DEF AcceptEnqueue, TypeInv, TypeOK, QuotaMaps
    <3>2. eff' \in [Tasks -> 0..4]
      BY <2>2, AgingType DEF AcceptEnqueue
    <3>3. /\ pending' \subseteq Tasks /\ seqno' \in [Tasks -> Nat] /\ nextSeq' \in Nat
          /\ pc' \in {"loopEnd", "dispatch"}
      BY <1>1, <2>2 DEF AcceptEnqueue, TypeInv, TypeOK
    <3>4. /\ counters' \in [Outcome -> Nat]
          /\ ready' \in [Tasks -> {"none", "ok", "cancelled", "closed", "atCapacity", "invalid"}]
      BY <2>2 DEF AcceptEnqueue, TypeInv, TypeOK
    <3> QED  BY <3>1, <3>2, <3>3, <3>4
  <2> QED  BY <2>1, <2>2 DEF HandleEnqueue
<1>3. UNCHANGED <<req, caller, enqueuedAt, relq, closed, closer, closing, active, now, probes>>
  BY DEF HandleEnqueue, callerVars, clockVars
<1> QED
  BY <1>1, <1>2, <1>3 DEF TypeInv, TypeOK, ClockOK, QuotaMaps

LEMMA SettleType ==
    ASSUME TypeInv, NEW t \in Tasks,
           DrainOne(t) \/ DispatchAdmit(t) \/ DispatchAbandoned(t)
    PROVE  TypeInv'
<1>1. /\ pending' \subseteq Tasks /\ seqno' \in [Tasks -> Nat]
      /\ nextSeq' \in Nat /\ eff' \in [Tasks -> 0..4]
  BY DequeueType DEF DrainOne, DispatchAdmit, DispatchAbandoned
<1>2. quotas' \in QuotaMaps /\ retained' \in QuotaMaps
  BY AdjustType, PruneType
     DEF DrainOne, DispatchAdmit, DispatchAbandoned, TypeInv, TypeOK, QuotaMaps
<1>3. ready' \in [Tasks -> {"none", "ok", "cancelled", "closed", "atCapacity", "invalid"}]
  BY ReplyType DEF DrainOne, DispatchAdmit, DispatchAbandoned, TypeInv, TypeOK
<1>4. counters' \in [Outcome -> Nat]
  BY TallyType, OutcomeNames DEF DrainOne, DispatchAdmit, DispatchAbandoned
<1>5. /\ active' \subseteq Tasks
      /\ UNCHANGED <<req, caller, enqueuedAt, chan, relq, closed, closer, pc, closing, now, probes>>
  BY DEF DrainOne, DispatchAdmit, DispatchAbandoned, TypeInv, TypeOK, callerVars, clockVars
<1> QED
  BY <1>1, <1>2, <1>3, <1>4, <1>5 DEF TypeInv, TypeOK, ClockOK, QuotaMaps

LEMMA HealthType ==
    ASSUME TypeInv, HandleHealth
    PROVE  TypeInv'
<1>1. chan' \in Seq(Tasks \cup {HealthProbe})
  BY HeadTailProperties DEF HandleHealth, TypeInv, TypeOK
<1>2. eff' \in [Tasks -> 0..4]
  BY AgingType DEF HandleHealth
<1> QED
  BY <1>1, <1>2 DEF HandleHealth, TypeInv, TypeOK, ClockOK, callerVars, quotaVars, clockVars

(* Every step keeps the types. *)
LEMMA TypeStep ==
    ASSUME TypeInv, [Next]_vars
    PROVE  TypeInv'
<1>1. CASE \E t \in Tasks : Caller(t)
  BY <1>1, CallerType
<1>2. ASSUME NEW c \in Closers, Shutdown(c)  PROVE TypeInv'
  BY <1>2 DEF Shutdown, ShutdownSwap, ShutdownSend, TypeInv, TypeOK, ClockOK,
              callerVars, actorVars, queueVars, quotaVars, clockVars
<1>3. CASE Actor
  <2> USE DEF TypeInv, TypeOK, ClockOK, callerVars, queueVars, quotaVars, clockVars
  <2>1. CASE PollReleaseEmpty  BY <2>1 DEF PollReleaseEmpty
  <2>2. CASE HandleRelease  BY <2>2, ReleaseType
  <2>3. CASE PollShutdownEmpty  BY <2>3 DEF PollShutdownEmpty
  <2>4. ASSUME NEW c \in Closers, HandleShutdown(c)  PROVE TypeInv'
    BY <2>4 DEF HandleShutdown
  <2>5. ASSUME NEW t \in Tasks, DrainOne(t) \/ DispatchAdmit(t) \/ DispatchAbandoned(t)
        PROVE  TypeInv'
    BY <2>5, SettleType
  <2>6. CASE DrainDone  BY <2>6 DEF DrainDone, FinishShutdownIfIdle
  <2>7. CASE PollRxEmpty  BY <2>7 DEF PollRxEmpty
  <2>8. CASE HandleEnqueue  BY <2>8, EnqueueType
  <2>9. CASE HandleHealth  BY <2>9, HealthType
  <2>10. CASE DispatchDone  BY <2>10 DEF DispatchDone
  <2>11. CASE Continue  BY <2>11 DEF Continue
  <2>12. CASE Stop  BY <2>12, EmptySeq DEF Stop
  <2> QED
    BY <1>3, <2>1, <2>2, <2>3, <2>4, <2>5, <2>6, <2>7, <2>8, <2>9, <2>10, <2>11, <2>12
       DEF Actor
<1>4. CASE SendHealth
  BY <1>4 DEF SendHealth, TypeInv, TypeOK, ClockOK,
              callerVars, actorVars, queueVars, quotaVars, clockVars
<1>5. CASE Tick
  BY <1>5 DEF Tick, TypeInv, TypeOK, ClockOK,
              callerVars, actorVars, queueVars, quotaVars, clockVars
<1>6. CASE UNCHANGED vars
  BY <1>6 DEF vars, TypeInv, TypeOK, ClockOK
<1> QED  BY <1>1, <1>2, <1>3, <1>4, <1>5, <1>6 DEF Next

(* The variables of the scheduler always have their types: in particular   *)
(* no quota counter goes below zero, aging never leaves the five priority  *)
(* classes, and the maps hold quota states or nothing.                     *)
THEOREM TypeCorrect == Spec => []TypeOK
<1>1. Spec => []TypeInv
  BY TypeInit, TypeStep, PTL DEF Spec
<1>2. TypeInv => TypeOK
  BY DEF TypeInv
<1> QED  BY <1>1, <1>2, PTL

-----------------------------------------------------------------------------
(* The inductive invariant behind the limits. *)

(* A call that has not sent its item has left no trace, and an item is in  *)
(* one place at a time: once in the channel, in the queue, or active.      *)
OnePlace ==
    /\ \A t \in Tasks : caller[t] \in {"idle", "sending"} =>
         /\ ready[t] = "none"
         /\ t \notin active \cup pending
         /\ \A i \in 1..Len(chan) : chan[i] # t
    /\ \A i \in 1..Len(chan) : chan[i] \notin active \cup pending
    /\ \A i, j \in 1..Len(chan) : chan[i] = chan[j] /\ chan[i] \in Tasks => i = j
    /\ active \cap pending = {}

(* A lease held, or granted and not yet received, has its slot, because a  *)
(* Release is only ever on its way for a call that is over.                *)
Backed ==
    /\ \A t \in Tasks : caller[t] = "holding" \/ (caller[t] = "waiting" /\ ready[t] = "ok")
                            => t \in active
    /\ \A i \in 1..Len(relq) : caller[relq[i]] = "done"

SlotBound ==
    /\ IsFiniteSet(active)
    /\ IsFiniteSet(pending)
    /\ GlobalActiveCount <= MaxActive

SlotInv == OnePlace /\ Backed /\ SlotBound

(* The state s of quota q is exact when A is active and P is queued: the   *)
(* counters are the true numbers, within the limit all of them agree on.   *)
Exact(s, q, A, P) ==
    IF s = NoQuota
    THEN On(A, q) = {} /\ On(P, q) = {}
    ELSE /\ s.active = Cardinality(On(A, q))
         /\ s.pending = Cardinality(On(P, q))
         /\ s.active <= s.max
         /\ \A t \in On(A, q) \cup On(P, q) : req[t].limit[q] = s.max

QuotaInv ==
    \A q \in QuotaId :
        /\ Exact(quotas[q], q, active, pending)
        /\ quotas[q] # NoQuota => ~Idle(quotas[q])
        /\ retained[q] # NoQuota => Idle(retained[q])

(* A closing scheduler admits nothing, and a shutdown that returned found  *)
(* everything given back.                                                  *)
ShutdownInv ==
    /\ pc = "drain" => closing
    /\ pc = "dispatch" => ~closing
    /\ closing /\ pc # "drain" => pending = {}
    /\ pc = "stopped" => closing /\ active = {}
    /\ \A c \in Closers : closer[c] = "drained" => closing /\ active = {} /\ pending = {}

-----------------------------------------------------------------------------
(* SlotInv is inductive. *)

LEMMA SlotInit == Init => SlotInv
<1> SUFFICES ASSUME Init PROVE SlotInv
  OBVIOUS
<1>1. active = {} /\ pending = {} /\ chan = <<>> /\ relq = <<>>
  BY DEF Init
<1>2. IsFiniteSet({}) /\ Cardinality({}) = 0
  BY FS_EmptySet
<1>3. SlotBound
  BY <1>1, <1>2, BoundsAssumption DEF SlotBound, GlobalActiveCount, Global
<1>4. OnePlace /\ Backed
  BY <1>1 DEF Init, OnePlace, Backed
<1> QED  BY <1>3, <1>4 DEF SlotInv

LEMMA SlotFrame ==
    ASSUME SlotInv, UNCHANGED <<req, caller, ready, chan, relq, active, pending>>
    PROVE  SlotInv'
BY DEF SlotInv, OnePlace, Backed, SlotBound, GlobalActiveCount, Global

LEMMA SlotBoundFrame ==
    ASSUME SlotBound, UNCHANGED <<req, active, pending>>
    PROVE  SlotBound'
BY DEF SlotBound, GlobalActiveCount, Global

LEMMA CallerSlot ==
    ASSUME TypeInv, SlotInv, NEW t \in Tasks, Caller(t)
    PROVE  SlotInv'
<1> USE DEF SlotInv, OnePlace, Backed, TypeInv, TypeOK
<1>0. UNCHANGED <<req, active, pending, ready>>
  BY DEF Caller, RefuseAcquire, BeginAcquire, SendEnqueue, CancelSend, FailSend, ReceiveLease,
         ReceiveError, AbandonWait, DropLease, actorVars, queueVars
<1>1. SlotBound'
  BY <1>0, SlotBoundFrame
<1>2. CASE RefuseAcquire(t)  BY <1>0, <1>1, <1>2 DEF RefuseAcquire
<1>3. CASE BeginAcquire(t)  BY <1>0, <1>1, <1>3 DEF BeginAcquire
<1>4. CASE SendEnqueue(t)
  <2>1. chan' = Append(chan, t) /\ relq' = relq /\ caller' = [caller EXCEPT ![t] = "waiting"]
    BY <1>4 DEF SendEnqueue
  <2>2. Len(chan') = Len(chan) + 1 /\ chan'[Len(chan) + 1] = t
    BY <2>1
  <2>3. \A i \in 1..Len(chan) : chan'[i] = chan[i] /\ chan[i] # t
    BY <1>4, <2>1 DEF SendEnqueue
  <2>4. t \notin active \cup pending /\ ready[t] = "none"
    BY <1>4 DEF SendEnqueue
  <2>5. OnePlace'
    BY <1>0, <2>1, <2>2, <2>3, <2>4
  <2>6. Backed'
    BY <1>0, <1>4, <2>1, <2>4 DEF SendEnqueue
  <2> QED  BY <1>1, <2>5, <2>6
<1>5. CASE CancelSend(t)  BY <1>0, <1>1, <1>5 DEF CancelSend
<1>6. CASE FailSend(t)  BY <1>0, <1>1, <1>6 DEF FailSend
<1>7. CASE ReceiveLease(t)  BY <1>0, <1>1, <1>7 DEF ReceiveLease
<1>8. CASE ReceiveError(t)  BY <1>0, <1>1, <1>8 DEF ReceiveError
<1>9. CASE AbandonWait(t)  BY <1>0, <1>1, <1>9 DEF AbandonWait
<1>10. CASE DropLease(t)
  <2>1. OnePlace'
    BY <1>0, <1>10 DEF DropLease
  <2>2. Backed'
    BY <1>0, <1>10 DEF DropLease
  <2> QED  BY <1>1, <2>1, <2>2
<1> QED  BY <1>2, <1>3, <1>4, <1>5, <1>6, <1>7, <1>8, <1>9, <1>10 DEF Caller

(* Taking a task out of the slots or of the queue keeps the bound. *)
LEMMA ShrinkBound ==
    ASSUME SlotBound, active' \subseteq active, pending' \subseteq pending, req' = req
    PROVE  SlotBound'
<1>1. IsFiniteSet(active') /\ IsFiniteSet(pending')
  BY FS_Subset DEF SlotBound
<1>2. IsFiniteSet(Global(active)) /\ Global(active)' \subseteq Global(active)
  BY FS_Subset DEF SlotBound, Global
<1>3. Cardinality(Global(active)') <= Cardinality(Global(active))
  BY <1>2, FS_Subset
<1>4. Cardinality(Global(active)') \in Nat /\ Cardinality(Global(active)) \in Nat
  BY <1>2, FS_Subset, FS_CardinalityType
<1> QED  BY <1>1, <1>3, <1>4, BoundsAssumption DEF SlotBound, GlobalActiveCount

LEMMA ReleaseSlot ==
    ASSUME TypeInv, SlotInv, HandleRelease
    PROVE  SlotInv'
<1> DEFINE t == Head(relq)
<1> USE DEF TypeInv, TypeOK
<1>1. /\ t \in Tasks
      /\ relq # <<>> /\ relq' = Tail(relq)
      /\ UNCHANGED <<req, caller, chan>>
  BY HeadTailProperties DEF HandleRelease, callerVars
<1>2. caller[t] = "done"
  BY <1>1 DEF SlotInv, Backed
<1>3. /\ active' \subseteq active /\ pending' \subseteq pending
      /\ \A u \in active : u \in active' \/ u = t
  BY DEF HandleRelease, ReleaseActive, ReleasePending, ReleaseUnmatched
<1>4. ready' = ready
  BY <1>2 DEF HandleRelease, ReleaseActive, ReleasePending, ReleaseUnmatched, Reply, Listening
<1>5. OnePlace'
  BY <1>1, <1>3, <1>4 DEF SlotInv, OnePlace
<1>6. Backed'
  BY <1>1, <1>2, <1>3, <1>4 DEF SlotInv, Backed
<1> QED  BY <1>1, <1>3, <1>5, <1>6, ShrinkBound DEF SlotInv

LEMMA EnqueueSlot ==
    ASSUME TypeInv, SlotInv, HandleEnqueue
    PROVE  SlotInv'
<1> DEFINE t == Head(chan)
<1> USE DEF TypeInv, TypeOK
<1>1. /\ t \in Tasks /\ chan # <<>> /\ chan' = Tail(chan)
      /\ UNCHANGED <<req, caller, relq, active>>
  BY DEF HandleEnqueue, callerVars
<1>2. /\ t = chan[1]
      /\ Len(chan) >= 1
      /\ Len(chan') = Len(chan) - 1
      /\ \A i \in 1..Len(chan') : chan'[i] = chan[i + 1]
  BY <1>1
<1>3. t \notin active \cup pending /\ \A i \in 1..Len(chan') : chan'[i] # t
  BY <1>1, <1>2 DEF SlotInv, OnePlace
<1>4. caller[t] \notin {"idle", "sending"}
  BY <1>1, <1>2 DEF SlotInv, OnePlace
<1>5. CASE RefuseEnqueue(t)
  <2>1. pending' = pending
    BY <1>5 DEF RefuseEnqueue, queueVars
  <2>2. \A u \in Tasks : u # t => ready'[u] = ready[u]
    BY <1>5 DEF RefuseEnqueue, Reply
  <2>3. ready'[t] = "ok" => ready[t] = "ok"
    BY <1>1, <1>5 DEF RefuseEnqueue, Reply
  <2>4. OnePlace'
    BY <1>1, <1>2, <1>4, <2>1, <2>2 DEF SlotInv, OnePlace
  <2>5. Backed'
    BY <1>1, <2>2, <2>3 DEF SlotInv, Backed
  <2> QED  BY <1>1, <2>1, <2>4, <2>5, SlotBoundFrame DEF SlotInv
<1>6. CASE AcceptEnqueue(t)
  <2>1. pending' = pending \cup {t} /\ ready' = ready
    BY <1>6 DEF AcceptEnqueue
  <2>2. OnePlace'
    BY <1>1, <1>2, <1>3, <1>4, <2>1 DEF SlotInv, OnePlace
  <2>3. Backed'
    BY <1>1, <2>1 DEF SlotInv, Backed
  <2>4. SlotBound'
    BY <1>1, <2>1, FS_AddElement DEF SlotInv, SlotBound, GlobalActiveCount, Global
  <2> QED  BY <2>2, <2>3, <2>4 DEF SlotInv
<1> QED  BY <1>5, <1>6 DEF HandleEnqueue

LEMMA AdmitSlot ==
    ASSUME TypeInv, SlotInv, NEW t \in Tasks, DispatchAdmit(t)
    PROVE  SlotInv'
<1> USE DEF TypeInv, TypeOK
<1>1. /\ t \in pending /\ caller[t] = "waiting"
      /\ UNCHANGED <<req, caller, chan, relq>>
      /\ pending' = pending \ {t}
      /\ active' = active \cup {t}
      /\ ready' = [ready EXCEPT ![t] = "ok"]
  BY DEF DispatchAdmit, Selected, Listening, Dequeue, Reply, callerVars
<1>2. OnePlace'
  BY <1>1 DEF SlotInv, OnePlace
<1>3. Backed'
  BY <1>1 DEF SlotInv, Backed
<1>4. SlotBound'
  <2>1. IsFiniteSet(active') /\ IsFiniteSet(pending')
    BY <1>1, FS_AddElement, FS_Subset DEF SlotInv, SlotBound
  <2>2. IsFiniteSet(Global(active))
    BY FS_Subset DEF SlotInv, SlotBound, Global
  <2>3. CASE req[t].global
    <3>1. GlobalActiveCount < MaxActive
      BY <2>3 DEF DispatchAdmit, Selected, Admissible
    <3>2. Global(active)' = Global(active) \cup {t} /\ t \notin Global(active)
      BY <1>1, <2>3 DEF Global, SlotInv, OnePlace
    <3>3. Cardinality(Global(active)') = Cardinality(Global(active)) + 1
      BY <2>2, <3>2, FS_AddElement
    <3> QED
      BY <2>1, <2>2, <3>1, <3>3, FS_CardinalityType, BoundsAssumption
         DEF SlotBound, GlobalActiveCount
  <2>4. CASE ~req[t].global
    <3>1. Global(active)' = Global(active)
      BY <1>1, <2>4 DEF Global
    <3> QED  BY <2>1, <3>1 DEF SlotInv, SlotBound, GlobalActiveCount
  <2> QED  BY <2>3, <2>4
<1> QED  BY <1>2, <1>3, <1>4 DEF SlotInv

LEMMA SettleSlot ==
    ASSUME TypeInv, SlotInv, NEW t \in Tasks, DrainOne(t) \/ DispatchAbandoned(t)
    PROVE  SlotInv'
<1> USE DEF TypeInv, TypeOK
<1>1. /\ t \in pending
      /\ UNCHANGED <<req, caller, chan, relq, active>>
      /\ pending' = pending \ {t}
  BY DEF DrainOne, DispatchAbandoned, Selected, Dequeue, callerVars
<1>2. caller[t] \notin {"idle", "sending"}
  BY <1>1 DEF SlotInv, OnePlace
<1>3. /\ \A u \in Tasks : u # t => ready'[u] = ready[u]
      /\ ready'[t] = "ok" => ready[t] = "ok"
  BY DEF DrainOne, DispatchAbandoned, Reply
<1>4. OnePlace'
  BY <1>1, <1>2, <1>3 DEF SlotInv, OnePlace
<1>5. Backed'
  BY <1>1, <1>3 DEF SlotInv, Backed
<1> QED  BY <1>1, <1>4, <1>5, ShrinkBound DEF SlotInv

LEMMA TailSlot ==
    ASSUME TypeInv, SlotInv, HandleHealth \/ SendHealth \/ Stop
    PROVE  SlotInv'
<1> USE DEF TypeInv, TypeOK
<1>1. UNCHANGED <<req, caller, ready, active, pending>>
  BY DEF HandleHealth, SendHealth, Stop, callerVars, actorVars, queueVars
<1>2. SlotBound'
  BY <1>1, SlotBoundFrame DEF SlotInv
<1>3. CASE HandleHealth
  <2>1. chan # <<>> /\ chan' = Tail(chan) /\ relq' = relq
    BY <1>3 DEF HandleHealth
  <2> QED  BY <1>1, <1>2, <2>1 DEF SlotInv, OnePlace, Backed
<1>4. CASE SendHealth
  <2>1. chan' = Append(chan, HealthProbe) /\ relq' = relq
    BY <1>4 DEF SendHealth
  <2>2. HealthProbe \notin active \cup pending
    BY ProbeAssumption
  <2>3. /\ Len(chan') = Len(chan) + 1 /\ chan'[Len(chan) + 1] = HealthProbe
        /\ \A i \in 1..Len(chan) : chan'[i] = chan[i]
    BY <2>1
  <2>4. OnePlace'
    <3>1. \A i \in 1..Len(chan') :
            chan'[i] \in Tasks => i \in 1..Len(chan) /\ chan'[i] = chan[i]
      BY <2>3, ProbeAssumption
    <3>2. \A i \in 1..Len(chan') : chan'[i] \notin Tasks => chan'[i] = HealthProbe
      <4>1. \A i \in 1..Len(chan) : chan[i] \in Tasks \cup {HealthProbe}
        BY ElementOfSeq
      <4>2. \A i \in 1..Len(chan') : i \in 1..Len(chan) \/ i = Len(chan) + 1
        BY <2>3, LenProperties
      <4> QED  BY <2>3, <4>1, <4>2
    <3>3. \A i \in 1..Len(chan') : chan'[i] \notin active' \cup pending'
      BY <1>1, <2>2, <3>1, <3>2 DEF SlotInv, OnePlace
    <3>4. \A i, j \in 1..Len(chan') : chan'[i] = chan'[j] /\ chan'[i] \in Tasks => i = j
      BY <3>1 DEF SlotInv, OnePlace
    <3>5. \A t \in Tasks : caller'[t] \in {"idle", "sending"} =>
            /\ ready'[t] = "none"
            /\ t \notin active' \cup pending'
            /\ \A i \in 1..Len(chan') : chan'[i] # t
      BY <1>1, <3>1 DEF SlotInv, OnePlace
    <3> QED  BY <1>1, <3>3, <3>4, <3>5 DEF SlotInv, OnePlace
  <2>5. Backed'
    BY <1>1, <2>1 DEF SlotInv, Backed
  <2> QED  BY <1>2, <2>4, <2>5 DEF SlotInv
<1>5. CASE Stop
  <2>1. chan' = <<>> /\ relq' = <<>>
    BY <1>5 DEF Stop
  <2> QED  BY <1>1, <1>2, <2>1 DEF SlotInv, OnePlace, Backed
<1> QED  BY <1>3, <1>4, <1>5

LEMMA SlotStep ==
    ASSUME TypeInv, SlotInv, [Next]_vars
    PROVE  SlotInv'
<1>1. CASE \E t \in Tasks : Caller(t)
  BY <1>1, CallerSlot
<1>2. CASE HandleRelease
  BY <1>2, ReleaseSlot
<1>3. CASE HandleEnqueue
  BY <1>3, EnqueueSlot
<1>4. CASE \E t \in Tasks : DispatchAdmit(t)
  BY <1>4, AdmitSlot
<1>5. CASE \E t \in Tasks : DrainOne(t) \/ DispatchAbandoned(t)
  BY <1>5, SettleSlot
<1>6. CASE HandleHealth \/ SendHealth \/ Stop
  BY <1>6, TailSlot
<1>7. CASE \/ \E c \in Closers : Shutdown(c) \/ HandleShutdown(c)
           \/ PollReleaseEmpty \/ PollShutdownEmpty \/ PollRxEmpty
           \/ DrainDone \/ DispatchDone \/ Continue \/ Tick \/ UNCHANGED vars
  <2>1. UNCHANGED <<req, caller, ready, chan, relq, active, pending>>
    BY <1>7 DEF Shutdown, ShutdownSwap, ShutdownSend, HandleShutdown, PollReleaseEmpty,
         PollShutdownEmpty, PollRxEmpty, DrainDone, DispatchDone, Continue, Tick,
         callerVars, actorVars, queueVars, vars
  <2> QED  BY <2>1, SlotFrame
<1> QED
  BY <1>1, <1>2, <1>3, <1>4, <1>5, <1>6, <1>7 DEF Next, Actor

-----------------------------------------------------------------------------
(* ShutdownInv is inductive. *)

LEMMA ShutdownInit == Init => ShutdownInv
BY DEF Init, ShutdownInv

LEMMA ShutdownStep ==
    ASSUME TypeInv, ShutdownInv, [Next]_vars
    PROVE  ShutdownInv'
<1> USE DEF ShutdownInv, TypeInv, TypeOK
<1>1. CASE \E t \in Tasks : Caller(t)
  <2>1. UNCHANGED <<pc, closing, active, pending, closer>>
    BY <1>1 DEF Caller, RefuseAcquire, BeginAcquire, SendEnqueue, CancelSend, FailSend,
         ReceiveLease, ReceiveError, AbandonWait, DropLease, actorVars, queueVars
  <2> QED  BY <2>1
<1>2. ASSUME NEW c \in Closers, Shutdown(c)  PROVE ShutdownInv'
  <2>1. UNCHANGED <<pc, closing, active, pending>>
    BY <1>2 DEF Shutdown, ShutdownSwap, ShutdownSend, actorVars, queueVars
  <2>2. \A d \in Closers : closer'[d] = "drained" => closer[d] = "drained" \/ pc = "stopped"
    BY <1>2 DEF Shutdown, ShutdownSwap, ShutdownSend
  <2> QED  BY <2>1, <2>2
<1>3. CASE HandleRelease
  <2>1. /\ pc = "pollRelease" /\ closing' = closing
        /\ pc' = IF closing THEN "loopEnd" ELSE "dispatch"
        /\ active' \subseteq active /\ pending' \subseteq pending
    BY <1>3 DEF HandleRelease, ReleaseActive, ReleasePending, ReleaseUnmatched
  <2>2. \A c \in Closers :
          closer'[c] = "drained" => closer[c] = "drained" \/ (closing /\ active' = {})
    BY <1>3 DEF HandleRelease, FinishShutdownIfIdle
  <2> QED  BY <2>1, <2>2
<1>4. ASSUME NEW c \in Closers, HandleShutdown(c)  PROVE ShutdownInv'
  BY <1>4 DEF HandleShutdown, queueVars
<1>5. ASSUME NEW t \in Tasks, DrainOne(t)  PROVE ShutdownInv'
  BY <1>5 DEF DrainOne, Dequeue
<1>6. CASE DrainDone
  <2>1. /\ pc = "drain" /\ pc' = "loopEnd" /\ pending = {}
        /\ UNCHANGED <<closing, active, pending>>
    BY <1>6 DEF DrainDone, queueVars
  <2>2. \A c \in Closers : closer'[c] = "drained" => closer[c] = "drained" \/ active = {}
    BY <1>6 DEF DrainDone, FinishShutdownIfIdle
  <2> QED  BY <2>1, <2>2
<1>7. CASE HandleEnqueue
  <2>1. /\ pc = "pollRx" /\ UNCHANGED <<closing, active, closer>>
        /\ \/ pc' = "loopEnd" /\ pending' = pending
           \/ pc' = "dispatch" /\ ~closing
    BY <1>7 DEF HandleEnqueue, RefuseEnqueue, AcceptEnqueue, queueVars
  <2> QED  BY <2>1
<1>8. ASSUME NEW t \in Tasks, DispatchAdmit(t) \/ DispatchAbandoned(t)  PROVE ShutdownInv'
  <2>1. /\ pc = "dispatch" /\ UNCHANGED <<pc, closing, closer>>
    BY <1>8 DEF DispatchAdmit, DispatchAbandoned
  <2> QED  BY <2>1
<1>9. CASE PollReleaseEmpty \/ PollShutdownEmpty \/ PollRxEmpty \/ HandleHealth
           \/ DispatchDone \/ Continue
  <2>1. /\ pc \notin {"drain", "stopped"} /\ pc' \in {"pollRelease", "pollShutdown", "pollRx", "loopEnd"}
        /\ UNCHANGED <<closing, active, pending, closer>>
    BY <1>9 DEF PollReleaseEmpty, PollShutdownEmpty, PollRxEmpty, HandleHealth, DispatchDone,
         Continue, queueVars
  <2> QED  BY <2>1
<1>10. CASE Stop
  BY <1>10 DEF Stop, queueVars
<1>11. CASE SendHealth \/ Tick \/ UNCHANGED vars
  <2>1. UNCHANGED <<pc, closing, active, pending, closer>>
    BY <1>11 DEF SendHealth, Tick, vars, actorVars, queueVars
  <2> QED  BY <2>1
<1> QED
  BY <1>1, <1>2, <1>3, <1>4, <1>5, <1>6, <1>7, <1>8, <1>9, <1>10, <1>11 DEF Next, Actor

(* shutdown(), for the caller that wins the swap, returns only when every  *)
(* admitted lease has been given back and the queue is empty, whatever     *)
(* releases, cancellations and late requests race with it.                 *)
THEOREM ShutdownDrainsAlways == Spec => []ShutdownDrains
<1>1. Spec => [](TypeInv /\ SlotInv /\ ShutdownInv)
  <2>1. TypeInv /\ SlotInv /\ ShutdownInv /\ [Next]_vars => (TypeInv /\ SlotInv /\ ShutdownInv)'
    BY TypeStep, SlotStep, ShutdownStep
  <2> QED  BY <2>1, TypeInit, SlotInit, ShutdownInit, PTL DEF Spec
<1>2. SlotInv /\ ShutdownInv => ShutdownDrains
  BY DEF SlotInv, Backed, ShutdownInv, ShutdownDrains
<1> QED  BY <1>1, <1>2, PTL

-----------------------------------------------------------------------------
(* QuotaInv is inductive: each way to change a quota keeps it exact. *)

LEMMA OnElsewhere ==
    ASSUME NEW q \in QuotaId, NEW t \in Tasks, q \notin Dims(t), NEW S
    PROVE  On(S \ {t}, q) = On(S, q) /\ On(S \cup {t}, q) = On(S, q)
BY DEF On

LEMMA OnRemove ==
    ASSUME NEW q \in QuotaId, NEW S, IsFiniteSet(S), NEW t \in S, q \in Dims(t)
    PROVE  /\ On(S \ {t}, q) \subseteq On(S, q)
           /\ Cardinality(On(S, q)) \in Nat \ {0}
           /\ Cardinality(On(S \ {t}, q)) = Cardinality(On(S, q)) - 1
<1>1. IsFiniteSet(On(S, q))
  BY FS_Subset DEF On
<1>2. On(S \ {t}, q) = On(S, q) \ {t} /\ t \in On(S, q)
  BY DEF On
<1>3. Cardinality(On(S, q)) # 0 /\ Cardinality(On(S, q)) \in Nat
  BY <1>1, <1>2, FS_EmptySet, FS_CardinalityType
<1> QED  BY <1>1, <1>2, <1>3, FS_RemoveElement

LEMMA OnAdd ==
    ASSUME NEW q \in QuotaId, NEW S, IsFiniteSet(S), NEW t, t \notin S, q \in Dims(t)
    PROVE  /\ On(S \cup {t}, q) = On(S, q) \cup {t}
           /\ Cardinality(On(S, q)) \in Nat
           /\ Cardinality(On(S \cup {t}, q)) = Cardinality(On(S, q)) + 1
<1>1. IsFiniteSet(On(S, q))
  BY FS_Subset DEF On
<1>2. On(S \cup {t}, q) = On(S, q) \cup {t} /\ t \notin On(S, q)
  BY DEF On
<1> QED  BY <1>1, <1>2, FS_AddElement, FS_CardinalityType

(* A quota the task does not use does not notice it. *)
LEMMA ExactElsewhere ==
    ASSUME NEW q \in QuotaId, NEW t \in Tasks, q \notin Dims(t), NEW s, NEW A, NEW P,
           Exact(s, q, A, P)
    PROVE  /\ Exact(s, q, A \ {t}, P)
           /\ Exact(s, q, A, P \ {t})
           /\ Exact(s, q, A, P \cup {t})
           /\ Exact(s, q, A \cup {t}, P \ {t})
BY OnElsewhere DEF Exact

LEMMA ExactRelease ==
    ASSUME NEW q \in QuotaId, NEW s \in QuotaState, NEW A, NEW P, IsFiniteSet(A),
           NEW t \in A, q \in Dims(t), Exact(s, q, A, P)
    PROVE  Exact(Released(s), q, A \ {t}, P)
<1>1. /\ Released(s) \in QuotaState
      /\ Released(s).max = s.max
      /\ Released(s).active = SaturatingDec(s.active)
      /\ Released(s).pending = s.pending
  BY SettledFields
<1>2. s # NoQuota /\ Released(s) # NoQuota
  BY <1>1, NoQuotaAssumption
<1>3. s.active \in Nat /\ s.max \in Nat
  BY DEF QuotaState
<1>4. /\ On(A \ {t}, q) \subseteq On(A, q)
      /\ Cardinality(On(A, q)) \in Nat \ {0}
      /\ Cardinality(On(A \ {t}, q)) = Cardinality(On(A, q)) - 1
  BY OnRemove
<1>5. /\ s.active = Cardinality(On(A, q)) /\ s.pending = Cardinality(On(P, q))
      /\ s.active <= s.max
      /\ \A u \in On(A, q) \cup On(P, q) : req[u].limit[q] = s.max
  BY <1>2 DEF Exact
<1>6. SaturatingDec(s.active) = Cardinality(On(A \ {t}, q)) /\ SaturatingDec(s.active) <= s.max
  BY <1>3, <1>4, <1>5 DEF SaturatingDec
<1>7. \A u \in On(A \ {t}, q) \cup On(P, q) : req[u].limit[q] = s.max
  BY <1>4, <1>5
<1> QED  BY <1>1, <1>2, <1>5, <1>6, <1>7 DEF Exact

(* cancel_pending, reject_pending_quotas and the abandoned admission all   *)
(* take one item out of the pending count.                                 *)
LEMMA ExactDropPending ==
    ASSUME NEW q \in QuotaId, NEW s \in QuotaState, NEW A, NEW P, IsFiniteSet(P),
           NEW t \in P, q \in Dims(t), Exact(s, q, A, P),
           NEW r \in QuotaState, r.max = s.max, r.active = s.active,
           r.pending = SaturatingDec(s.pending)
    PROVE  Exact(r, q, A, P \ {t})
<1>1. s # NoQuota /\ r # NoQuota
  BY NoQuotaAssumption
<1>2. /\ On(P \ {t}, q) \subseteq On(P, q)
      /\ Cardinality(On(P, q)) \in Nat \ {0}
      /\ Cardinality(On(P \ {t}, q)) = Cardinality(On(P, q)) - 1
  BY OnRemove
<1> QED  BY <1>1, <1>2 DEF Exact, SaturatingDec

LEMMA ExactAdmit ==
    ASSUME NEW q \in QuotaId, NEW s \in QuotaState, NEW A, NEW P, IsFiniteSet(A),
           IsFiniteSet(P), NEW t \in P, t \notin A, q \in Dims(t), Exact(s, q, A, P),
           s.active < s.max
    PROVE  Exact(Admitted(s), q, A \cup {t}, P \ {t})
<1>1. /\ Admitted(s) \in QuotaState
      /\ Admitted(s).max = s.max
      /\ Admitted(s).active = s.active + 1
      /\ Admitted(s).pending = SaturatingDec(s.pending)
  BY SettledFields
<1>2. s # NoQuota /\ Admitted(s) # NoQuota
  BY <1>1, NoQuotaAssumption
<1>3. s.active \in Nat /\ s.max \in Nat
  BY DEF QuotaState
<1>4. t \in On(P, q)
  BY DEF On
<1>5. /\ On(A \cup {t}, q) = On(A, q) \cup {t}
      /\ Cardinality(On(A \cup {t}, q)) = Cardinality(On(A, q)) + 1
  BY OnAdd
<1>6. /\ On(P \ {t}, q) \subseteq On(P, q)
      /\ Cardinality(On(P, q)) \in Nat \ {0}
      /\ Cardinality(On(P \ {t}, q)) = Cardinality(On(P, q)) - 1
  BY OnRemove
<1>7. /\ s.active = Cardinality(On(A, q)) /\ s.pending = Cardinality(On(P, q))
      /\ \A u \in On(A, q) \cup On(P, q) : req[u].limit[q] = s.max
  BY <1>2 DEF Exact
<1>8. /\ s.active + 1 = Cardinality(On(A \cup {t}, q)) /\ s.active + 1 <= s.max
      /\ SaturatingDec(s.pending) = Cardinality(On(P \ {t}, q))
  BY <1>3, <1>5, <1>6, <1>7 DEF SaturatingDec
<1>9. \A u \in On(A \cup {t}, q) \cup On(P \ {t}, q) : req[u].limit[q] = s.max
  BY <1>4, <1>5, <1>6, <1>7
<1> QED  BY <1>1, <1>2, <1>8, <1>9 DEF Exact

LEMMA ExactRegister ==
    ASSUME NEW q \in QuotaId, NEW s \in QuotaState, NEW A, NEW P, IsFiniteSet(P),
           NEW t \in Tasks, t \notin P, q \in Dims(t), Exact(s, q, A, P),
           req[t].limit[q] = s.max
    PROVE  Exact([s EXCEPT !.pending = @ + 1], q, A, P \cup {t})
<1> DEFINE r == [s EXCEPT !.pending = @ + 1]
<1>1. /\ r \in QuotaState /\ r.max = s.max /\ r.active = s.active
      /\ r.pending = s.pending + 1
  BY DEF QuotaState
<1>2. s # NoQuota /\ r # NoQuota
  BY <1>1, NoQuotaAssumption
<1>3. /\ s.active = Cardinality(On(A, q)) /\ s.pending = Cardinality(On(P, q))
      /\ s.active <= s.max
      /\ \A u \in On(A, q) \cup On(P, q) : req[u].limit[q] = s.max
  BY <1>2 DEF Exact
<1>4. /\ On(P \cup {t}, q) = On(P, q) \cup {t}
      /\ Cardinality(On(P \cup {t}, q)) = Cardinality(On(P, q)) + 1
  BY OnAdd
<1> HIDE DEF r
<1>5. Exact(r, q, A, P \cup {t})
  BY <1>1, <1>2, <1>3, <1>4 DEF Exact
<1> QED  BY <1>5 DEF r

(* A quota with nobody on it may be forgotten. *)
LEMMA ExactIdle ==
    ASSUME NEW q \in QuotaId, NEW s \in QuotaState, NEW A, NEW P, IsFiniteSet(A),
           IsFiniteSet(P), Exact(s, q, A, P), Idle(s)
    PROVE  Exact(NoQuota, q, A, P)
<1>1. s # NoQuota
  BY NoQuotaAssumption
<1>2. IsFiniteSet(On(A, q)) /\ IsFiniteSet(On(P, q))
  BY FS_Subset DEF On
<1>3. Cardinality(On(A, q)) = 0 /\ Cardinality(On(P, q)) = 0
  BY <1>1 DEF Exact, Idle
<1> QED  BY <1>2, <1>3, FS_EmptySet DEF Exact

LEMMA PruneEffect ==
    ASSUME NEW t \in Tasks, NEW qs \in QuotaMaps, retained \in QuotaMaps,
           PruneIdleQuotas(t, qs),
           \A q \in QuotaId : retained[q] # NoQuota => Idle(retained[q])
    PROVE  \A q \in QuotaId :
             /\ quotas'[q] = IF q \in Dims(t) /\ qs[q] # NoQuota /\ Idle(qs[q])
                             THEN NoQuota ELSE qs[q]
             /\ retained'[q] # NoQuota => Idle(retained'[q])
BY DEF PruneIdleQuotas, QuotaMaps

(* QuotaInv' from facts about the new maps under the unchanged requests. *)
LEMMA QuotaInvPrime ==
    ASSUME req' = req,
           \A q \in QuotaId :
             /\ Exact(quotas'[q], q, active', pending')
             /\ quotas'[q] # NoQuota => ~Idle(quotas'[q])
             /\ retained'[q] # NoQuota => Idle(retained'[q])
    PROVE  QuotaInv'
<1>1. ASSUME NEW q \in QuotaId  PROVE Exact(quotas[q], q, active, pending)'
  <2>1. On(active, q)' = On(active', q) /\ On(pending, q)' = On(pending', q)
    BY DEF On, Dims
  <2>2. Exact(quotas'[q], q, active', pending')
    OBVIOUS
  <2>3. CASE quotas'[q] = NoQuota
    BY <2>1, <2>2, <2>3 DEF Exact
  <2>4. CASE quotas'[q] # NoQuota
    BY <2>1, <2>2, <2>4 DEF Exact
  <2> QED  BY <2>3, <2>4
<1>2. ASSUME NEW q \in QuotaId
      PROVE  /\ (quotas[q] # NoQuota => ~Idle(quotas[q]))'
             /\ (retained[q] # NoQuota => Idle(retained[q]))'
  BY DEF Idle
<1> QED  BY <1>1, <1>2 DEF QuotaInv

LEMMA PruneExact ==
    ASSUME NEW t \in Tasks, NEW qs \in QuotaMaps, retained \in QuotaMaps,
           PruneIdleQuotas(t, qs), req' = req,
           IsFiniteSet(active'), IsFiniteSet(pending'),
           \A q \in QuotaId :
             /\ Exact(qs[q], q, active', pending')
             /\ q \notin Dims(t) /\ qs[q] # NoQuota => ~Idle(qs[q])
             /\ retained[q] # NoQuota => Idle(retained[q])
    PROVE  QuotaInv'
<1>1. \A q \in QuotaId :
        /\ quotas'[q] = IF q \in Dims(t) /\ qs[q] # NoQuota /\ Idle(qs[q])
                        THEN NoQuota ELSE qs[q]
        /\ retained'[q] # NoQuota => Idle(retained'[q])
  BY PruneEffect
<1>2. \A q \in QuotaId : qs[q] # NoQuota => qs[q] \in QuotaState
  BY DEF QuotaMaps
<1>3. \A q \in QuotaId : Exact(quotas'[q], q, active', pending')
  BY <1>1, <1>2, ExactIdle
<1>4. \A q \in QuotaId : quotas'[q] # NoQuota => ~Idle(quotas'[q])
  BY <1>1
<1> QED  BY <1>1, <1>3, <1>4, QuotaInvPrime

LEMMA UsedQuotaLive ==
    ASSUME TypeInv, QuotaInv, NEW t \in active \cup pending, NEW q \in Dims(t)
    PROVE  quotas[q] # NoQuota /\ quotas[q] \in QuotaState
<1>1. t \in On(active, q) \/ t \in On(pending, q)
  BY DEF On
<1>2. q \in QuotaId
  BY DEF Dims
<1>3. quotas[q] # NoQuota
  BY <1>1, <1>2 DEF QuotaInv, Exact
<1> QED  BY <1>2, <1>3 DEF TypeInv, TypeOK

LEMMA QuotaReleaseActive ==
    ASSUME TypeInv, SlotInv, QuotaInv, NEW t \in Tasks, ReleaseActive(t), req' = req
    PROVE  QuotaInv'
<1> DEFINE qs == AdjustQuotas(t, Released)
<1>1. t \in active /\ active' = active \ {t} /\ pending' = pending
  BY DEF ReleaseActive
<1>2. IsFiniteSet(active) /\ IsFiniteSet(active') /\ IsFiniteSet(pending')
  BY <1>1, FS_RemoveElement DEF SlotInv, SlotBound
<1>3. ASSUME NEW q \in QuotaId
      PROVE  /\ Exact(qs[q], q, active', pending')
             /\ q \notin Dims(t) /\ qs[q] # NoQuota => ~Idle(qs[q])
             /\ retained[q] # NoQuota => Idle(retained[q])
  <2>1. Exact(quotas[q], q, active, pending)
    BY DEF QuotaInv
  <2>2. CASE q \in Dims(t)
    <3>1. quotas[q] # NoQuota /\ quotas[q] \in QuotaState
      BY <1>1, <2>2, UsedQuotaLive
    <3>2. qs[q] = Released(quotas[q])
      BY <2>2, <3>1 DEF AdjustQuotas
    <3>3. Exact(Released(quotas[q]), q, active \ {t}, pending)
      BY <1>1, <1>2, <2>1, <2>2, <3>1, ExactRelease
    <3> QED  BY <1>1, <2>2, <3>2, <3>3 DEF QuotaInv
  <2>3. CASE q \notin Dims(t)
    <3>1. qs[q] = quotas[q]
      BY <2>3 DEF AdjustQuotas
    <3>2. Exact(quotas[q], q, active \ {t}, pending)
      BY <2>1, <2>3, ExactElsewhere
    <3> QED  BY <1>1, <3>1, <3>2 DEF QuotaInv
  <2> QED  BY <2>2, <2>3
<1>4. qs \in QuotaMaps /\ retained \in QuotaMaps /\ PruneIdleQuotas(t, qs)
  BY AdjustType DEF TypeInv, TypeOK, QuotaMaps, ReleaseActive
<1> HIDE DEF qs
<1> QED  BY <1>2, <1>3, <1>4, PruneExact

(* The three ways an item leaves the queue without an admission. *)
LEMMA QuotaDropPending ==
    ASSUME TypeInv, SlotInv, QuotaInv, NEW t \in pending, NEW qs \in QuotaMaps,
           PruneIdleQuotas(t, qs), req' = req, active' = active, pending' = pending \ {t},
           \A q \in QuotaId :
             IF q \in Dims(t)
             THEN /\ qs[q] \in QuotaState
                  /\ qs[q].max = quotas[q].max
                  /\ qs[q].active = quotas[q].active
                  /\ qs[q].pending = SaturatingDec(quotas[q].pending)
             ELSE qs[q] = quotas[q]
    PROVE  QuotaInv'
<1>1. t \in Tasks /\ retained \in QuotaMaps
  BY DEF TypeInv, TypeOK, QuotaMaps
<1>2. IsFiniteSet(pending) /\ IsFiniteSet(active') /\ IsFiniteSet(pending')
  BY FS_RemoveElement DEF SlotInv, SlotBound
<1>3. ASSUME NEW q \in QuotaId
      PROVE  /\ Exact(qs[q], q, active', pending')
             /\ q \notin Dims(t) /\ qs[q] # NoQuota => ~Idle(qs[q])
             /\ retained[q] # NoQuota => Idle(retained[q])
  <2>1. Exact(quotas[q], q, active, pending)
    BY DEF QuotaInv
  <2>2. CASE q \in Dims(t)
    <3>1. quotas[q] \in QuotaState
      BY <2>2, UsedQuotaLive
    <3>2. Exact(qs[q], q, active, pending \ {t})
      BY <1>2, <2>1, <2>2, <3>1, ExactDropPending
    <3> QED  BY <2>2, <3>2 DEF QuotaInv
  <2>3. CASE q \notin Dims(t)
    <3>1. Exact(quotas[q], q, active, pending \ {t})
      BY <1>1, <2>1, <2>3, ExactElsewhere
    <3> QED  BY <2>3, <3>1 DEF QuotaInv
  <2> QED  BY <2>2, <2>3
<1> QED  BY <1>1, <1>2, <1>3, PruneExact

LEMMA DroppedQuotas ==
    ASSUME TypeInv, QuotaInv, NEW t \in pending, NEW q \in QuotaId
    PROVE  /\ q \in Dims(t) =>
                /\ AdjustQuotas(t, Cancelled)[q] = Cancelled(quotas[q])
                /\ AdjustQuotas(t, Rejected)[q] = Rejected(quotas[q])
                /\ AdjustQuotas(t, Abandoned)[q] = Abandoned(quotas[q])
                /\ quotas[q] \in QuotaState
           /\ q \notin Dims(t) =>
                /\ AdjustQuotas(t, Cancelled)[q] = quotas[q]
                /\ AdjustQuotas(t, Rejected)[q] = quotas[q]
                /\ AdjustQuotas(t, Abandoned)[q] = quotas[q]
BY UsedQuotaLive DEF AdjustQuotas

LEMMA QuotaSettlePending ==
    ASSUME TypeInv, SlotInv, QuotaInv, NEW t \in pending, req' = req, active' = active,
           pending' = pending \ {t},
           \/ PruneIdleQuotas(t, AdjustQuotas(t, Cancelled))
           \/ PruneIdleQuotas(t, AdjustQuotas(t, Rejected))
           \/ PruneIdleQuotas(t, AdjustQuotas(t, Abandoned))
    PROVE  QuotaInv'
<1>1. t \in Tasks /\ quotas \in QuotaMaps
  BY DEF TypeInv, TypeOK, QuotaMaps
<1>2. CASE PruneIdleQuotas(t, AdjustQuotas(t, Cancelled))
  <2> DEFINE qs == AdjustQuotas(t, Cancelled)
  <2>1. qs \in QuotaMaps /\ PruneIdleQuotas(t, qs)
    BY <1>1, <1>2, AdjustType
  <2>2. ASSUME NEW q \in QuotaId
        PROVE  IF q \in Dims(t)
               THEN /\ qs[q] \in QuotaState
                    /\ qs[q].max = quotas[q].max
                    /\ qs[q].active = quotas[q].active
                    /\ qs[q].pending = SaturatingDec(quotas[q].pending)
               ELSE qs[q] = quotas[q]
    BY DroppedQuotas, SettledFields
  <2> HIDE DEF qs
  <2> QED  BY <2>1, <2>2, QuotaDropPending
<1>3. CASE PruneIdleQuotas(t, AdjustQuotas(t, Rejected))
  <2> DEFINE qs == AdjustQuotas(t, Rejected)
  <2>1. qs \in QuotaMaps /\ PruneIdleQuotas(t, qs)
    BY <1>1, <1>3, AdjustType
  <2>2. ASSUME NEW q \in QuotaId
        PROVE  IF q \in Dims(t)
               THEN /\ qs[q] \in QuotaState
                    /\ qs[q].max = quotas[q].max
                    /\ qs[q].active = quotas[q].active
                    /\ qs[q].pending = SaturatingDec(quotas[q].pending)
               ELSE qs[q] = quotas[q]
    BY DroppedQuotas, SettledFields
  <2> HIDE DEF qs
  <2> QED  BY <2>1, <2>2, QuotaDropPending
<1>4. CASE PruneIdleQuotas(t, AdjustQuotas(t, Abandoned))
  <2> DEFINE qs == AdjustQuotas(t, Abandoned)
  <2>1. qs \in QuotaMaps /\ PruneIdleQuotas(t, qs)
    BY <1>1, <1>4, AdjustType
  <2>2. ASSUME NEW q \in QuotaId
        PROVE  IF q \in Dims(t)
               THEN /\ qs[q] \in QuotaState
                    /\ qs[q].max = quotas[q].max
                    /\ qs[q].active = quotas[q].active
                    /\ qs[q].pending = SaturatingDec(quotas[q].pending)
               ELSE qs[q] = quotas[q]
    BY DroppedQuotas, SettledFields
  <2> HIDE DEF qs
  <2> QED  BY <2>1, <2>2, QuotaDropPending
<1> QED  BY <1>2, <1>3, <1>4

LEMMA QuotaFrame ==
    ASSUME QuotaInv, UNCHANGED <<req, active, pending, quotas, retained>>
    PROVE  QuotaInv'
BY DEF QuotaInv, Exact, On, Dims

LEMMA QuotaRelease ==
    ASSUME TypeInv, SlotInv, QuotaInv, HandleRelease
    PROVE  QuotaInv'
<1> DEFINE t == Head(relq)
<1>1. t \in Tasks /\ req' = req
  BY HeadTailProperties DEF HandleRelease, callerVars, TypeInv, TypeOK
<1>2. CASE ReleaseActive(t)
  BY <1>1, <1>2, QuotaReleaseActive
<1>3. CASE ReleasePending(t)
  BY <1>1, <1>3, QuotaSettlePending DEF ReleasePending
<1>4. CASE ReleaseUnmatched(t)
  BY <1>1, <1>4, QuotaFrame DEF ReleaseUnmatched, quotaVars
<1> QED  BY <1>2, <1>3, <1>4 DEF HandleRelease

LEMMA QuotaAdmit ==
    ASSUME TypeInv, SlotInv, QuotaInv, NEW t \in Tasks, DispatchAdmit(t)
    PROVE  QuotaInv'
<1>1. /\ t \in pending /\ QuotaAllows(t)
      /\ active' = active \cup {t} /\ pending' = pending \ {t}
      /\ quotas' = AdjustQuotas(t, Admitted)
      /\ UNCHANGED <<req, retained>>
  BY DEF DispatchAdmit, Selected, Admissible, Dequeue, callerVars
<1>2. IsFiniteSet(active) /\ IsFiniteSet(pending) /\ t \notin active
  BY <1>1 DEF SlotInv, SlotBound, OnePlace
<1>3. ASSUME NEW q \in QuotaId
      PROVE  /\ Exact(quotas'[q], q, active', pending')
             /\ quotas'[q] # NoQuota => ~Idle(quotas'[q])
             /\ retained'[q] # NoQuota => Idle(retained'[q])
  <2>1. Exact(quotas[q], q, active, pending) /\ (retained[q] # NoQuota => Idle(retained[q]))
    BY DEF QuotaInv
  <2>2. CASE q \in Dims(t)
    <3>1. quotas[q] # NoQuota /\ quotas[q] \in QuotaState
      BY <1>1, <2>2, UsedQuotaLive
    <3>2. quotas'[q] = Admitted(quotas[q])
      BY <1>1, <2>2, <3>1 DEF AdjustQuotas
    <3>3. quotas[q].active < quotas[q].max
      BY <1>1, <2>2 DEF QuotaAllows
    <3>4. Exact(Admitted(quotas[q]), q, active \cup {t}, pending \ {t})
      BY <1>1, <1>2, <2>1, <2>2, <3>1, <3>3, ExactAdmit
    <3>5. ~Idle(Admitted(quotas[q]))
      <4>1. Admitted(quotas[q]).active = quotas[q].active + 1 /\ quotas[q].active \in Nat
        BY <3>1, SettledFields DEF QuotaState
      <4> QED  BY <4>1 DEF Idle
    <3> QED  BY <1>1, <2>1, <3>2, <3>4, <3>5
  <2>3. CASE q \notin Dims(t)
    <3>1. quotas'[q] = quotas[q]
      BY <1>1, <2>3 DEF AdjustQuotas
    <3>2. Exact(quotas[q], q, active \cup {t}, pending \ {t})
      BY <2>1, <2>3, ExactElsewhere
    <3> QED  BY <1>1, <2>1, <3>1, <3>2 DEF QuotaInv
  <2> QED  BY <2>2, <2>3
<1> QED  BY <1>1, <1>3, QuotaInvPrime

(* A revived record is idle and has the limit asked for, so it starts exact*)
(* again, like a fresh one.                                                *)
LEMMA RevivedFields ==
    ASSUME TypeInv, QuotaInv, NEW t \in Tasks, NEW q \in QuotaId
    PROVE  /\ RevivedQuota(t, q) \in QuotaState
           /\ RevivedQuota(t, q).max = req[t].limit[q]
           /\ RevivedQuota(t, q).active = 0
           /\ RevivedQuota(t, q).pending = 0
<1>1. req[t].limit[q] \in Nat
  BY RequestsAssumption DEF TypeInv, TypeOK
<1>2. CASE retained[q] # NoQuota /\ retained[q].max = req[t].limit[q]
  <2>1. retained[q] \in QuotaState /\ Idle(retained[q])
    BY <1>2 DEF QuotaInv, TypeInv, TypeOK
  <2>2. RevivedQuota(t, q) = retained[q]
    BY <1>2 DEF RevivedQuota
  <2> QED  BY <1>2, <2>1, <2>2 DEF Idle
<1>3. CASE ~(retained[q] # NoQuota /\ retained[q].max = req[t].limit[q])
  <2>1. RevivedQuota(t, q) = NewQuota(req[t].limit[q])
    BY <1>3 DEF RevivedQuota
  <2> QED  BY <1>1, <2>1, NewQuotaFields
<1> QED  BY <1>2, <1>3

LEMMA QuotaEnqueue ==
    ASSUME TypeInv, SlotInv, QuotaInv, HandleEnqueue
    PROVE  QuotaInv'
<1> DEFINE t == Head(chan)
           R(q) == IF quotas[q] = NoQuota THEN RevivedQuota(t, q) ELSE quotas[q]
<1>1. t \in Tasks /\ UNCHANGED <<req, active>>
  BY DEF HandleEnqueue, callerVars
<1>2. t \notin active \cup pending
  <2>1. chan # <<>> /\ chan \in Seq(Tasks \cup {HealthProbe})
    BY DEF HandleEnqueue, TypeInv, TypeOK
  <2>2. t = chan[1] /\ 1 \in 1..Len(chan)
    BY <2>1
  <2> QED  BY <2>2 DEF SlotInv, OnePlace
<1>3. CASE RefuseEnqueue(t)
  BY <1>1, <1>3, QuotaFrame DEF RefuseEnqueue, queueVars, quotaVars
<1>4. CASE AcceptEnqueue(t)
  <2>1. pending' = pending \cup {t} /\ ~QuotaConflict(t) /\ RegisterPendingQuotas(t)
    BY <1>4 DEF AcceptEnqueue
  <2>2. IsFiniteSet(pending)
    BY DEF SlotInv, SlotBound
  <2>3. /\ quotas' = [q \in QuotaId |-> IF q \in Dims(t)
                        THEN [R(q) EXCEPT !.pending = @ + 1] ELSE quotas[q]]
        /\ retained' = [q \in QuotaId |-> IF q \in Dims(t) /\ quotas[q] = NoQuota
                                          THEN NoQuota ELSE retained[q]]
    BY <2>1 DEF RegisterPendingQuotas
  <2>4. ASSUME NEW q \in QuotaId
        PROVE  /\ Exact(quotas'[q], q, active', pending')
               /\ quotas'[q] # NoQuota => ~Idle(quotas'[q])
               /\ retained'[q] # NoQuota => Idle(retained'[q])
    <3>1. Exact(quotas[q], q, active, pending) /\ (retained[q] # NoQuota => Idle(retained[q]))
      BY DEF QuotaInv
    <3>2. CASE q \in Dims(t)
      <4>1. R(q) \in QuotaState /\ R(q).max = req[t].limit[q]
        BY <1>1, <2>1, <3>2, RevivedFields DEF QuotaConflict, TypeInv, TypeOK
      <4>2. Exact(R(q), q, active, pending)
        <5>1. CASE quotas[q] = NoQuota
          <6>1. On(active, q) = {} /\ On(pending, q) = {}
            BY <3>1, <5>1 DEF Exact
          <6>2. R(q).active = 0 /\ R(q).pending = 0 /\ R(q) # NoQuota /\ R(q).max \in Nat
            BY <1>1, <4>1, <5>1, RevivedFields, NoQuotaAssumption DEF QuotaState
          <6> HIDE DEF R
          <6> QED  BY <6>1, <6>2, FS_EmptySet DEF Exact
        <5>2. CASE quotas[q] # NoQuota
          BY <3>1, <5>2
        <5> QED  BY <5>1, <5>2
      <4>3. quotas'[q] = [R(q) EXCEPT !.pending = @ + 1]
        BY <2>3, <3>2
      <4> HIDE DEF R
      <4>4. Exact([R(q) EXCEPT !.pending = @ + 1], q, active, pending \cup {t})
        BY <1>1, <1>2, <2>2, <3>2, <4>1, <4>2, ExactRegister
      <4>5. ~Idle([R(q) EXCEPT !.pending = @ + 1])
        BY <4>1 DEF Idle, QuotaState
      <4> QED  BY <1>1, <2>1, <2>3, <3>1, <4>3, <4>4, <4>5
    <3>3. CASE q \notin Dims(t)
      <4>1. quotas'[q] = quotas[q]
        BY <2>3, <3>3
      <4>2. Exact(quotas[q], q, active, pending \cup {t})
        BY <1>1, <3>1, <3>3, ExactElsewhere
      <4> QED  BY <1>1, <2>1, <2>3, <3>1, <4>1, <4>2 DEF QuotaInv
    <3> QED  BY <3>2, <3>3
  <2> QED  BY <1>1, <2>4, QuotaInvPrime
<1> QED  BY <1>3, <1>4 DEF HandleEnqueue

LEMMA QuotaInit == Init => QuotaInv
<1> SUFFICES ASSUME Init, NEW q \in QuotaId
             PROVE  /\ Exact(quotas[q], q, active, pending)
                    /\ quotas[q] # NoQuota => ~Idle(quotas[q])
                    /\ retained[q] # NoQuota => Idle(retained[q])
  BY DEF QuotaInv
<1>1. active = {} /\ pending = {} /\ quotas[q] = NoQuota /\ retained[q] = NoQuota
  BY DEF Init
<1> QED  BY <1>1 DEF Exact, On

LEMMA QuotaStep ==
    ASSUME TypeInv, SlotInv, QuotaInv, [Next]_vars
    PROVE  QuotaInv'
<1>1. CASE HandleRelease
  BY <1>1, QuotaRelease
<1>2. CASE HandleEnqueue
  BY <1>2, QuotaEnqueue
<1>3. CASE \E t \in Tasks : DispatchAdmit(t)
  BY <1>3, QuotaAdmit
<1>4. ASSUME NEW t \in Tasks, DrainOne(t) \/ DispatchAbandoned(t)  PROVE QuotaInv'
  <2>1. t \in pending /\ pending' = pending \ {t} /\ UNCHANGED <<req, active>>
    BY <1>4 DEF DrainOne, DispatchAbandoned, Selected, Dequeue, callerVars
  <2>2. \/ PruneIdleQuotas(t, AdjustQuotas(t, Rejected))
        \/ PruneIdleQuotas(t, AdjustQuotas(t, Abandoned))
    BY <1>4 DEF DrainOne, DispatchAbandoned
  <2> QED  BY <2>1, <2>2, QuotaSettlePending
<1>5. CASE \/ \E t \in Tasks : Caller(t)
           \/ \E c \in Closers : Shutdown(c) \/ HandleShutdown(c)
           \/ PollReleaseEmpty \/ PollShutdownEmpty \/ PollRxEmpty \/ HandleHealth
           \/ DrainDone \/ DispatchDone \/ Continue \/ Stop \/ SendHealth \/ Tick
           \/ UNCHANGED vars
  <2>1. UNCHANGED <<req, active, pending, quotas, retained>>
    BY <1>5 DEF Caller, RefuseAcquire, BeginAcquire, SendEnqueue, CancelSend, FailSend,
         ReceiveLease, ReceiveError, AbandonWait, DropLease, Shutdown, ShutdownSwap,
         ShutdownSend, HandleShutdown, PollReleaseEmpty, PollShutdownEmpty, PollRxEmpty,
         HandleHealth, DrainDone, DispatchDone, Continue, Stop, SendHealth, Tick,
         callerVars, actorVars, queueVars, quotaVars, vars
  <2> QED  BY <2>1, QuotaFrame
<1> QED
  BY <1>1, <1>2, <1>3, <1>4, <1>5 DEF Next, Actor

-----------------------------------------------------------------------------
(* The results. *)

IndInv == TypeInv /\ SlotInv /\ ShutdownInv /\ QuotaInv

LEMMA IndInvHolds == Spec => []IndInv
<1>1. Init => IndInv
  BY TypeInit, SlotInit, ShutdownInit, QuotaInit DEF IndInv
<1>2. IndInv /\ [Next]_vars => IndInv'
  BY TypeStep, SlotStep, ShutdownStep, QuotaStep DEF IndInv
<1> QED  BY <1>1, <1>2, PTL DEF Spec

(* Quota bookkeeping is exact in every reachable state: a quota is live    *)
(* exactly while it is used, its counters are the true numbers, and its    *)
(* users agree on its limit.                                               *)
THEOREM QuotaAccountingAlways == Spec => []QuotaAccounting
<1>1. ASSUME IndInv  PROVE QuotaAccounting
  <2> SUFFICES ASSUME NEW q \in QuotaId
               PROVE  IF quotas[q] = NoQuota
                      THEN On(active \cup pending, q) = {}
                      ELSE /\ quotas[q].active = Cardinality(On(active, q))
                           /\ quotas[q].pending = Cardinality(On(pending, q))
                           /\ On(active \cup pending, q) # {}
                           /\ \A t \in On(active \cup pending, q) :
                                req[t].limit[q] = quotas[q].max
    BY DEF QuotaAccounting
  <2>1. On(active \cup pending, q) = On(active, q) \cup On(pending, q)
    BY DEF On
  <2>2. Exact(quotas[q], q, active, pending) /\ (quotas[q] # NoQuota => ~Idle(quotas[q]))
    BY <1>1 DEF IndInv, QuotaInv
  <2>3. CASE quotas[q] = NoQuota
    BY <2>1, <2>2, <2>3 DEF Exact
  <2>4. CASE quotas[q] # NoQuota
    <3>1. On(active, q) # {} \/ On(pending, q) # {}
      BY <2>2, <2>4, FS_EmptySet DEF Exact, Idle
    <3> QED  BY <2>1, <2>2, <2>4, <3>1 DEF Exact
  <2> QED  BY <2>3, <2>4
<1> QED  BY <1>1, IndInvHolds, PTL

(* The holders of leases are among the active admissions, so the limits    *)
(* the actor keeps bound them.                                             *)
LEMMA HoldersWithin ==
    ASSUME IndInv
    PROVE  /\ Holders \subseteq active
           /\ IsFiniteSet(active)
           /\ \A S \in SUBSET active :
                /\ Cardinality(Global(S)) <= MaxActive
                /\ \A t \in S : \A q \in Dims(t) : Cardinality(On(S, q)) <= req[t].limit[q]
<1>1. Holders \subseteq active /\ IsFiniteSet(active)
  BY DEF IndInv, SlotInv, Backed, SlotBound, Holders
<1>2. ASSUME NEW S \in SUBSET active
      PROVE  Cardinality(Global(S)) <= MaxActive
  <2>1. IsFiniteSet(Global(active)) /\ Global(S) \in SUBSET Global(active)
    BY <1>1, FS_Subset DEF Global
  <2>2. Cardinality(Global(S)) <= Cardinality(Global(active))
    BY <2>1, FS_Subset
  <2>3. Cardinality(Global(S)) \in Nat /\ Cardinality(Global(active)) \in Nat
    BY <2>1, FS_Subset, FS_CardinalityType
  <2> QED  BY <2>2, <2>3, BoundsAssumption DEF IndInv, SlotInv, SlotBound, GlobalActiveCount
<1>3. ASSUME NEW S \in SUBSET active, NEW t \in S, NEW q \in Dims(t)
      PROVE  Cardinality(On(S, q)) <= req[t].limit[q]
  <2>1. q \in QuotaId /\ t \in On(active, q)
    BY DEF Dims, On
  <2>2. quotas[q] # NoQuota /\ quotas[q] \in QuotaState
    BY UsedQuotaLive DEF IndInv
  <2>3. /\ quotas[q].active = Cardinality(On(active, q))
        /\ quotas[q].active <= quotas[q].max
        /\ req[t].limit[q] = quotas[q].max
    BY <2>1, <2>2 DEF IndInv, QuotaInv, Exact
  <2>4. IsFiniteSet(On(active, q)) /\ On(S, q) \in SUBSET On(active, q)
    BY <1>1, FS_Subset DEF On
  <2>5. /\ Cardinality(On(S, q)) <= Cardinality(On(active, q))
        /\ Cardinality(On(S, q)) \in Nat
    BY <2>4, FS_Subset, FS_CardinalityType
  <2>6. quotas[q].active \in Nat /\ quotas[q].max \in Nat
    BY <2>2 DEF QuotaState
  <2> QED  BY <2>3, <2>5, <2>6
<1> QED  BY <1>1, <1>2, <1>3

(* The leases callers hold never exceed the slots or any quota's limit, for*)
(* every number of callers, slots and quotas, and whatever is in flight.   *)
THEOREM HoldersBoundedAlways == Spec => []HoldersBounded
<1>1. ASSUME IndInv  PROVE HoldersBounded
  <2>1. Holders \in SUBSET active
    BY <1>1, HoldersWithin
  <2>2. \A q : {u \in Holders : q \in Dims(u)} = On(Holders, q)
    BY DEF On
  <2> QED  BY <1>1, <2>1, <2>2, HoldersWithin DEF HoldersBounded
<1> QED  BY <1>1, IndInvHolds, PTL

-----------------------------------------------------------------------------
(* Slots are never leaked and never left idle. *)

LEMMA LeakFrame ==
    ASSUME NoLeakedSlot, UNCHANGED <<caller, ready, relq>>, active' \subseteq active
    PROVE  NoLeakedSlot'
BY DEF NoLeakedSlot, Elements

LEMMA LeakCaller ==
    ASSUME IndInv, NoLeakedSlot, NEW t \in Tasks, Caller(t)
    PROVE  NoLeakedSlot'
<1>1. /\ caller \in [Tasks -> {"idle", "sending", "waiting", "holding", "unwinding", "done"}]
      /\ relq \in Seq(Tasks) /\ active \subseteq Tasks
  BY DEF IndInv, TypeInv, TypeOK
<1>2. UNCHANGED <<active, ready>>
  BY DEF Caller, RefuseAcquire, BeginAcquire, SendEnqueue, CancelSend, FailSend,
         ReceiveLease, ReceiveError, AbandonWait, DropLease, actorVars
<1>3. caller[t] \in {"idle", "sending"} => t \notin active
  BY DEF IndInv, SlotInv, OnePlace
<1>4. ASSUME NEW u \in active, u # t  PROVE caller'[u] = caller[u]
  BY <1>1, <1>4 DEF Caller, RefuseAcquire, BeginAcquire, SendEnqueue, CancelSend, FailSend,
         ReceiveLease, ReceiveError, AbandonWait, DropLease
<1>5. CASE DropLease(t)
  <2>1. CASE pc = "stopped"
    BY <1>2, <2>1 DEF IndInv, ShutdownInv, NoLeakedSlot
  <2>2. CASE pc # "stopped"
    <3>1. relq' = Append(relq, t) /\ caller'[t] = "done"
      BY <1>1, <1>5, <2>2 DEF DropLease
    <3>2. t \in Elements(relq)' /\ \A u \in Elements(relq) : u \in Elements(relq)'
      <4>1. /\ Len(relq') = Len(relq) + 1 /\ relq'[Len(relq) + 1] = t
            /\ \A i \in 1..Len(relq) : relq'[i] = relq[i]
            /\ Len(relq) \in Nat
        BY <1>1, <3>1
      <4> QED  BY <4>1 DEF Elements
    <3> QED  BY <1>2, <1>4, <3>1, <3>2 DEF NoLeakedSlot
  <2> QED  BY <2>1, <2>2
<1>6. CASE ~DropLease(t)
  <2>1. relq' = relq
    BY <1>6 DEF Caller, RefuseAcquire, BeginAcquire, SendEnqueue, CancelSend, FailSend,
         ReceiveLease, ReceiveError, AbandonWait
  <2>2. t \in active => caller'[t] \in {"holding", "unwinding"}
    BY <1>1, <1>3, <1>6 DEF Caller, RefuseAcquire, BeginAcquire, SendEnqueue, CancelSend,
         FailSend, ReceiveLease, ReceiveError, AbandonWait
  <2> QED  BY <1>2, <1>4, <2>1, <2>2 DEF NoLeakedSlot, Elements
<1> QED  BY <1>5, <1>6

LEMMA LeakRelease ==
    ASSUME IndInv, NoLeakedSlot, HandleRelease
    PROVE  NoLeakedSlot'
<1> DEFINE t == Head(relq)
<1>1. /\ relq \in Seq(Tasks) /\ relq # <<>> /\ relq' = Tail(relq) /\ caller' = caller
  BY DEF HandleRelease, IndInv, TypeInv, TypeOK, callerVars
<1>2. caller[t] = "done"
  BY <1>1 DEF IndInv, SlotInv, Backed
<1>3. ready' = ready
  BY <1>2 DEF HandleRelease, ReleaseActive, ReleasePending, ReleaseUnmatched, Reply, Listening
<1>4. active' = active \ {t}
  BY DEF HandleRelease, ReleaseActive, ReleasePending, ReleaseUnmatched
<1>5. ASSUME NEW u \in Elements(relq), u # t  PROVE u \in Elements(relq)'
  <2>1. PICK i \in 1..Len(relq) : relq[i] = u
    BY DEF Elements
  <2>2. i # 1 /\ i - 1 \in 1..Len(relq') /\ relq'[i - 1] = relq[i]
    BY <1>1, <1>5, <2>1
  <2> QED  BY <2>1, <2>2 DEF Elements
<1> HIDE DEF t
<1> QED  BY <1>1, <1>3, <1>4, <1>5 DEF NoLeakedSlot

LEMMA LeakStep ==
    ASSUME IndInv, NoLeakedSlot, [Next]_vars
    PROVE  NoLeakedSlot'
<1>0. /\ ready \in [Tasks -> {"none", "ok", "cancelled", "closed", "atCapacity", "invalid"}]
      /\ active \cap pending = {} /\ active \subseteq Tasks
  BY DEF IndInv, TypeInv, TypeOK, SlotInv, OnePlace
<1>1. CASE \E t \in Tasks : Caller(t)
  BY <1>1, LeakCaller
<1>2. CASE HandleRelease
  BY <1>2, LeakRelease
<1>3. CASE HandleEnqueue
  <2>1. UNCHANGED <<caller, relq, active>>
    BY <1>3 DEF HandleEnqueue, callerVars
  <2>2. Head(chan) \notin active
    <3>1. chan # <<>> /\ chan \in Seq(Tasks \cup {HealthProbe})
      BY <1>3 DEF HandleEnqueue, IndInv, TypeInv, TypeOK
    <3>2. Head(chan) = chan[1] /\ 1 \in 1..Len(chan)
      BY <3>1
    <3> QED  BY <3>2 DEF IndInv, SlotInv, OnePlace
  <2>3. \A u \in active : ready'[u] = ready[u]
    BY <1>0, <1>3, <2>2 DEF HandleEnqueue, RefuseEnqueue, AcceptEnqueue, Reply
  <2> QED  BY <2>1, <2>3 DEF NoLeakedSlot, Elements
<1>4. ASSUME NEW t \in Tasks, DrainOne(t)  PROVE NoLeakedSlot'
  <2>1. UNCHANGED <<caller, relq, active>> /\ t \notin active
    BY <1>0, <1>4 DEF DrainOne, callerVars
  <2>2. \A u \in active : ready'[u] = ready[u]
    BY <1>0, <1>4, <2>1 DEF DrainOne, Reply
  <2> QED  BY <2>1, <2>2 DEF NoLeakedSlot, Elements
<1>5. ASSUME NEW t \in Tasks, DispatchAdmit(t)  PROVE NoLeakedSlot'
  <2>1. UNCHANGED <<caller, relq>> /\ active' = active \cup {t} /\ caller[t] = "waiting"
    BY <1>5 DEF DispatchAdmit, Listening, callerVars
  <2>2. ready'[t] = "ok" /\ \A u \in Tasks : u # t => ready'[u] = ready[u]
    BY <1>0, <1>5, <2>1 DEF DispatchAdmit, Reply, Listening
  <2> QED  BY <1>0, <2>1, <2>2 DEF NoLeakedSlot, Elements
<1>6. CASE Stop
  BY <1>6 DEF Stop, NoLeakedSlot
<1>7. CASE \/ \E c \in Closers : Shutdown(c) \/ HandleShutdown(c)
           \/ \E t \in Tasks : DispatchAbandoned(t)
           \/ PollReleaseEmpty \/ PollShutdownEmpty \/ PollRxEmpty \/ HandleHealth
           \/ DrainDone \/ DispatchDone \/ Continue \/ SendHealth \/ Tick
           \/ UNCHANGED vars
  <2>1. UNCHANGED <<caller, ready, relq, active>>
    BY <1>7 DEF Shutdown, ShutdownSwap, ShutdownSend, HandleShutdown, DispatchAbandoned,
         PollReleaseEmpty, PollShutdownEmpty, PollRxEmpty, HandleHealth, DrainDone,
         DispatchDone, Continue, SendHealth, Tick, callerVars, actorVars, vars
  <2> QED  BY <2>1, LeakFrame
<1> QED
  BY <1>1, <1>2, <1>3, <1>4, <1>5, <1>6, <1>7 DEF Next, Actor

(* Every occupied slot has somebody who will give it back, whichever of a  *)
(* grant, a cancellation and the drop of the lease comes first.            *)
THEOREM NoLeakedSlotAlways == Spec => []NoLeakedSlot
<1>1. Init => NoLeakedSlot
  BY DEF Init, NoLeakedSlot
<1>2. ASSUME IndInv, NoLeakedSlot, [Next]_vars  PROVE NoLeakedSlot'
  BY <1>2, LeakStep
<1> QED  BY <1>1, <1>2, IndInvHolds, PTL DEF Spec

(* WorkConserving, already when the handler ends. *)
Conserved ==
    pc \in {"loopEnd", "pollRelease", "pollShutdown", "pollRx"} /\ ~closing
        => \A t \in pending : ~Admissible(t)

LEMMA ConservedFrame ==
    ASSUME Conserved, UNCHANGED <<req, pending, active, quotas, closing>>,
           pc' \in {"loopEnd", "pollRelease", "pollShutdown", "pollRx"}
               => pc \in {"loopEnd", "pollRelease", "pollShutdown", "pollRx"}
    PROVE  Conserved'
BY DEF Conserved, Admissible, QuotaAllows, Dims, GlobalActiveCount, Global

LEMMA ConservedStep ==
    ASSUME IndInv, Conserved, [Next]_vars
    PROVE  Conserved'
<1>1. CASE \/ \E t \in Tasks : Caller(t)
           \/ \E c \in Closers : Shutdown(c)
           \/ PollReleaseEmpty \/ PollShutdownEmpty \/ PollRxEmpty \/ HandleHealth
           \/ Continue \/ Stop \/ SendHealth \/ Tick \/ UNCHANGED vars
           \/ (HandleEnqueue /\ RefuseEnqueue(Head(chan)))
  <2>1. UNCHANGED <<req, active, pending, quotas, closing>>
    BY <1>1 DEF Caller, RefuseAcquire, BeginAcquire, SendEnqueue, CancelSend, FailSend,
         ReceiveLease, ReceiveError, AbandonWait, DropLease, Shutdown, ShutdownSwap,
         ShutdownSend, PollReleaseEmpty, PollShutdownEmpty, PollRxEmpty, HandleHealth,
         Continue, Stop, SendHealth, Tick, HandleEnqueue, RefuseEnqueue,
         callerVars, actorVars, queueVars, quotaVars, vars
  <2>2. pc' \in {"loopEnd", "pollRelease", "pollShutdown", "pollRx"}
               => pc \in {"loopEnd", "pollRelease", "pollShutdown", "pollRx"}
    BY <1>1 DEF Caller, RefuseAcquire, BeginAcquire, SendEnqueue, CancelSend, FailSend,
         ReceiveLease, ReceiveError, AbandonWait, DropLease, Shutdown, ShutdownSwap,
         ShutdownSend, PollReleaseEmpty, PollShutdownEmpty, PollRxEmpty, HandleHealth,
         Continue, Stop, SendHealth, Tick, HandleEnqueue, RefuseEnqueue, actorVars, vars
  <2> QED  BY <2>1, <2>2, ConservedFrame
<1>2. CASE \/ HandleRelease
           \/ \E c \in Closers : HandleShutdown(c)
           \/ \E t \in Tasks : DrainOne(t) \/ DispatchAdmit(t) \/ DispatchAbandoned(t)
           \/ DrainDone
           \/ (HandleEnqueue /\ AcceptEnqueue(Head(chan)))
  <2>1. pc' \in {"dispatch", "drain"} \/ closing'
    BY <1>2 DEF HandleRelease, HandleShutdown, DrainOne, DispatchAdmit, DispatchAbandoned,
         DrainDone, HandleEnqueue, AcceptEnqueue, IndInv, ShutdownInv
  <2> QED  BY <2>1 DEF Conserved
<1>3. CASE DispatchDone
  <2>1. /\ UNCHANGED <<req, active, pending, quotas>> /\ \A t \in pending : ~Admissible(t)
    BY <1>3 DEF DispatchDone, callerVars, queueVars, quotaVars
  <2> QED  BY <2>1 DEF Conserved, Admissible, QuotaAllows, Dims, GlobalActiveCount, Global
<1> QED
  BY <1>1, <1>2, <1>3 DEF Next, Actor, HandleEnqueue

(* When the actor waits for a message no queued item could be admitted:    *)
(* every handler that frees capacity or adds an item dispatches first.     *)
THEOREM WorkConservingAlways == Spec => []WorkConserving
<1>1. Init => Conserved
  BY DEF Init, Conserved
<1>2. ASSUME IndInv, Conserved, [Next]_vars  PROVE Conserved'
  BY <1>2, ConservedStep
<1>3. Conserved => WorkConserving
  BY DEF Conserved, WorkConserving
<1> QED  BY <1>1, <1>2, <1>3, IndInvHolds, PTL DEF Spec

-----------------------------------------------------------------------------
(* The order of admission. *)

(* AgedPriority, at a clock reading m. *)
AgedAt(t, m) ==
    LET priority == req[t].priority
        levels == (m - enqueuedAt[t]) \div AgingInterval
    IN  IF priority = 0 THEN 0
        ELSE IF priority - levels < 1 THEN 1 ELSE priority - levels

(* While it dispatches, the actor compares priorities that were all aged at*)
(* one moment, whatever the clock reads by then.                           *)
AgingInv ==
    pc = "dispatch" =>
        \E m \in 0..now : \A t \in pending : enqueuedAt[t] <= m /\ eff[t] = AgedAt(t, m)

(* Waiting longer never lowers the level: division is monotonic. *)
LEMMA DivMonotonic ==
    ASSUME NEW a \in Nat, NEW b \in Nat, NEW d \in Nat \ {0}, a <= b
    PROVE  a \div d <= b \div d /\ a \div d \in Nat
<1> DEFINE qa == a \div d  qb == b \div d
<1>1. qa \in Nat /\ qb \in Nat
  OBVIOUS
<1>2. a = d * qa + (a % d) /\ 0 <= a % d /\ a % d < d /\ a % d \in Nat
  OBVIOUS
<1>3. b = d * qb + (b % d) /\ 0 <= b % d /\ b % d < d /\ b % d \in Nat
  OBVIOUS
<1>4. ASSUME qb < qa  PROVE FALSE
  <2> HIDE DEF qa, qb
  <2>1. d * qa >= d * (qb + 1)
    BY <1>1, <1>4
  <2>2. d * (qb + 1) = d * qb + d
    BY <1>1
  <2> QED  BY <1>1, <1>2, <1>3, <2>1, <2>2
<1> QED  BY <1>1, <1>4

(* An item that has waited n intervals has aged n levels. *)
LEMMA DivLower ==
    ASSUME NEW a \in Nat, NEW n \in Nat, NEW d \in Nat \ {0}, n * d <= a
    PROVE  n <= a \div d
<1> DEFINE qa == a \div d
<1>1. qa \in Nat
  OBVIOUS
<1>2. a = d * qa + (a % d) /\ 0 <= a % d /\ a % d < d /\ a % d \in Nat
  OBVIOUS
<1>3. ASSUME qa < n  PROVE FALSE
  <2> HIDE DEF qa
  <2>1. n * d >= (qa + 1) * d
    BY <1>1, <1>3
  <2>2. (qa + 1) * d = d * qa + d
    BY <1>1
  <2> QED  BY <1>1, <1>2, <2>1, <2>2
<1> QED  BY <1>1, <1>3

LEMMA AgingStep ==
    ASSUME IndInv, AgingInv, [Next]_vars
    PROVE  AgingInv'
<1> SUFFICES ASSUME pc' = "dispatch"
             PROVE  \E m \in 0..now' : \A t \in pending' :
                        enqueuedAt'[t] <= m /\ eff'[t] = AgedAt(t, m)'
  BY DEF AgingInv
<1>0. /\ enqueuedAt \in [Tasks -> Nat] /\ eff \in [Tasks -> 0..4] /\ pending \subseteq Tasks
      /\ now \in Nat /\ \A t \in Tasks : enqueuedAt[t] <= now
  BY DEF IndInv, TypeInv, TypeOK, ClockOK
<1>1. ASSUME ApplyAging(pending'), UNCHANGED <<req, enqueuedAt, now>>, pending' \subseteq Tasks
      PROVE  \E m \in 0..now' : \A t \in pending' :
                        enqueuedAt'[t] <= m /\ eff'[t] = AgedAt(t, m)'
  <2>1. \A t \in pending' : enqueuedAt'[t] <= now /\ eff'[t] = AgedAt(t, now)'
    <3> TAKE t \in pending'
    <3>1. eff'[t] = AgedPriority(t) /\ enqueuedAt[t] <= now
      BY <1>0, <1>1 DEF ApplyAging
    <3>2. AgedPriority(t) = AgedAt(t, now)'
      BY <1>1 DEF AgedPriority, AgedAt
    <3> QED  BY <1>1, <3>1, <3>2
  <2>2. now \in 0..now'
    BY <1>0, <1>1
  <2> QED  BY <1>1, <2>1, <2>2
<1>2. CASE HandleRelease
  <2>1. ApplyAging(pending') /\ UNCHANGED <<req, enqueuedAt, now>>
    BY <1>2 DEF HandleRelease, callerVars, clockVars
  <2>2. pending' \subseteq Tasks
    BY <1>0, <1>2 DEF HandleRelease, ReleaseActive, ReleasePending, ReleaseUnmatched
  <2> QED  BY <1>1, <2>1, <2>2
<1>3. CASE HandleEnqueue
  <2>1. AcceptEnqueue(Head(chan)) /\ Head(chan) \in Tasks /\ UNCHANGED <<req, enqueuedAt, now>>
    BY <1>3 DEF HandleEnqueue, RefuseEnqueue, callerVars, clockVars
  <2>2. ApplyAging(pending') /\ pending' \subseteq Tasks
    BY <1>0, <2>1 DEF AcceptEnqueue
  <2> QED  BY <1>1, <2>1, <2>2
<1>4. ASSUME NEW m \in 0..now, \A t \in pending : enqueuedAt[t] <= m /\ eff[t] = AgedAt(t, m),
             UNCHANGED req, now' \in Nat, now <= now', pending' \subseteq pending,
             \A t \in pending' : enqueuedAt'[t] = enqueuedAt[t] /\ eff'[t] = eff[t]
      PROVE  \E n \in 0..now' : \A t \in pending' :
                        enqueuedAt'[t] <= n /\ eff'[t] = AgedAt(t, n)'
  <2>1. m \in 0..now'
    BY <1>0, <1>4
  <2>2. ASSUME NEW t \in pending'
        PROVE  enqueuedAt'[t] <= m /\ eff'[t] = AgedAt(t, m)'
    BY <1>4 DEF AgedAt
  <2> QED  BY <2>1, <2>2
<1>5. CASE ~HandleRelease /\ ~HandleEnqueue
  <2>1. pc = "dispatch"
    BY <1>5 DEF Next, Caller, RefuseAcquire, BeginAcquire, SendEnqueue, CancelSend, FailSend,
         ReceiveLease, ReceiveError, AbandonWait, DropLease, Shutdown, ShutdownSwap,
         ShutdownSend, Actor, HandleShutdown, PollReleaseEmpty, PollShutdownEmpty, PollRxEmpty,
         HandleHealth, DrainOne, DrainDone, DispatchAdmit, DispatchAbandoned, DispatchDone,
         Continue, Stop, SendHealth, Tick, actorVars, vars
  <2>2. PICK m \in 0..now : \A t \in pending : enqueuedAt[t] <= m /\ eff[t] = AgedAt(t, m)
    BY <2>1 DEF AgingInv
  <2>3. req' = req /\ now' \in Nat /\ now <= now'
    BY <1>0, <1>5 DEF Next, Caller, RefuseAcquire, BeginAcquire, SendEnqueue, CancelSend,
         FailSend, ReceiveLease, ReceiveError, AbandonWait, DropLease, Shutdown, ShutdownSwap,
         ShutdownSend, Actor, HandleShutdown, PollReleaseEmpty, PollShutdownEmpty, PollRxEmpty,
         HandleHealth, DrainOne, DrainDone, DispatchAdmit, DispatchAbandoned, DispatchDone,
         Continue, Stop, SendHealth, Tick, callerVars, clockVars, vars
  <2>4. pending' \subseteq pending /\ \A t \in pending' : eff'[t] = eff[t]
    <3>1. CASE \E t \in Tasks : DrainOne(t) \/ DispatchAdmit(t) \/ DispatchAbandoned(t)
      BY <1>0, <3>1 DEF DrainOne, DispatchAdmit, DispatchAbandoned, Dequeue
    <3>2. CASE ~(\E t \in Tasks : DrainOne(t) \/ DispatchAdmit(t) \/ DispatchAbandoned(t))
      <4>1. ~HandleHealth
        BY <2>1 DEF HandleHealth
      <4>2. UNCHANGED <<pending, eff>>
        BY <1>5, <3>2, <4>1 DEF Next, Caller, RefuseAcquire, BeginAcquire, SendEnqueue,
           CancelSend, FailSend, ReceiveLease, ReceiveError, AbandonWait, DropLease, Shutdown,
           ShutdownSwap, ShutdownSend, Actor, HandleShutdown, PollReleaseEmpty,
           PollShutdownEmpty, PollRxEmpty, DrainDone, DispatchDone, Continue, Stop,
           SendHealth, Tick, actorVars, queueVars, vars
      <4> QED  BY <4>2
    <3> QED  BY <3>1, <3>2
  <2>5. \A t \in pending : enqueuedAt'[t] = enqueuedAt[t]
    <3>1. ASSUME NEW t \in Tasks, BeginAcquire(t)
          PROVE  \A u \in pending : enqueuedAt'[u] = enqueuedAt[u]
      <4>1. t \notin pending
        BY <3>1 DEF BeginAcquire, IndInv, SlotInv, OnePlace
      <4> QED  BY <1>0, <3>1, <4>1 DEF BeginAcquire
    <3>2. CASE ~(\E t \in Tasks : BeginAcquire(t))
      <4>1. UNCHANGED enqueuedAt
        BY <1>5, <3>2 DEF Next, Caller, RefuseAcquire, SendEnqueue, CancelSend,
         FailSend, ReceiveLease, ReceiveError, AbandonWait, DropLease, Shutdown, ShutdownSwap,
         ShutdownSend, Actor, HandleShutdown, PollReleaseEmpty, PollShutdownEmpty, PollRxEmpty,
         HandleHealth, DrainOne, DrainDone, DispatchAdmit, DispatchAbandoned, DispatchDone,
         Continue, Stop, SendHealth, Tick, callerVars, vars
      <4> QED  BY <4>1
    <3> QED  BY <3>1, <3>2
  <2> QED  BY <1>4, <2>2, <2>3, <2>4, <2>5
<1> QED  BY <1>2, <1>3, <1>5

LEMMA AgingAlways == Spec => [](IndInv /\ AgingInv)
<1>1. Init => AgingInv
  BY DEF Init, AgingInv
<1>2. ASSUME IndInv, AgingInv, [Next]_vars  PROVE AgingInv'
  BY <1>2, AgingStep
<1> QED  BY <1>1, <1>2, IndInvHolds, PTL DEF Spec

(* The admission of t: it was selected among items aged at one moment m.   *)
LEMMA AdmitsSelected ==
    ASSUME IndInv, AgingInv, [Next]_vars, NEW t \in Tasks, Admits(t)
    PROVE  /\ t \in pending
           /\ \A u \in pending \ {t} : Admissible(u) => Precedes(t, u)
           /\ \E m \in 0..now : \A u \in pending :
                enqueuedAt[u] <= m /\ eff[u] = AgedAt(u, m)
<1>1. DispatchAdmit(t)
  <2>1. ASSUME NEW u \in Tasks, DispatchAdmit(u)  PROVE u = t
    BY <2>1 DEF DispatchAdmit, Admits
  <2>2. CASE ~(\E u \in Tasks : DispatchAdmit(u))
    <3>1. active' \subseteq active
      BY <2>2 DEF Next, Caller, RefuseAcquire, BeginAcquire, SendEnqueue, CancelSend,
         FailSend, ReceiveLease, ReceiveError, AbandonWait, DropLease, Shutdown, ShutdownSwap,
         ShutdownSend, Actor, HandleRelease, ReleaseActive, ReleasePending, ReleaseUnmatched,
         HandleShutdown, PollReleaseEmpty, PollShutdownEmpty, PollRxEmpty, HandleEnqueue,
         HandleHealth, DrainOne, DrainDone, DispatchAbandoned, DispatchDone,
         Continue, Stop, SendHealth, Tick, actorVars, vars
    <3> QED  BY <3>1 DEF Admits
  <2> QED  BY <2>1, <2>2
<1>2. pc = "dispatch" /\ Selected(t)
  BY <1>1 DEF DispatchAdmit
<1> QED  BY <1>2 DEF Selected, AgingInv

(* What the aged priorities of two items tell at one moment. *)
LEMMA AgedOrder ==
    ASSUME IndInv, NEW t \in Tasks, NEW u \in Tasks, NEW m \in Nat,
           enqueuedAt[t] <= m, enqueuedAt[u] <= m
    PROVE  /\ AgedAt(t, m) \in 0..4 /\ AgedAt(u, m) \in 0..4
           /\ req[t].priority = 0 <=> AgedAt(t, m) = 0
           /\ req[u].priority <= req[t].priority /\ enqueuedAt[u] <= enqueuedAt[t]
                => AgedAt(u, m) <= AgedAt(t, m)
           /\ /\ req[t].priority # 0
              /\ enqueuedAt[u] + (req[u].priority - 1) * AgingInterval <= enqueuedAt[t]
              => AgedAt(u, m) <= AgedAt(t, m)
<1> DEFINE p == req[t].priority  r == req[u].priority
           a == (m - enqueuedAt[t]) \div AgingInterval
           b == (m - enqueuedAt[u]) \div AgingInterval
<1>1. p \in 0..4 /\ r \in 0..4 /\ enqueuedAt[t] \in Nat /\ enqueuedAt[u] \in Nat
  BY RequestsAssumption DEF IndInv, TypeInv, TypeOK
<1>2. /\ AgedAt(t, m) = IF p = 0 THEN 0 ELSE IF p - a < 1 THEN 1 ELSE p - a
      /\ AgedAt(u, m) = IF r = 0 THEN 0 ELSE IF r - b < 1 THEN 1 ELSE r - b
  BY DEF AgedAt
<1>3. m - enqueuedAt[t] \in Nat /\ m - enqueuedAt[u] \in Nat /\ AgingInterval \in Nat \ {0}
  BY <1>1, BoundsAssumption
<1>4. a \in Nat /\ b \in Nat
  BY <1>3, DivMonotonic
<1>5. enqueuedAt[u] <= enqueuedAt[t] => a <= b
  BY <1>1, <1>3, DivMonotonic
<1>6. ASSUME r # 0, enqueuedAt[u] + (r - 1) * AgingInterval <= enqueuedAt[t]
      PROVE  r - 1 <= b
  <2>1. (r - 1) * AgingInterval <= m - enqueuedAt[u] /\ r - 1 \in Nat
    <3>1. r - 1 \in Nat
      BY <1>1, <1>6
    <3>2. (r - 1) * AgingInterval \in Nat
      BY <1>3, <3>1
    <3> HIDE DEF r
    <3> QED  BY <1>1, <1>6, <3>1, <3>2
  <2> QED  BY <1>3, <2>1, DivLower
<1> HIDE DEF a, b, p, r
<1>7. AgedAt(t, m) \in 0..4 /\ AgedAt(u, m) \in 0..4 /\ (p = 0 <=> AgedAt(t, m) = 0)
  BY <1>1, <1>2, <1>4
<1>8. r <= p /\ enqueuedAt[u] <= enqueuedAt[t] => AgedAt(u, m) <= AgedAt(t, m)
  BY <1>1, <1>2, <1>4, <1>5
<1>9. p # 0 /\ enqueuedAt[u] + (r - 1) * AgingInterval <= enqueuedAt[t]
        => AgedAt(u, m) <= AgedAt(t, m)
  BY <1>1, <1>2, <1>4, <1>6
<1> QED  BY <1>7, <1>8, <1>9 DEF p, r

(* An eligible urgent item is passed over for nothing less important, and  *)
(* no eligible item for one that is no more important and came later.      *)
THEOREM NoOvertakingAlways == Spec => NoOvertaking
<1>1. ASSUME IndInv, AgingInv, [Next]_vars, NEW t \in Tasks, NEW u \in Tasks,
             Admits(t), u \in pending \ {t}, Admissible(u)
      PROVE  /\ req[u].priority = 0 => req[t].priority = 0
             /\ ~ (/\ req[u].priority <= req[t].priority
                   /\ enqueuedAt[u] <= enqueuedAt[t]
                   /\ seqno[u] < seqno[t])
  <2>1. t \in pending /\ Precedes(t, u)
    BY <1>1, AdmitsSelected
  <2>2. PICK m \in 0..now : \A v \in pending : enqueuedAt[v] <= m /\ eff[v] = AgedAt(v, m)
    BY <1>1, AdmitsSelected
  <2>3. m \in Nat /\ seqno[t] \in Nat /\ seqno[u] \in Nat
    BY <1>1 DEF IndInv, TypeInv, TypeOK
  <2>4. /\ eff[t] = AgedAt(t, m) /\ enqueuedAt[t] <= m
        /\ eff[u] = AgedAt(u, m) /\ enqueuedAt[u] <= m
    BY <1>1, <2>1, <2>2
  <2>5. /\ eff[t] \in 0..4 /\ eff[u] \in 0..4
        /\ req[t].priority = 0 <=> eff[t] = 0
        /\ req[u].priority <= req[t].priority /\ enqueuedAt[u] <= enqueuedAt[t]
             => eff[u] <= eff[t]
    BY <1>1, <2>3, <2>4, AgedOrder
  <2>6. req[u].priority = 0 <=> eff[u] = 0
    BY <1>1, <2>3, <2>4, AgedOrder
  <2> QED  BY <2>1, <2>3, <2>5, <2>6 DEF Precedes
<1>2. ASSUME IndInv, AgingInv, [Next]_vars
      PROVE  \A t, u \in Tasks :
               Admits(t) /\ u \in pending \ {t} /\ Admissible(u) =>
                  /\ req[u].priority = 0 => req[t].priority = 0
                  /\ ~ (/\ req[u].priority <= req[t].priority
                        /\ enqueuedAt[u] <= enqueuedAt[t]
                        /\ seqno[u] < seqno[t])
  BY <1>1, <1>2
<1> QED  BY <1>2, AgingAlways, PTL DEF Spec, NoOvertaking

(* An eligible item that waited until it reached the Interactive class is  *)
(* passed over for nothing requested after that and queued behind it,      *)
(* Urgent items apart.                                                     *)
THEOREM AgedNotStarvedAlways == Spec => AgedNotStarved
<1>1. ASSUME IndInv, AgingInv, [Next]_vars, NEW t \in Tasks, NEW u \in Tasks,
             Admits(t), u \in pending \ {t}, Admissible(u), req[t].priority # 0,
             enqueuedAt[u] + (req[u].priority - 1) * AgingInterval <= enqueuedAt[t]
      PROVE  seqno[t] < seqno[u]
  <2>1. t \in pending /\ Precedes(t, u)
    BY <1>1, AdmitsSelected
  <2>2. PICK m \in 0..now : \A v \in pending : enqueuedAt[v] <= m /\ eff[v] = AgedAt(v, m)
    BY <1>1, AdmitsSelected
  <2>3. m \in Nat
    BY <1>1 DEF IndInv, TypeInv, TypeOK
  <2>4. /\ eff[t] = AgedAt(t, m) /\ enqueuedAt[t] <= m
        /\ eff[u] = AgedAt(u, m) /\ enqueuedAt[u] <= m
    BY <1>1, <2>1, <2>2
  <2>5. eff[t] \in 0..4 /\ eff[u] \in 0..4 /\ eff[u] <= eff[t]
    BY <1>1, <2>3, <2>4, AgedOrder
  <2> QED  BY <2>1, <2>5 DEF Precedes
<1>2. ASSUME IndInv, AgingInv, [Next]_vars
      PROVE  \A t, u \in Tasks :
               (/\ Admits(t) /\ u \in pending \ {t} /\ Admissible(u)
                /\ req[t].priority # 0
                /\ enqueuedAt[u] + (req[u].priority - 1) * AgingInterval <= enqueuedAt[t])
                  => seqno[t] < seqno[u]
  BY <1>1, <1>2
<1> QED  BY <1>2, AgingAlways, PTL DEF Spec, AgedNotStarved

-----------------------------------------------------------------------------
(* The scheduler implements AdmissionLimits. *)

Over == \E c \in Closers : closer[c] = "drained"

Spent == {t \in Tasks : caller[t] \in {"unwinding", "done"}}

(* The instance's Cardinality is this module's. *)
LEMMA SameCardinality ==
    ASSUME NEW S
    PROVE  Limits!Cardinality(S) = Cardinality(S)
BY DEF Limits!Cardinality, Cardinality

LEMMA LimitsOfSubset ==
    ASSUME IndInv, NEW S \in SUBSET active
    PROVE  Limits!WithinLimits(S)
<1>1. {t \in S : req[t].global} = Global(S)
  BY DEF Global
<1>2. ASSUME NEW t \in S, NEW q \in QuotaId, req[t].limit[q] # 0
      PROVE  Cardinality({u \in S : req[u].limit[q] # 0}) <= req[t].limit[q]
  <2>1. {u \in S : req[u].limit[q] # 0} = On(S, q) /\ q \in Dims(t)
    BY <1>2 DEF On, Dims
  <2> QED  BY <2>1, HoldersWithin
<1> QED
  BY <1>1, <1>2, HoldersWithin, SameCardinality DEF Limits!WithinLimits, Limits!Uses

LEMMA CallerLimits ==
    ASSUME IndInv, NEW t \in Tasks, Caller(t)
    PROVE  [Limits!Next]_Limits!vars
<1> USE DEF Holders, Spent, Over
<1>1. caller \in [Tasks -> {"idle", "sending", "waiting", "holding", "unwinding", "done"}]
  BY DEF IndInv, TypeInv, TypeOK
<1>2. UNCHANGED <<req, closer>> /\ Over' = Over
  BY DEF Caller, RefuseAcquire, BeginAcquire, SendEnqueue, CancelSend, FailSend,
         ReceiveLease, ReceiveError, AbandonWait, DropLease
<1>3. CASE \/ BeginAcquire(t) \/ SendEnqueue(t)
           \/ (DropLease(t) /\ caller[t] = "unwinding")
  <2>1. Holders' = Holders /\ Spent' = Spent
    BY <1>1, <1>3 DEF BeginAcquire, SendEnqueue, DropLease
  <2> QED  BY <1>2, <2>1 DEF Limits!vars
<1>4. CASE \/ RefuseAcquire(t) \/ CancelSend(t) \/ FailSend(t)
           \/ ReceiveError(t) \/ AbandonWait(t)
  <2>1. t \notin Holders /\ Holders' = Holders /\ Spent' = Spent \cup {t}
    BY <1>1, <1>4 DEF RefuseAcquire, CancelSend, FailSend, ReceiveError, AbandonWait
  <2>2. Limits!GiveUp(t)
    BY <1>2, <2>1 DEF Limits!GiveUp
  <2> QED  BY <2>2 DEF Limits!Next
<1>5. CASE DropLease(t) /\ caller[t] = "holding"
  <2>1. t \in Holders /\ Holders' = Holders \ {t} /\ Spent' = Spent \cup {t}
    BY <1>1, <1>5 DEF DropLease
  <2>2. Limits!Return(t)
    BY <1>2, <2>1 DEF Limits!Return
  <2> QED  BY <2>2 DEF Limits!Next
<1>6. CASE ReceiveLease(t)
  <2>1. /\ t \notin Holders \cup Spent
        /\ Holders' = Holders \cup {t} /\ Spent' = Spent
    BY <1>1, <1>6 DEF ReceiveLease
  <2>2. t \in active
    BY <1>6 DEF ReceiveLease, IndInv, SlotInv, Backed
  <2>3. ~Over
    BY <2>2 DEF IndInv, ShutdownInv
  <2>4. Holders \cup {t} \in SUBSET active
    BY <2>2, HoldersWithin
  <2>5. Limits!WithinLimits(Holders \cup {t})
    BY <2>4, LimitsOfSubset
  <2> HIDE DEF Holders, Spent, Over
  <2>6. Limits!Grant(t)
    BY <1>2, <2>1, <2>3, <2>5 DEF Limits!Grant, Spent, Over
  <2> QED  BY <2>6 DEF Limits!Next
<1> QED
  BY <1>3, <1>4, <1>5, <1>6 DEF Caller, DropLease

LEMMA OtherLimits ==
    ASSUME IndInv, IndInv', [Next]_vars, ~(\E t \in Tasks : Caller(t))
    PROVE  [Limits!Next]_Limits!vars
<1> USE DEF Over
<1>1. UNCHANGED <<req, caller>>
  BY DEF Next, Shutdown, ShutdownSwap, ShutdownSend, Actor, HandleRelease, HandleShutdown,
         PollReleaseEmpty, PollShutdownEmpty, PollRxEmpty, HandleEnqueue, HandleHealth,
         DrainOne, DrainDone, DispatchAdmit, DispatchAbandoned, DispatchDone, Continue,
         Stop, SendHealth, Tick, callerVars, vars
<1>2. Over => Over'
  <2>1. closer \in [Closers -> {"idle", "won", "sent", "draining", "queued", "drained", "returned"}]
    BY DEF IndInv, TypeInv, TypeOK
  <2>2. ASSUME NEW c \in Closers, closer[c] = "drained"  PROVE closer'[c] = "drained"
    BY <2>1, <2>2 DEF Next, Shutdown, ShutdownSwap, ShutdownSend, Actor, HandleRelease,
       HandleShutdown, PollReleaseEmpty, PollShutdownEmpty, PollRxEmpty, HandleEnqueue,
       HandleHealth, DrainOne, DrainDone, DispatchAdmit, DispatchAbandoned, DispatchDone,
       Continue, Stop, SendHealth, Tick, FinishShutdownIfIdle, vars
  <2> QED  BY <2>2
<1>3. Holders' = Holders /\ Spent' = Spent
  BY <1>1 DEF Holders, Spent
<1>4. CASE Over' = Over
  BY <1>1, <1>3, <1>4 DEF Limits!vars, Holders, Spent
<1>5. CASE Over' /\ ~Over
  <2>1. active' = {}
    BY <1>5 DEF IndInv, ShutdownInv
  <2>2. Holders' = {}
    BY <2>1 DEF IndInv, SlotInv, Backed, Holders
  <2>3. Limits!Finish
    BY <1>1, <1>3, <1>5, <2>2 DEF Limits!Finish, Spent, Holders
  <2> QED  BY <2>3 DEF Limits!Next
<1>6. Over \in BOOLEAN /\ Over' \in BOOLEAN
  OBVIOUS
<1> QED  BY <1>2, <1>4, <1>5, <1>6

(* Seen from its callers the scheduler is the abstract specification: the  *)
(* initial states agree, and every step grants or returns one lease within *)
(* the limits, gives one call up, completes a shutdown, or changes nothing.*)
THEOREM SchedulerImplementsLimits == Spec => ImplementsLimits
<1>1. Init => Limits!Init
  BY DEF Init, Limits!Init, Holders
<1>2. ASSUME IndInv, IndInv', [Next]_vars  PROVE [Limits!Next]_Limits!vars
  BY <1>2, CallerLimits, OtherLimits
<1> QED  BY <1>1, <1>2, IndInvHolds, PTL DEF Spec, ImplementsLimits, Limits!Spec
=============================================================================
