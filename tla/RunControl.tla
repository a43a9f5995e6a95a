----------------------------- MODULE RunControl -----------------------------
(***************************************************************************)
(* The per-run control inbox of core/src/run_control.rs: hosts submit      *)
(* steer and interrupt requests, governance hooks decide, the run's worker *)
(* consumes them at its safe points, and closing, cancelling or losing the *)
(* run settles what is left.                                               *)
(*                                                                         *)
(* Two locks protect the inbox.  `gate` is the admission mutex, which a    *)
(* submission holds across its awaits of the hooks.  The state mutex is    *)
(* never held across an await, so each of its critical sections is one     *)
(* step; the operations of the worker take both and are enabled only when  *)
(* the gate is free.                                                       *)
(*                                                                         *)
(* A run is driven either by the agent loop ("loop": drain, then           *)
(* mark_applied for each control) or by the fact runtime ("fact":          *)
(* persist_pending, with a guardian that joins the worker and settles what *)
(* it left).                                                               *)
(***************************************************************************)
EXTENDS Integers, Sequences, FiniteSets

CONSTANTS
    Callers,    \* concurrent users of submit_with_hooks
    Ids,        \* request ids
    Requests,   \* the requests hosts send
    Modes,      \* the runtimes considered, of "loop" and "fact"
    HookKinds,  \* hooks that are "prompt", or "waiting" for the run's cancellation
    MaxQueue,   \* RUN_CONTROL_MAX_QUEUE
    MaxSeen,    \* RUN_CONTROL_MAX_SEEN_REQUESTS
    MaxCalls,   \* bound of the model: submissions
    MaxTurn,    \* bound of the model: turns
    MaxTime,    \* bound of the model: ticks of the clock
    None

(* ours: the request names this session and run.  expect is the turn       *)
(* revision it names, 0 for none; the turn id changes with the revision.  A*)
(* request without a deadline has one beyond every time.                   *)
ASSUME RequestsAssumption ==
    Requests \subseteq [id : Ids, op : {"steer", "interrupt"}, ours : BOOLEAN,
                        expect : Nat, deadline : Nat]

ASSUME BoundsAssumption ==
    /\ {MaxQueue, MaxSeen, MaxCalls, MaxTurn, MaxTime} \subseteq Nat
    /\ HookKinds \subseteq {"prompt", "waiting"} /\ HookKinds # {}
    /\ Modes \subseteq {"loop", "fact"} /\ Modes # {}
    /\ None \notin Callers

VARIABLES
    call,       \* call[c]: where a submission is, its request and its now_ms
    gate,       \* who holds the admission mutex, or None
    closed,     \* InboxState.closed; active is its negation
    fired,      \* the run's cancellation token
    turn,       \* turn_revision
    queue,      \* controls waiting for a safe point
    inFlight,   \* controls drained and not acknowledged
    seen,       \* retained receipts
    seenOrder,  \* their ids, oldest first
    lastSeq,    \* last_sequence
    mode,       \* which runtime drives the run
    hooks,      \* which hooks its session has
    worker,     \* where the worker is
    todo,       \* what the loop drained and has still to apply
    host,       \* where a host's cancellation is
    proof,      \* the observation recorded when the run is sealed
    log,        \* the steers appended to the fact log
    events,     \* the RunControlApplied events of the loop
    owed,       \* terminal receipts whose post-hook has still to run
    posts,      \* posts[n]: receipt states post-hooks saw for sequence n
    evicted,    \* evicted[i]: how often a receipt of i was trimmed
    calls,      \* submissions so far
    now         \* the clock

callVars == <<call, gate, calls>>
hostVars == <<host, fired>>
postVars == <<owed, posts>>
runVars == <<mode, hooks, now>>
inboxVars == <<closed, queue, inFlight, seen, seenOrder, lastSeq, evicted>>
workerVars == <<turn, worker, todo, proof, log, events>>
vars == <<call, gate, closed, fired, turn, queue, inFlight, seen, seenOrder, lastSeq,
          mode, hooks, worker, todo, host, proof, log, events, owed, posts, evicted, calls,
          now>>

-----------------------------------------------------------------------------
(* Data. *)

Terminal == {"applied", "settled"}

Receipt == [req : Requests, seq : Nat, state : {"accepted"} \cup Terminal]

(* A control in the queue or in flight; its own receipt copy is Accepted. *)
Control == [req : Requests, seq : Nat]

ASSUME NoneAssumption == None \notin Receipt

Elements(s) == {s[i] : i \in 1..Len(s)}

Retained(s) == {i \in Ids : s[i] # None}

Accepted(s) == {i \in Retained(s) : s[i].state = "accepted"}

(* The controls still to be decided: the retained receipts win over the    *)
(* copies in the queue and in flight.                                      *)
AcceptedControls ==
    {k \in Elements(queue) \cup inFlight : seen[k.req.id] = None}
        \cup {[req |-> seen[i].req, seq |-> seen[i].seq] : i \in Accepted(seen)}

(* In the order they were admitted. *)
BySequence(S) ==
    CHOOSE s \in [1..Cardinality(S) -> S] : \A i, j \in DOMAIN s : i < j => s[i].seq < s[j].seq

(* The position of an id in the order of retention. *)
Before(order, i) == {order[k] : k \in 1..((CHOOSE k \in DOMAIN order : order[k] = i) - 1)}

(* The receipts that trim_terminal_receipts drops: the oldest terminal ones*)
(* beyond the bound.                                                       *)
Expired(s, order) ==
    {i \in Retained(s) \ Accepted(s) :
        Cardinality(Before(order, i) \ Accepted(s)) < Cardinality(Retained(s)) - MaxSeen}

(* The retained receipts become s, then trim_terminal_receipts runs. *)
RetainReceipts(s, order) ==
    LET expired == Expired(s, order)
    IN  /\ seen' = [i \in Ids |-> IF i \in expired THEN None ELSE s[i]]
        /\ seenOrder' = SelectSeq(order, LAMBDA i : i \notin expired)
        /\ evicted' = [i \in Ids |-> IF i \in expired THEN evicted[i] + 1 ELSE evicted[i]]

(* OriginalPendingObservation.has_accepted *)
HasAccepted == queue # <<>> \/ inFlight # {} \/ Accepted(seen) # {}

-----------------------------------------------------------------------------
Init ==
    /\ call \in [Callers -> [pc : {"idle"}, req : {None}, at : {0}]]
    /\ gate = None
    /\ closed = FALSE
    /\ fired = FALSE
    /\ turn = 0
    /\ queue = <<>>
    /\ inFlight = {}
    /\ seen = [i \in Ids |-> None]
    /\ seenOrder = <<>>
    /\ lastSeq = 0
    /\ mode \in Modes
    /\ hooks \in HookKinds
    /\ worker = "turn"
    /\ todo = <<>>
    /\ host = "idle"
    /\ proof = "none"
    /\ log = <<>>
    /\ events = <<>>
    /\ owed = {}
    /\ posts = [n \in 1..MaxCalls |-> <<>>]
    /\ evicted = [i \in Ids |-> 0]
    /\ calls = 0
    /\ now = 0

-----------------------------------------------------------------------------
(* A submission.  A step that is not an await follows the one before it    *)
(* without a chance to be dropped.                                         *)

Goto(c, at) == call' = [call EXCEPT ![c].pc = at]

Return(c) == call' = [call EXCEPT ![c] = [pc |-> "idle", req |-> None, at |-> 0]]

(* The session facade reads now_ms and calls submit_with_hooks. *)
BeginSubmit(c) ==
    /\ call[c].pc = "idle"
    /\ calls < MaxCalls
    /\ \E r \in Requests :
         call' = [call EXCEPT ![c] = [pc |-> "entering", req |-> r, at |-> now]]
    /\ calls' = calls + 1
    /\ UNCHANGED <<gate, inboxVars, workerVars, hostVars, postVars, runVars>>

(* The admission mutex is taken.  A known id returns its receipt, or       *)
(* DuplicateRequest, without a hook.                                       *)
EnterGate(c) ==
    /\ call[c].pc = "entering"
    /\ gate = None
    /\ IF seen[call[c].req.id] # None
       THEN Return(c) /\ UNCHANGED gate
       ELSE Goto(c, "hook") /\ gate' = c
    /\ UNCHANGED <<calls, inboxVars, workerVars, hostVars, postVars, runVars>>

(* A hook returns: at any time, or once the run is cancelled. *)
HookReturns == hooks = "waiting" => fired

(* Block, Retry or Escalate: the rejected receipt goes to the post-hook    *)
(* and is not retained.                                                    *)
HookRefuses(c) ==
    /\ call[c].pc = "hook"
    /\ HookReturns
    /\ Return(c)
    /\ gate' = None
    /\ UNCHANGED <<calls, inboxVars, workerVars, hostVars, postVars, runVars>>

HookContinues(c) ==
    /\ call[c].pc = "hook"
    /\ HookReturns
    /\ Goto(c, "submit")
    /\ UNCHANGED <<gate, calls, inboxVars, workerVars, hostVars, postVars, runVars>>

(* Fault: a sealed inbox still admits. *)
OpenUntilFired == ~fired

Open == ~closed /\ ~fired

HasRoom == Cardinality(AcceptedControls) < MaxQueue

(* What submit_locked requires of request r with clock reading at. *)
Admissible(r, at) ==
    /\ seen[r.id] = None
    /\ r.ours
    /\ Open
    /\ at <= r.deadline
    /\ r.expect \in {0, turn}
    /\ HasRoom

SubmitRefused(c) ==
    /\ call[c].pc = "submit"
    /\ ~Admissible(call[c].req, call[c].at)
    /\ Return(c)
    /\ gate' = None
    /\ UNCHANGED <<calls, inboxVars, workerVars, hostVars, postVars, runVars>>

(* Fault: the token of an accepted interrupt is left alone. *)
NextWithoutFiring(r) == "record"

(* What follows the admission of r. *)
NextAfterSubmit(r) == IF r.op = "interrupt" THEN "fire" ELSE "record"

(* submit_locked admits: an interrupt seals the inbox first. *)
SubmitAccepted(c) ==
    LET r == call[c].req
        n == lastSeq + 1
    IN  /\ call[c].pc = "submit"
        /\ Admissible(r, call[c].at)
        /\ lastSeq' = n
        /\ closed' = (closed \/ r.op = "interrupt")
        /\ queue' = Append(queue, [req |-> r, seq |-> n])
        /\ RetainReceipts([seen EXCEPT ![r.id] = [req |-> r, seq |-> n, state |-> "accepted"]],
                          Append(seenOrder, r.id))
        /\ Goto(c, NextAfterSubmit(r))
        /\ UNCHANGED <<gate, inFlight, calls, workerVars, hostVars, postVars, runVars>>

(* An accepted interrupt fires the token before anything else observes it. *)
FireInterrupt(c) ==
    /\ call[c].pc = "fire"
    /\ fired' = TRUE
    /\ Goto(c, "record")
    /\ UNCHANGED <<gate, host, calls, inboxVars, workerVars, postVars, runVars>>

(* The sequence number of the receipt a submission holds. *)
Submitted(c) == seen[call[c].req.id].seq

(* Fault: the gate opens before the accepted receipt is observed. *)
RecordAcceptedLate(c) ==
    \/ /\ call[c].pc = "record" /\ gate = c
       /\ gate' = None
       /\ UNCHANGED <<call, calls, inboxVars, workerVars, hostVars, postVars, runVars>>
    \/ /\ call[c].pc = "record" /\ gate # c
       /\ posts' = [posts EXCEPT ![Submitted(c)] = Append(@, "accepted")]
       /\ Return(c)
       /\ UNCHANGED <<gate, owed, calls, inboxVars, workerVars, hostVars, runVars>>

(* The post-hook sees Accepted, then the gate opens. *)
RecordAccepted(c) ==
    /\ call[c].pc = "record"
    /\ HookReturns
    /\ posts' = [posts EXCEPT ![Submitted(c)] = Append(@, "accepted")]
    /\ Return(c)
    /\ gate' = None
    /\ UNCHANGED <<owed, calls, inboxVars, workerVars, hostVars, runVars>>

(* The caller drops the future at an await: an admitted control stays. *)
DropSubmit(c) ==
    /\ call[c].pc \in {"entering", "hook", "submit", "record"}
    /\ Return(c)
    /\ gate' = IF gate = c THEN None ELSE gate
    /\ UNCHANGED <<calls, inboxVars, workerVars, hostVars, postVars, runVars>>

-----------------------------------------------------------------------------
(* The agent loop. *)

(* update_turn at the start of a turn; the fact runtime sets turn 1 once. *)
UpdateTurn ==
    /\ worker = "turn"
    /\ gate = None
    /\ turn < (IF mode = "fact" THEN 1 ELSE MaxTurn)
    /\ turn' = turn + 1
    /\ worker' = IF mode = "fact" THEN "turn" ELSE "drain"
    /\ UNCHANGED <<todo, proof, log, events, inboxVars, callVars, hostVars, postVars,
                   runVars>>

(* Fault: the queue is read, not drained. *)
DrainCopies ==
    /\ worker = "drain" \/ (worker = "turn" /\ mode = "loop" /\ fired)
    /\ gate = None
    /\ todo' = queue
    /\ inFlight' = inFlight \cup Elements(queue)
    /\ worker' = "apply"
    /\ UNCHANGED <<closed, turn, queue, seen, seenOrder, lastSeq, proof, log, events,
                   evicted, callVars, hostVars, postVars, runVars>>

(* A safe point, after update_turn or when a cancelled turn commits. *)
Drain ==
    /\ worker = "drain" \/ (worker = "turn" /\ mode = "loop" /\ fired)
    /\ gate = None
    /\ todo' = queue
    /\ queue' = <<>>
    /\ inFlight' = inFlight \cup Elements(queue)
    /\ worker' = "apply"
    /\ UNCHANGED <<closed, turn, seen, seenOrder, lastSeq, proof, log, events, evicted,
                   callVars, hostVars, postVars, runVars>>

(* The retained receipt lets the loop apply a drained control. *)
StillAccepted(i) == i \in Accepted(seen)

(* mark_applied on the next drained control: an Accepted receipt becomes   *)
(* Applied; one that a close settled first stays and the control is        *)
(* skipped.                                                                *)
MarkApplied ==
    /\ worker = "apply"
    /\ todo # <<>>
    /\ gate = None
    /\ LET k == Head(todo)
           i == k.req.id
       IN  IF StillAccepted(i)
           THEN /\ seen' = [seen EXCEPT ![i].state = "applied"]
                /\ inFlight' = {j \in inFlight : j.req.id # i}
                /\ owed' = owed \cup {[seq |-> seen[i].seq, state |-> "applied"]}
                /\ worker' = "event"
                /\ UNCHANGED todo
           ELSE /\ IF i \in Retained(seen) /\ seen[i].state = "applied"
                   THEN worker' = "event" /\ UNCHANGED todo
                   ELSE todo' = Tail(todo) /\ UNCHANGED worker
                /\ UNCHANGED <<seen, inFlight, owed>>
    /\ UNCHANGED <<closed, turn, queue, seenOrder, lastSeq, proof, log, events, posts,
                   evicted, callVars, hostVars, runVars>>

(* RunControlApplied goes out once the post-hook has returned. *)
EmitApplied ==
    /\ worker = "event"
    /\ [seq |-> Head(todo).seq, state |-> "applied"] \notin owed
    /\ events' = Append(events, Head(todo))
    /\ todo' = Tail(todo)
    /\ worker' = "apply"
    /\ UNCHANGED <<turn, proof, log, inboxVars, callVars, hostVars, postVars, runVars>>

SafePointDone ==
    /\ worker = "apply"
    /\ todo = <<>>
    /\ worker' = "turn"
    /\ UNCHANGED <<turn, todo, proof, log, events, inboxVars, callVars, hostVars, postVars,
                   runVars>>

-----------------------------------------------------------------------------
(* The end of a run driven by the loop, and stale runs that a new one      *)
(* displaces.                                                              *)

(* Fault: only the queue is settled; what was drained stays Accepted. *)
QueuedOnly == {k.req.id : k \in Elements(queue)} \cap Accepted(seen)

(* What close settles: in the queue or in flight. *)
Unconsumed == Accepted(seen)

Settled(r) == [r EXCEPT !.state = "settled"]

Close ==
    /\ gate = None
    /\ closed' = TRUE
    /\ queue' = <<>>
    /\ inFlight' = {}
    /\ seen' = [i \in Ids |-> IF i \in Unconsumed THEN Settled(seen[i]) ELSE seen[i]]
    /\ owed' = owed \cup {[seq |-> seen[i].seq, state |-> Settled(seen[i]).state] : i \in Unconsumed}
    /\ UNCHANGED <<seenOrder, lastSeq, evicted>>

(* attach_run_control of another run deactivates this one under its worker.*)
CloseDisplaced ==
    /\ mode = "loop"
    /\ ~closed
    /\ Close
    /\ UNCHANGED <<posts, workerVars, callVars, hostVars, runVars>>

(* finish, after the worker returned or was lost. *)
FinishLoop ==
    /\ mode = "loop"
    /\ worker \in {"turn", "gone"}
    /\ Close
    /\ worker' = "ended"
    /\ UNCHANGED <<turn, todo, proof, log, events, posts, callVars, hostVars, runVars>>

-----------------------------------------------------------------------------
(* The fact runtime. *)

(* The accepted steers, in the order they were admitted. *)
Steers == BySequence({k \in AcceptedControls : k.req.op = "steer"})

(* Fault: the steers after a failed append are still acknowledged. *)
KeptPastFailure(n) ==
    {k \in AcceptedControls :
        k.req.op = "interrupt" \/ \A j \in 1..Len(Steers) : Steers[j] = k => j # n + 1}

(* The controls acknowledged when the log takes the first n steers. *)
Kept(n) ==
    {k \in AcceptedControls : k.req.op = "interrupt" \/ \E j \in 1..n : Steers[j] = k}

(* persist_pending when the log takes the first n steers and then fails: a *)
(* failure settles its steer and all later ones; an interrupt has already  *)
(* fired and is Applied.  Pending controls all leave the queue, and stale  *)
(* copies of decided ones with them.                                       *)
PersistPending(terminal, n) ==
    LET Decide(k) == [req |-> k.req, seq |-> k.seq,
                      state |-> IF k \in Kept(n) THEN "applied" ELSE "settled"]
        new == BySequence({k \in AcceptedControls : seen[k.req.id] = None})
    IN  /\ gate = None
        /\ closed' = (closed \/ terminal)
        /\ log' = log \o SubSeq(Steers, 1, n)
        /\ RetainReceipts([i \in Ids |-> IF \E k \in AcceptedControls : k.req.id = i
                              THEN Decide(CHOOSE k \in AcceptedControls : k.req.id = i)
                              ELSE seen[i]],
                          seenOrder \o [j \in 1..Len(new) |-> new[j].req.id])
        /\ queue' = <<>>
        /\ inFlight' = {}
        /\ owed' = owed \cup {[seq |-> k.seq, state |-> Decide(k).state] : k \in AcceptedControls}
        /\ UNCHANGED lastSeq

(* A safe point: a failed append fails the run. *)
PersistSafePoint ==
    /\ mode = "fact"
    /\ worker = "turn"
    /\ turn = 1
    /\ \E n \in 0..Len(Steers) :
         /\ PersistPending(FALSE, n)
         /\ worker' = IF n = Len(Steers) THEN "turn" ELSE "ending"
    /\ UNCHANGED <<turn, todo, proof, events, posts, callVars, hostVars, runVars>>

(* settle_terminal_run_controls *)
PersistTerminal ==
    /\ mode = "fact"
    /\ worker \in {"turn", "ending"}
    /\ \E n \in 0..Len(Steers) : PersistPending(TRUE, n)
    /\ worker' = "sealing"
    /\ UNCHANGED <<turn, todo, proof, events, posts, callVars, hostVars, runVars>>

(* A failed checkpoint committer skips the terminal persistence. *)
CommitterFails ==
    /\ mode = "fact"
    /\ worker \in {"turn", "ending"}
    /\ worker' = "sealing"
    /\ UNCHANGED <<turn, todo, proof, log, events, inboxVars, callVars, hostVars, postVars,
                   runVars>>

(* seal_original_controls *)
SealAndObserve ==
    /\ mode = "fact"
    /\ worker = "sealing"
    /\ gate = None
    /\ closed' = TRUE
    /\ proof' = IF HasAccepted THEN "owing" ELSE "clear"
    /\ worker' = "observed"
    /\ UNCHANGED <<turn, queue, inFlight, seen, seenOrder, lastSeq, todo, log, events,
                   evicted, callVars, hostVars, postVars, runVars>>

(* seal_publication: no cancellation is accepted any more.  A worker that  *)
(* is lost after it is joined like one that returns.                       *)
SealPublication ==
    /\ worker = "observed"
    /\ worker' = "published"
    /\ UNCHANGED <<turn, todo, proof, log, events, inboxVars, callVars, hostVars, postVars,
                   runVars>>

(* observe_worker_join: the phase is WorkerFinished before the guardian    *)
(* turns to the inbox.                                                     *)
GuardianJoins ==
    /\ mode = "fact"
    /\ worker \in {"published", "gone"}
    /\ worker' = "joined"
    /\ UNCHANGED <<turn, todo, proof, log, events, inboxVars, callVars, hostVars, postVars,
                   runVars>>

(* Fault: the guardian leaves the inbox of a worker that returned alone. *)
GuardianSettlesLost ==
    /\ mode = "fact"
    /\ worker = "joined"
    /\ IF proof = "none"
       THEN PersistPending(TRUE, 0) /\ proof' = "clear"
       ELSE UNCHANGED <<inboxVars, log, owed, proof>>
    /\ worker' = "ended"
    /\ UNCHANGED <<turn, todo, events, posts, callVars, hostVars, runVars>>

(* The guardian of a joined worker settles with an append that fails. *)
GuardianSettles ==
    /\ mode = "fact"
    /\ worker = "joined"
    /\ PersistPending(TRUE, 0)
    /\ proof' = IF HasAccepted' THEN "owing" ELSE "clear"
    /\ worker' = "ended"
    /\ UNCHANGED <<turn, todo, events, posts, callVars, hostVars, runVars>>

(* The worker is aborted or panics at one of its awaits. *)
LoseWorker ==
    /\ worker \notin {"published", "joined", "ended", "gone"}
    /\ worker' = "gone"
    /\ todo' = <<>>
    /\ UNCHANGED <<turn, proof, log, events, inboxVars, callVars, hostVars, postVars,
                   runVars>>

-----------------------------------------------------------------------------
(* The host, the post-hooks and the clock. *)

(* can_request_cancel: the publication is not sealed and the worker is not *)
(* joined.  Only runs of the fact runtime have an owner to ask.            *)
CanRequestCancel == mode = "fact" /\ worker \notin {"published", "joined", "ended"}

RequestCancel ==
    /\ host = "idle"
    /\ CanRequestCancel
    /\ host' = "requested"
    /\ UNCHANGED <<fired, inboxVars, workerVars, callVars, postVars, runVars>>

(* Fault: the seal waits for the admission mutex. *)
SealThroughGate ==
    /\ host = "requested"
    /\ gate = None
    /\ host' = "sealed"
    /\ closed' = TRUE
    /\ UNCHANGED <<fired, queue, inFlight, seen, seenOrder, lastSeq, evicted, workerVars,
                   callVars, postVars, runVars>>

(* seal_new_requests: the state mutex only, so a hook that waits for the   *)
(* cancellation cannot hold it up.                                         *)
SealNewRequests ==
    /\ host = "requested"
    /\ host' = "sealed"
    /\ closed' = TRUE
    /\ UNCHANGED <<fired, queue, inFlight, seen, seenOrder, lastSeq, evicted, workerVars,
                   callVars, postVars, runVars>>

(* The same check again after the await: the token fires only for a worker *)
(* that is still there.                                                    *)
CancelToken ==
    /\ host = "sealed"
    /\ CanRequestCancel
    /\ host' = "cancelled"
    /\ fired' = TRUE
    /\ UNCHANGED <<inboxVars, workerVars, callVars, postVars, runVars>>

CancelTooLate ==
    /\ host = "sealed"
    /\ ~CanRequestCancel
    /\ host' = "refused"
    /\ UNCHANGED <<fired, inboxVars, workerVars, callVars, postVars, runVars>>

(* A post-hook runs for a terminal receipt. *)
ObserveTerminal ==
    /\ \E o \in owed :
         /\ posts' = [posts EXCEPT ![o.seq] = Append(@, o.state)]
         /\ owed' = owed \ {o}
    /\ UNCHANGED <<inboxVars, workerVars, callVars, hostVars, runVars>>

Tick ==
    /\ now < MaxTime
    /\ now' = now + 1
    /\ UNCHANGED <<mode, hooks, inboxVars, workerVars, callVars, hostVars, postVars>>

-----------------------------------------------------------------------------
Submission(c) ==
    \/ BeginSubmit(c) \/ EnterGate(c) \/ HookRefuses(c) \/ HookContinues(c)
    \/ SubmitRefused(c) \/ SubmitAccepted(c) \/ FireInterrupt(c) \/ RecordAccepted(c)
    \/ DropSubmit(c)

Worker ==
    \/ UpdateTurn \/ Drain \/ MarkApplied \/ EmitApplied \/ SafePointDone \/ FinishLoop
    \/ PersistSafePoint \/ PersistTerminal \/ CommitterFails \/ SealAndObserve
    \/ SealPublication \/ GuardianJoins \/ GuardianSettles

Next ==
    \/ \E c \in Callers : Submission(c)
    \/ Worker \/ LoseWorker \/ CloseDisplaced
    \/ RequestCancel \/ SealNewRequests \/ CancelToken \/ CancelTooLate
    \/ ObserveTerminal \/ Tick

Spec == Init /\ [][Next]_vars

(* Locks are fair, hooks return, and a run ends: it takes finitely many    *)
(* turns, and a cancelled one commits and returns.                         *)
Fairness ==
    /\ \A c \in Callers :
         WF_vars(EnterGate(c) \/ HookRefuses(c) \/ HookContinues(c) \/ SubmitRefused(c)
                 \/ SubmitAccepted(c) \/ FireInterrupt(c) \/ RecordAccepted(c))
    /\ WF_vars(Worker)
    /\ SF_vars(FinishLoop) /\ SF_vars(PersistTerminal \/ CommitterFails)
    /\ WF_vars(SealNewRequests) /\ WF_vars(CancelToken \/ CancelTooLate)
    /\ WF_vars(ObserveTerminal)

FairSpec == Spec /\ Fairness

-----------------------------------------------------------------------------
(* Properties. *)

(* The types of the variables of the inbox and of its users: all of them   *)
(* but the order of retention, which only ranks the receipts to trim.      *)
TypeOK ==
    /\ call \in [Callers -> [pc : {"idle", "entering", "hook", "submit", "fire", "record"},
                             req : Requests \cup {None}, at : Nat]]
    /\ gate \in Callers \cup {None}
    /\ closed \in BOOLEAN
    /\ fired \in BOOLEAN
    /\ turn \in Nat
    /\ queue \in Seq(Control)
    /\ inFlight \subseteq Control
    /\ seen \in [Ids -> Receipt \cup {None}]
    /\ lastSeq \in 0..MaxCalls
    /\ mode \in Modes
    /\ hooks \in HookKinds
    /\ worker \in {"turn", "drain", "apply", "event", "ending", "sealing", "observed",
                   "published", "joined", "ended", "gone"}
    /\ todo \in Seq(Control)
    /\ host \in {"idle", "requested", "sealed", "cancelled", "refused"}
    /\ proof \in {"none", "owing", "clear"}
    /\ log \in Seq(Control)
    /\ events \in Seq(Control)
    /\ owed \subseteq [seq : Nat, state : Terminal]
    /\ posts \in [1..MaxCalls -> Seq({"accepted"} \cup Terminal)]
    /\ evicted \in [Ids -> Nat]
    /\ calls \in Nat
    /\ now \in Nat

Pending == Elements(queue) \cup inFlight

(* Every Accepted receipt belongs to exactly one control that is queued or *)
(* in flight, and every such control has one: draining, acknowledging,     *)
(* closing, persisting and trimming keep three containers in step, so no   *)
(* accepted control is forgotten and none outlives its decision.           *)
AcceptedOwned ==
    /\ {seen[i].seq : i \in Accepted(seen)} = {k.seq : k \in Pending}
    /\ \A k \in Pending : seen[k.req.id] # None /\ seen[k.req.id].req = k.req
    /\ Cardinality(Accepted(seen)) = Len(queue) + Cardinality(inFlight)

Times(s, i) == Cardinality({j \in 1..Len(s) : s[j].req.id = i})

(* However often a request is retried, concurrently or after a dropped     *)
(* call, it takes effect once for as long as its receipt is retained.      *)
EffectOnce ==
    \A i \in Ids : Times(log, i) + Times(events, i) <= 1 + evicted[i]

(* In the fact runtime a retained steer is acknowledged as Applied exactly *)
(* when the log has it: a failed append, a lost worker or a racing close   *)
(* never acknowledges an input that was not persisted.                     *)
AppliedMeansLogged ==
    mode = "fact" =>
        \A i \in Retained(seen) :
            seen[i].req.op = "steer" =>
                (seen[i].state = "applied") = ([req |-> seen[i].req, seq |-> seen[i].seq]
                                                  \in Elements(log))

(* Post-hooks see the receipts of a control in order: at most one terminal *)
(* state, and Accepted never after it.                                     *)
PostsInOrder ==
    \A n \in DOMAIN posts :
        /\ Len(posts[n]) <= 2
        /\ Len(posts[n]) = 2 => posts[n][1] = "accepted" /\ posts[n][2] \in Terminal

(* An interrupt is the last control its inbox admits, and nobody outside   *)
(* observes its receipt before the run's token has fired.                  *)
InterruptIsLast ==
    \A i \in Retained(seen) :
        seen[i].req.op = "interrupt" =>
            /\ closed
            /\ seen[i].seq = lastSeq
            /\ posts[seen[i].seq] # <<>> => fired

(* Once the run's release observes that nothing is Accepted, nothing ever  *)
(* is again.                                                               *)
ReleaseProofSound == proof = "clear" => Pending = {} /\ Accepted(seen) = {}

(* With hooks that return, every accepted control is decided in the end:   *)
(* by the worker, by the close that ends its run, or by the guardian when  *)
(* the worker was lost or skipped the terminal persistence.                *)
AcceptedDecided ==
    \A i \in Ids :
        i \in Accepted(seen) /\ hooks = "prompt" ~> i \notin Accepted(seen)

(* A host's cancellation reaches every worker that has neither sealed its  *)
(* publication nor been joined, even while a hook that waits for it holds  *)
(* the admission mutex.                                                    *)
CancelGetsThrough == host = "requested" ~> (fired \/ ~CanRequestCancel)
=============================================================================
