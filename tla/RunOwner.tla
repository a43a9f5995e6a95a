------------------------------ MODULE RunOwner ------------------------------
(***************************************************************************)
(* Admission, ownership and release of a session's runs:                   *)
(* core/src/agent_api/run_admission.rs with publication.rs and             *)
(* joined_failure.rs, the owned worker of conversation_runtime/, and what  *)
(* cancel_and_settle() and close() do to a run.                            *)
(*                                                                         *)
(* A session runs one operation at a time.  A call takes the session's     *)
(* admission (`active`), waits for a lease of the task scheduler, and      *)
(* either holds the admission itself (compaction, fork, goal writes) or    *)
(* registers an "original" and hands it to a worker and to the guardian    *)
(* that joins this worker.  Only the guardian frees the admission, and     *)
(* only on proof that everything the run started has come to an end.       *)
(***************************************************************************)
EXTENDS Naturals, FiniteSets

CONSTANTS
    MaxCalls,  \* operations of the session, numbered as they are admitted
    Scenarios, \* what they are, and who cancels or closes
    Hosts,     \* callers of cancel_and_settle()
    Closer,    \* the caller of close()
    None

Calls == 1..MaxCalls

ASSUME MaxCallsAssumption == MaxCalls \in Nat
ASSUME ScenariosAssumption ==
    Scenarios \subseteq [modes : UNION {[1..n -> {"blocking", "streaming", "fence"}] :
                                          n \in 0..MaxCalls},
                         askers : SUBSET (Hosts \cup {Closer})]
ASSUME NoneAssumption == None \notin Calls
ASSUME CloserAssumption == Closer \notin Hosts

VARIABLES
    scenario,       \* which operations are asked for, and who interferes
    closed,         \* the session's `closed` flag
    sessionCancel,  \* its cancellation token, parent of every run's token
    active,         \* the call that holds the admission
    registered,     \* the original registered with the admission
    aborts,         \* whose worker the abort list holds
    slots,          \* the run in the session's three slots (control, id, token)
    call,           \* where each call is in admit() and launch
    worker,         \* where its worker is
    guardian,       \* where its guardian is
    own,            \* its OriginalExecutionContext
    aborted,        \* workers whose abort was requested
    ask             \* the callers of cancel_and_settle() and of close()

session == <<closed, sessionCancel, active, registered, aborts, slots>>
vars == <<scenario, session, call, worker, guardian, own, aborted, ask>>

Askers == Hosts \cup {Closer}

mode == scenario.modes

Live == {"start", "entered", "scoping", "starting", "attaching", "running", "joining",
         "failJoin", "sealing", "failing", "storing", "stored", "finishing", "cleaning"}
Ended == {"returned", "lost"}

Terminal == {"completed", "failed", "cancelled"}

(* The observations of an original at its registration. *)
NewOriginal ==
    [bound |-> "unobserved", inbox |-> "unobserved", installed |-> FALSE,
     controls |-> "unobserved", scope |-> "open", model |-> "vacant",
     committer |-> "unobserved", fired |-> FALSE, origin |-> FALSE,
     ok |-> FALSE, verdict |-> "open", status |-> "none",
     complete |-> FALSE, slotsRetired |-> FALSE, toolsCleaned |-> FALSE,
     continued |-> FALSE]

Originals ==
    [bound : {"unobserved", "norun", "created"},
     inbox : {"unobserved", "absent", "bound"},
     installed : BOOLEAN,
     controls : {"unobserved", "undecided", "decided"},
     scope : {"open", "clean", "unclean"},
     model : {"vacant", "running", "ready", "unproved"},
     committer : {"unobserved", "disabled", "running", "joined", "failed"},
     fired : BOOLEAN, origin : BOOLEAN,
     ok : BOOLEAN, verdict : {"open"} \cup Terminal, status : {"none", "created", "executing"} \cup Terminal,
     complete : BOOLEAN, slotsRetired : BOOLEAN, toolsCleaned : BOOLEAN,
     continued : BOOLEAN]

NewAsk == [pc |-> "idle", target |-> None, inbox |-> "unobserved"]

(* Every variable keeps its type. *)
TypeOK ==
    /\ scenario \in Scenarios
    /\ closed \in BOOLEAN
    /\ sessionCancel \in BOOLEAN
    /\ active \in Calls \cup {None}
    /\ registered \in Calls \cup {None}
    /\ aborts \in Calls \cup {None}
    /\ slots \in Calls \cup {None}
    /\ call \in [Calls -> {"idle", "leasing", "leased", "holding", "capturing",
                           "registering", "launching", "launched", "done"}]
    /\ worker \in [Calls -> {"none"} \cup Live \cup Ended]
    /\ guardian \in [Calls -> {"none", "watching", "settling", "storing",
                               "children", "released", "retained"}]
    /\ own \in [Calls -> Originals]
    /\ aborted \subseteq Calls
    /\ ask \in [Askers -> [pc : {"idle", "ask", "seal", "cancel", "wait",
                                 "abortWait", "idleWait", "done"},
                           target : Calls \cup {None},
                           inbox : {"unobserved", "absent", "bound"}]]

Init ==
    /\ scenario \in Scenarios
    /\ closed = FALSE
    /\ sessionCancel = FALSE
    /\ active = None
    /\ registered = None
    /\ aborts = None
    /\ slots = None
    /\ call = [c \in Calls |-> "idle"]
    /\ worker = [c \in Calls |-> "none"]
    /\ guardian = [c \in Calls |-> "none"]
    /\ own = [c \in Calls |-> NewOriginal]
    /\ aborted = {}
    /\ ask = [a \in Askers |-> NewAsk]

Sealed(c) == own[c].verdict # "open"

(* Whether the run was cancelled is decided when its publication is sealed. *)
Verdict(fired, ok) ==
    IF fired THEN "cancelled" ELSE IF ok THEN "completed" ELSE "failed"

(* A run's token is a child of the session's. *)
Fired(c) == own[c].fired \/ sessionCancel

-----------------------------------------------------------------------------
(* ExecutionCoordinator::admit() and the launch.                            *)

(* Everybody but the first finds the session busy. *)
Admit(c) ==
    /\ call[c] = "idle"
    /\ c \in DOMAIN mode
    /\ \A d \in Calls : d < c => call[d] # "idle"
    /\ ~closed
    /\ active = None
    /\ active' = c
    /\ call' = [call EXCEPT ![c] = "leasing"]
    /\ UNCHANGED <<scenario, closed, sessionCancel, registered, aborts, slots, worker,
                   guardian, own, aborted, ask>>

(* The task scheduler grants the lease. *)
LeaseGranted(c) ==
    /\ call[c] = "leasing"
    /\ call' = [call EXCEPT ![c] = "leased"]
    /\ UNCHANGED <<scenario, session, worker, guardian, own, aborted, ask>>

(* RunAdmissionLease::drop() without a registered original. *)
DropAdmission(c) ==
    /\ active' = None
    /\ call' = [call EXCEPT ![c] = "done"]
    /\ UNCHANGED <<scenario, closed, sessionCancel, registered, aborts, slots, worker,
                   guardian, own, aborted, ask>>

(* The scheduler refuses, the session's token fires during the wait, or the *)
(* caller drops its future.                                                 *)
LeaveAdmission(c) ==
    /\ call[c] = "leasing"
    /\ DropAdmission(c)

(* The session may have been closed while the call waited for its lease. *)
CheckClosed(c) ==
    /\ call[c] = "leased"
    /\ IF closed
         THEN DropAdmission(c)
         ELSE /\ call' = [call EXCEPT ![c] =
                            IF mode[c] = "fence" THEN "holding" ELSE "capturing"]
              /\ UNCHANGED <<scenario, session, worker, guardian, own, aborted, ask>>

(* An operation without a run ends and drops its admission. *)
EndFence(c) ==
    /\ call[c] = "holding"
    /\ DropAdmission(c)

(* capture() looks at `closed` under the lock that close() takes to set it, *)
(* but registers the original after it.                                     *)
Capture(c) ==
    /\ call[c] = "capturing"
    /\ IF closed
         THEN DropAdmission(c)
         ELSE /\ call' = [call EXCEPT ![c] = "registering"]
              /\ UNCHANGED <<scenario, session, worker, guardian, own, aborted, ask>>

RegisterOriginal(c) ==
    /\ call[c] = "registering"
    /\ registered = None
    /\ registered' = c
    /\ call' = [call EXCEPT ![c] = "launching"]
    /\ UNCHANGED <<scenario, closed, sessionCancel, active, aborts, slots, worker, guardian,
                   own, aborted, ask>>

(* The worker is spawned and its guardian takes the lease; a blocking       *)
(* worker is not registered for aborts.                                     *)
Launch(c) ==
    /\ call[c] = "launching"
    /\ aborts' = IF mode[c] = "streaming" THEN c ELSE None
    /\ worker' = [worker EXCEPT ![c] = "start"]
    /\ guardian' = [guardian EXCEPT ![c] = "watching"]
    /\ call' = [call EXCEPT ![c] = "launched"]
    /\ UNCHANGED <<scenario, closed, sessionCancel, active, registered, slots, own, aborted, ask>>

(* The future of a blocking call is dropped: its token fires, the worker    *)
(* goes on.                                                                 *)
DropObserver(c) ==
    /\ call[c] = "launched"
    /\ mode[c] = "blocking"
    /\ worker[c] \in Live
    /\ ~own[c].fired
    /\ own' = [own EXCEPT ![c].fired = TRUE]
    /\ UNCHANGED <<scenario, session, call, worker, guardian, aborted, ask>>

Admission(c) ==
    \/ Admit(c) \/ LeaseGranted(c) \/ LeaveAdmission(c) \/ CheckClosed(c) \/ EndFence(c)
    \/ Capture(c) \/ RegisterOriginal(c) \/ Launch(c) \/ DropObserver(c)

-----------------------------------------------------------------------------
(* The worker.                                                              *)

WorkerGoes(c, from, to) ==
    /\ worker[c] = from
    /\ worker' = [worker EXCEPT ![c] = to]

OnlyOwn == UNCHANGED <<scenario, session, call, guardian, aborted, ask>>

(* OwnedWorkerStart::wait() *)
Enter(c) ==
    /\ WorkerGoes(c, "start", "entered")
    /\ own' = own
    /\ OnlyOwn

(* A request that cannot be resolved, a command, a replayed or conflicting  *)
(* id: there is no run, and the worker says so without an await.            *)
FinishWithoutRun(c) ==
    /\ WorkerGoes(c, "entered", "finishing")
    /\ \E s \in {"clean", "unclean"} :
         own' = [own EXCEPT ![c] = [@ EXCEPT
                   !.bound = "norun", !.inbox = "absent", !.committer = "disabled",
                   !.scope = s, !.verdict = Verdict(Fired(c), FALSE), !.complete = TRUE]]
    /\ OnlyOwn

(* A run with an exact id is reserved before its capabilities are built. *)
BeginFact(c) ==
    /\ WorkerGoes(c, "entered", "scoping")
    /\ \/ own' = own
       \/ own' = [own EXCEPT ![c].bound = "created", ![c].status = "created"]
    /\ OnlyOwn

(* An error that proves nothing ends the worker without a publication. *)
LeaveUnproved(c) ==
    /\ \E pc \in {"entered", "scoping"} : WorkerGoes(c, pc, "returned")
    /\ own' = own
    /\ OnlyOwn

(* The capability scope cannot be built; without a guard it stays open. *)
BuildFails(c) ==
    /\ WorkerGoes(c, "scoping", "failing")
    /\ \E s \in {"open", "clean", "unclean"} :
         own' = [own EXCEPT ![c] = [@ EXCEPT
                   !.bound = IF own[c].bound = "created" THEN "created" ELSE "norun",
                   !.inbox = "absent", !.committer = "disabled", !.scope = s]]
    /\ OnlyOwn

(* The run cannot be reserved, or its generations cannot be bound to it. *)
BindingFails(c) ==
    /\ WorkerGoes(c, "scoping", "failing")
    /\ \E s \in {"clean", "unclean"},
          b \in IF own[c].bound = "created" THEN {"created"} ELSE {"created", "norun"} :
         own' = [own EXCEPT ![c] = [@ EXCEPT
                   !.bound = b, !.status = IF b = "created" THEN "created" ELSE own[c].status,
                   !.inbox = "absent", !.committer = "disabled", !.scope = s]]
    /\ OnlyOwn

BindingReturns(c) ==
    /\ WorkerGoes(c, "scoping", "starting")
    /\ own' = [own EXCEPT ![c].bound = "created", ![c].status = "created"]
    /\ OnlyOwn

(* The start is recorded, a checkpoint committer is spawned unless there is *)
(* no store, and the control inbox is bound.                                *)
StartRun(c) ==
    /\ WorkerGoes(c, "starting", "attaching")
    /\ \E k \in {"running", "disabled"} :
         own' = [own EXCEPT ![c].status = "executing", ![c].committer = k,
                            ![c].inbox = "bound"]
    /\ OnlyOwn

(* The slots of a closed session take no run. *)
AttachRefused(c) ==
    /\ closed \/ slots # None
    /\ WorkerGoes(c, "attaching", "failJoin")
    /\ \E s \in {"clean", "unclean"} : own' = [own EXCEPT ![c].scope = s]
    /\ OnlyOwn

Attach(c) ==
    /\ ~closed
    /\ slots = None
    /\ WorkerGoes(c, "attaching", "running")
    /\ slots' = c
    /\ own' = [own EXCEPT ![c].installed = TRUE]
    /\ UNCHANGED <<scenario, closed, sessionCancel, active, registered, aborts, call, guardian,
                   aborted, ask>>

(* A model call runs in a task of its own; the next one waits for it. *)
CallModel(c) ==
    /\ worker[c] = "running"
    /\ own[c].model \in {"vacant", "ready"}
    /\ own' = [own EXCEPT ![c].model = "running"]
    /\ UNCHANGED <<scenario, session, call, worker, guardian, aborted, ask>>

(* The prepared run cannot be used: fail_owned_components(). *)
PrepareFails(c) ==
    /\ own[c].model = "vacant"
    /\ WorkerGoes(c, "running", "failJoin")
    /\ \E s \in {"clean", "unclean"} : own' = [own EXCEPT ![c].scope = s]
    /\ OnlyOwn

(* The conversation ends, perhaps leaving a model call behind whose         *)
(* response it stopped waiting for; the scope is closed and the senders of  *)
(* checkpoints are dropped.                                                 *)
EndConversation(c) ==
    /\ WorkerGoes(c, "running", "joining")
    /\ \E s \in {"clean", "unclean"}, ok \in BOOLEAN :
         own' = [own EXCEPT ![c].scope = s, ![c].ok = ok]
    /\ OnlyOwn

(* Controls are settled only when the committer completed. *)
JoinCommitter(c) ==
    /\ own[c].committer # "running"
    /\ WorkerGoes(c, "joining", "sealing")
    /\ IF own[c].committer = "failed"
         THEN \E d \in {"undecided", "decided"} :
                own' = [own EXCEPT ![c].ok = FALSE, ![c].controls = d]
         ELSE own' = [own EXCEPT ![c].controls = "decided"]
    /\ OnlyOwn

(* A failed preparation gives up when its committer did not complete. *)
JoinFailed(c) ==
    /\ own[c].committer # "running"
    /\ IF own[c].committer = "failed"
         THEN /\ WorkerGoes(c, "failJoin", "returned")
              /\ own' = own
         ELSE /\ WorkerGoes(c, "failJoin", "failing")
              /\ own' = [own EXCEPT ![c].controls = "decided"]
    /\ OnlyOwn

(* seal_publication() *)
SealPublication(c) ==
    /\ WorkerGoes(c, "sealing", "storing")
    /\ own' = [own EXCEPT ![c].verdict = Verdict(Fired(c), own[c].ok), ![c].ok = FALSE]
    /\ OnlyOwn

(* What kind of error ended a preparation: one that counts as cancellation. *)
CountsAsCancelled(c) ==
    CASE own[c].installed -> {FALSE}
      [] own[c].inbox = "bound" -> {closed}
      [] OTHER -> BOOLEAN

(* fail_reserved_run_start() up to its first await. *)
SealFailure(c) ==
    /\ \E cancelled \in CountsAsCancelled(c) :
         own' = [own EXCEPT ![c] = [@ EXCEPT
                   !.fired = own[c].fired \/ cancelled,
                   !.origin = own[c].origin \/ cancelled,
                   !.verdict = Verdict(Fired(c) \/ cancelled, FALSE),
                   !.complete = own[c].bound = "norun"]]
    /\ WorkerGoes(c, "failing", IF own[c].bound = "norun" THEN "finishing" ELSE "storing")
    /\ OnlyOwn

(* The run store keeps the first terminal state. *)
Stored(c) == IF own[c].status \in Terminal THEN own[c].status ELSE own[c].verdict

StoreTerminal(c) ==
    /\ WorkerGoes(c, "storing", "stored")
    /\ own' = [own EXCEPT ![c].status = Stored(c)]
    /\ OnlyOwn

(* record_publication(), after the hooks. *)
CompletePublication(c) ==
    /\ WorkerGoes(c, "stored", "finishing")
    /\ own' = [own EXCEPT ![c].complete = TRUE]
    /\ OnlyOwn

PublicationProved(c) ==
    /\ own[c].complete
    /\ own[c].bound = "created" => own[c].status = own[c].verdict

(* What retire_original_slots() and qualify_release() both require. *)
PartsProved(c) ==
    /\ own[c].model \in {"vacant", "ready"}
    /\ own[c].committer \in {"disabled", "joined"}
    /\ own[c].scope = "clean"
    /\ own[c].inbox = "absent" \/ own[c].controls = "decided"
    /\ PublicationProved(c)

(* The slots are emptied once the model call has returned and the proof is  *)
(* complete; otherwise they are left as they are.                           *)
CanRetire(c) ==
    /\ PartsProved(c)
    /\ IF own[c].installed
         THEN slots = c
         ELSE slots = None /\ own[c].inbox = "absent"

RetireSlots(c) ==
    /\ own[c].model # "running"
    /\ CanRetire(c)
    /\ WorkerGoes(c, "finishing", "cleaning")
    /\ slots' = None
    /\ own' = [own EXCEPT ![c].slotsRetired = TRUE]
    /\ UNCHANGED <<scenario, closed, sessionCancel, active, registered, aborts, call, guardian,
                   aborted, ask>>

RetireRefused(c) ==
    /\ own[c].model # "running"
    /\ ~CanRetire(c)
    /\ WorkerGoes(c, "finishing", "returned")
    /\ own' = own
    /\ OnlyOwn

(* Fault: the cleanup of the tools is not recorded. *)
CleanToolsSilently(c) ==
    /\ WorkerGoes(c, "cleaning", "returned")
    /\ own' = own
    /\ OnlyOwn

(* finish_owned(): the run's active tools are cleared. *)
CleanTools(c) ==
    /\ WorkerGoes(c, "cleaning", "returned")
    /\ own' = [own EXCEPT ![c].toolsCleaned = TRUE]
    /\ OnlyOwn

(* A worker panics, or is aborted at an await.  Its model call goes on. *)
LoseWorker(c) ==
    /\ \E pc \in Live : WorkerGoes(c, pc, "lost")
    /\ own' = own
    /\ OnlyOwn

WorkerStep(c) ==
    \/ Enter(c) \/ FinishWithoutRun(c) \/ BeginFact(c) \/ LeaveUnproved(c)
    \/ BuildFails(c) \/ BindingFails(c) \/ BindingReturns(c) \/ StartRun(c)
    \/ AttachRefused(c) \/ Attach(c) \/ PrepareFails(c) \/ EndConversation(c)
    \/ JoinCommitter(c) \/ JoinFailed(c) \/ SealPublication(c) \/ SealFailure(c)
    \/ StoreTerminal(c) \/ CompletePublication(c) \/ RetireSlots(c) \/ RetireRefused(c)
    \/ CleanTools(c)

(* The model call and the committer are tasks of their own. *)
ModelReturns(c) ==
    /\ own[c].model = "running"
    /\ \E m \in {"ready", "unproved"} : own' = [own EXCEPT ![c].model = m]
    /\ UNCHANGED <<scenario, session, call, worker, guardian, aborted, ask>>

(* The committer ends when the last sender of checkpoints is gone. *)
CommitterEnds(c) ==
    /\ own[c].committer = "running"
    /\ worker[c] \notin {"attaching", "running"}
    /\ own' = [own EXCEPT ![c].committer = "joined"]
    /\ UNCHANGED <<scenario, session, call, worker, guardian, aborted, ask>>

CommitterFails(c) ==
    /\ own[c].committer = "running"
    /\ own' = [own EXCEPT ![c].committer = "failed"]
    /\ UNCHANGED <<scenario, session, call, worker, guardian, aborted, ask>>

-----------------------------------------------------------------------------
(* The guardian.                                                            *)

GuardianGoes(c, from, to) ==
    /\ guardian[c] = from
    /\ guardian' = [guardian EXCEPT ![c] = to]

OnlyGuardian == UNCHANGED <<scenario, session, call, worker, aborted, ask>>

(* observe_worker_join() and the checks at the head of                      *)
(* continue_joined_failure(): a proved absence of a run needs nothing more, *)
(* a created run needs its inbox.                                           *)
JoinWorker(c) ==
    /\ worker[c] \in Ended
    /\ \/ /\ own[c].bound = "norun"
          /\ PublicationProved(c)
          /\ GuardianGoes(c, "watching", "children")
          /\ own' = [own EXCEPT ![c].continued = TRUE]
       \/ /\ own[c].bound = "created"
          /\ own[c].inbox = "bound"
          /\ GuardianGoes(c, "watching", "settling")
          /\ own' = own
       \/ /\ own[c].bound = "norun" => ~PublicationProved(c)
          /\ own[c].bound = "created" => own[c].inbox # "bound"
          /\ GuardianGoes(c, "watching", "children")
          /\ own' = own
    /\ OnlyGuardian

(* The guardian decides what is left in the inbox, and seals the            *)
(* publication if the worker did not.                                       *)
SettleInbox(c) ==
    /\ IF Sealed(c)
         THEN /\ GuardianGoes(c, "settling", "children")
              /\ own' = [own EXCEPT ![c].controls = "decided", ![c].continued = TRUE]
         ELSE /\ GuardianGoes(c, "settling", "storing")
              /\ own' = [own EXCEPT ![c].controls = "decided", ![c].ok = FALSE,
                                    ![c].verdict = Verdict(Fired(c), FALSE)]
    /\ OnlyGuardian

PublishFailure(c) ==
    /\ GuardianGoes(c, "storing", "children")
    /\ own' = [own EXCEPT ![c].status = Stored(c), ![c].complete = TRUE,
                          ![c].continued = TRUE]
    /\ OnlyGuardian

(* Fault: a published end is taken for the end of the run's parts. *)
QualifiesPublished(c) ==
    /\ own[c].continued
    /\ worker[c] = "returned"
    /\ PublicationProved(c)

(* qualify_release() *)
Qualifies(c) ==
    /\ own[c].continued
    /\ worker[c] = "returned"
    /\ PartsProved(c)
    /\ own[c].slotsRetired
    /\ own[c].toolsCleaned

(* The admission is freed after the model call and the committer have been  *)
(* joined too, or the guardian keeps everything for ever.                   *)
Release(c) ==
    /\ own[c].model # "running"
    /\ own[c].committer # "running"
    /\ Qualifies(c)
    /\ GuardianGoes(c, "children", "released")
    /\ active' = None
    /\ registered' = None
    /\ aborts' = None
    /\ UNCHANGED <<scenario, closed, sessionCancel, slots, call, worker, own, aborted, ask>>

Retain(c) ==
    /\ own[c].model # "running"
    /\ own[c].committer # "running"
    /\ ~Qualifies(c)
    /\ GuardianGoes(c, "children", "retained")
    /\ own' = own
    /\ OnlyGuardian

GuardianStep(c) ==
    JoinWorker(c) \/ SettleInbox(c) \/ PublishFailure(c) \/ Release(c) \/ Retain(c)

-----------------------------------------------------------------------------
(* cancel_and_settle() and close().                                         *)

AskGoes(a, from, to) ==
    /\ ask[a].pc = from
    /\ ask' = [ask EXCEPT ![a].pc = to]

AskOnly == UNCHANGED <<scenario, session, call, worker, guardian, own, aborted>>

(* can_request_cancel(): only close() may cancel a run that is not in the   *)
(* slots yet.                                                               *)
CanRequest(a, c) ==
    /\ ~Sealed(c)
    /\ guardian[c] \in {"none", "watching"}
    /\ IF own[c].installed THEN slots = c ELSE a = Closer /\ slots = None

(* cancel_and_settle() keeps to the original it finds at entry. *)
Observe(h) ==
    /\ h \in scenario.askers
    /\ ask[h].pc = "idle"
    /\ ask' = [ask EXCEPT ![h].target = registered,
                          ![h].pc = IF registered = None THEN "done" ELSE "ask"]
    /\ AskOnly

(* close() sets the flag and captures the original in one critical section. *)
EnterClose ==
    /\ ask[Closer].pc = "idle"
    /\ Closer \in scenario.askers
    /\ ~closed
    /\ closed' = TRUE
    /\ ask' = [ask EXCEPT ![Closer].target = registered,
                          ![Closer].pc = IF registered = None THEN "cancel" ELSE "ask"]
    /\ UNCHANGED <<scenario, sessionCancel, active, registered, aborts, slots, call, worker,
                   guardian, own, aborted>>

AfterRequest(a) == IF a = Closer THEN "cancel" ELSE "wait"

(* request() checks (for a host, that the handle of the run in the slots is *)
(* this original's), ...                                                    *)
Ask(a) ==
    /\ ask[a].pc = "ask"
    /\ ask' = IF CanRequest(a, ask[a].target)
                THEN [ask EXCEPT ![a].pc = "seal", ![a].inbox = own[ask[a].target].inbox]
                ELSE [ask EXCEPT ![a].pc = AfterRequest(a)]
    /\ AskOnly

(* Fault: the run is not looked at again after the inbox was sealed. *)
StillRequestable(a, c) == TRUE

(* ... awaits the sealing of the inbox, and checks again. *)
MayFire(a, c) ==
    /\ CanRequest(a, c)
    /\ (own[c].inbox = "bound") = (ask[a].inbox = "bound")

Fire(a) ==
    /\ ask[a].pc = "seal"
    /\ own' = IF MayFire(a, ask[a].target)
                THEN [own EXCEPT ![ask[a].target].fired = TRUE,
                                 ![ask[a].target].origin = TRUE]
                ELSE own
    /\ ask' = [ask EXCEPT ![a].pc = AfterRequest(a), ![a].inbox = "unobserved"]
    /\ UNCHANGED <<scenario, session, call, worker, guardian, aborted>>

CancelSession ==
    /\ AskGoes(Closer, "cancel", IF ask[Closer].target = None THEN "idleWait" ELSE "wait")
    /\ sessionCancel' = TRUE
    /\ UNCHANGED <<scenario, closed, active, registered, aborts, slots, call, worker, guardian,
                   own, aborted>>

(* wait_for_original_release() *)
SeeRelease(a) ==
    /\ ask[a].pc \in {"wait", "abortWait"}
    /\ guardian[ask[a].target] = "released"
    /\ ask' = [ask EXCEPT ![a].pc = "done"]
    /\ AskOnly

(* Fault: whatever worker is in the abort list is aborted. *)
MayAbortAny(c) == mode[c] # "blocking" /\ aborts # None

(* abort_original_stream_workers() *)
MayAbort(c) == mode[c] # "blocking" /\ registered = c /\ aborts # None

(* The grace is over. *)
AbortWorker(a) ==
    /\ AskGoes(a, "wait", "abortWait")
    /\ MayAbort(ask[a].target)
    /\ aborted' = aborted \cup {aborts}
    /\ UNCHANGED <<scenario, session, call, worker, guardian, own>>

GiveUp(a) ==
    /\ \/ AskGoes(a, "abortWait", "done")
       \/ AskGoes(a, "idleWait", "done")
       \/ AskGoes(a, "wait", "done") /\ ~MayAbort(ask[a].target)
    /\ AskOnly

Asking(a) == Ask(a) \/ Fire(a) \/ SeeRelease(a) \/ AbortWorker(a) \/ GiveUp(a)

-----------------------------------------------------------------------------
Next ==
    \/ \E c \in Calls :
         \/ Admission(c) \/ WorkerStep(c) \/ CallModel(c) \/ LoseWorker(c)
         \/ ModelReturns(c) \/ CommitterEnds(c) \/ CommitterFails(c) \/ GuardianStep(c)
    \/ \E h \in Hosts : Observe(h)
    \/ EnterClose \/ CancelSession
    \/ \E a \in Askers : Asking(a)

Spec == Init /\ [][Next]_vars

(* Launch, worker, guardian and committer are polled.  That a conversation *)
(* and a model call end, and that hooks let the guardian settle the inbox, *)
(* is assumed of the environment: by default a model call has no timeout.  *)
Fairness ==
    \A c \in Calls :
      /\ WF_vars(RegisterOriginal(c) \/ Launch(c))
      /\ WF_vars(WorkerStep(c))
      /\ WF_vars(ModelReturns(c))
      /\ WF_vars(CommitterEnds(c))
      /\ WF_vars(GuardianStep(c))

FairSpec == Spec /\ Fairness

-----------------------------------------------------------------------------
(* Something of the run is still open. *)
Open(c) ==
    \/ worker[c] \in Live
    \/ guardian[c] \in {"watching", "settling", "storing", "children"}
    \/ own[c].model = "running"
    \/ own[c].committer = "running"
    \/ slots = c
    \/ own[c].bound = "created" /\ own[c].status \notin Terminal
    \/ own[c].inbox = "bound" /\ own[c].controls # "decided"

(* As long as its worker, its guardian, a model call or the committer       *)
(* runs, it is in the slots, its record is not terminal or its inbox has    *)
(* undecided controls, the run holds the session's admission: no other      *)
(* operation of the session overlaps with it.                               *)
SingleFlight == \A c \in Calls : Open(c) => active = c

(* A run whose cancellation was accepted (request() returned true, or its   *)
(* admission was cancelled) is never recorded as completed or failed,       *)
(* whoever publishes its end.                                               *)
CancelHonoured ==
    \A c \in Calls : own[c].origin => own[c].status \notin {"completed", "failed"}

(* Only the operation observed at entry is aborted, never a later one. *)
LaterUntouched ==
    \A c \in aborted : \E a \in Askers : ask[a].target = c

(* Why a run may stay with its guardian for ever: its worker was lost or    *)
(* left without a publication, a part of it was not closed cleanly, or its  *)
(* admission failed after the run was created but before it reached the     *)
(* slots.                                                                   *)
Cause(c) ==
    \/ worker[c] = "lost"
    \/ worker[c] = "returned" /\ ~own[c].complete
    \/ own[c].scope # "clean"
    \/ own[c].committer = "failed"
    \/ own[c].model = "unproved"
    \/ own[c].bound = "created" /\ ~own[c].installed

(* Every launched run is released, or retained for one of these causes. *)
RunSettles ==
    \A c \in Calls :
      call[c] = "launched" ~> \/ guardian[c] = "released"
                              \/ guardian[c] = "retained" /\ Cause(c)
=============================================================================
