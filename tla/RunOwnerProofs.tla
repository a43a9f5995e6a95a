--------------------------- MODULE RunOwnerProofs ---------------------------
(***************************************************************************)
(* Proofs about RunOwner, for any number of operations, scenarios and      *)
(* hosts: types, that the operations of a session never overlap, that an   *)
(* accepted cancellation is what gets recorded, and that an abort never    *)
(* reaches a run its caller has not observed.                              *)
(***************************************************************************)
EXTENDS RunOwner, TLAPS

(* Who is on the way from admission to release holds the admission. *)
Holds(c) ==
    call[c] \notin {"idle", "done"} => active = c \/ guardian[c] = "released"

(* Nothing of a run exists before its launch. *)
Unlaunched(c) ==
    call[c] # "launched" =>
      /\ worker[c] = "none"
      /\ guardian[c] = "none"
      /\ own[c].model = "vacant"
      /\ own[c].committer = "unobserved"
      /\ own[c].bound = "unobserved"
      /\ own[c].inbox = "unobserved"
      /\ slots # c

(* A guardian waits until its worker has ended. *)
Joined(c) == guardian[c] \notin {"none", "watching"} => worker[c] \in Ended

(* A worker that retired its slots does not come back to them. *)
Retired(c) ==
    own[c].slotsRetired => worker[c] \in {"cleaning", "returned", "lost"} /\ slots # c

(* Whoever publishes an end has sealed it. *)
SealedFirst(c) ==
    worker[c] \in {"storing", "stored"} \/ guardian[c] = "storing" \/ own[c].complete
      => Sealed(c)

(* What a release has proved stays true. *)
Proved(c) ==
    guardian[c] = "released" =>
      /\ worker[c] = "returned"
      /\ own[c].model \in {"vacant", "ready"}
      /\ own[c].committer \in {"disabled", "joined"}
      /\ own[c].inbox = "absent" \/ own[c].controls = "decided"
      /\ slots # c
      /\ own[c].bound = "created" => own[c].status \in Terminal

OwnerInv ==
    \A c \in Calls : /\ Holds(c) /\ Unlaunched(c) /\ Joined(c)
                     /\ Retired(c) /\ SealedFirst(c) /\ Proved(c)

(* Until it seals, a worker leaves the verdict open. *)
Undecided == {"none"} \cup (Live \ {"storing", "stored", "finishing", "cleaning"})

(* A verdict is given once, the record agrees with it, and a request that   *)
(* was accepted came before it.                                             *)
VerdictInv ==
    \A c \in Calls :
      /\ worker[c] \in Undecided => ~Sealed(c)
      /\ own[c].status \in Terminal => own[c].status = own[c].verdict
      /\ own[c].origin => own[c].fired
      /\ own[c].origin /\ Sealed(c) => own[c].verdict = "cancelled"

(* Who asks about an original has found one. *)
AskInv ==
    \A a \in Askers : ask[a].pc \in {"ask", "seal", "wait", "abortWait"} =>
                         ask[a].target # None

(* The abort list holds a worker of the registered original only, and an    *)
(* asker keeps to the original it has found.                                *)
AbortInv ==
    /\ \A c \in Calls : call[c] = "launching" => registered = c
    /\ aborts # None => aborts = registered
    /\ \A c \in aborted : \E a \in Askers : ask[a].target = c /\ ask[a].pc # "idle"

(* The inductive invariant. *)
Safe == TypeOK /\ OwnerInv /\ VerdictInv /\ AskInv /\ AbortInv

-----------------------------------------------------------------------------
(* What a step does to the one original it works on.                       *)

(* A step replaces at most the original of c, by o. *)
Replaces(c, o) == o \in Originals /\ own' = [own EXCEPT ![c] = o]

(* The worker of c goes on, and leaves all but the slots alone. *)
Advances(c) ==
    /\ worker[c] \in Live
    /\ worker'[c] \in Live \cup Ended
    /\ worker' = [worker EXCEPT ![c] = worker'[c]]
    /\ UNCHANGED <<scenario, closed, sessionCancel, active, registered, aborts, call,
                   guardian, aborted, ask>>

(* It enters the slots before its end, and empties them to clean up. *)
SlotsMove(c, o) ==
    \/ /\ slots' = slots
       /\ o.slotsRetired = own[c].slotsRetired
       /\ worker[c] = "cleaning" => worker'[c] \in Ended
    \/ /\ slots' = c
       /\ worker[c] = "attaching"
       /\ o.slotsRetired = own[c].slotsRetired
    \/ slots' = None /\ worker'[c] = "cleaning"

(* It leaves the verdict alone, or gives the first one. *)
VerdictMove(c, o) ==
    \/ /\ o.verdict = own[c].verdict
       /\ o.fired = own[c].fired
       /\ o.origin = own[c].origin
       /\ worker'[c] \in Undecided => worker[c] \in Undecided
       /\ worker'[c] \in {"storing", "stored"} \/ o.complete =>
            worker[c] \in {"storing", "stored"} \/ own[c].complete
    \/ /\ worker[c] \in Undecided
       /\ worker'[c] \notin Undecided
       /\ o.verdict \in Terminal
       /\ (own[c].origin => own[c].fired) =>
            (o.origin => o.fired /\ o.verdict = "cancelled")

(* It records nothing terminal but the verdict, and nothing over it. *)
StatusMove(c, o) ==
    \/ o.status = own[c].status
    \/ o.status \notin Terminal
    \/ o.status = own[c].verdict /\ o.verdict = own[c].verdict

WorkerMove(c, o) ==
    /\ Replaces(c, o)
    /\ Advances(c)
    /\ SlotsMove(c, o)
    /\ VerdictMove(c, o)
    /\ StatusMove(c, o)

\* Every step of a worker, its loss included, is such a move.
LEMMA WorkerMoves ==
  ASSUME TypeOK, NEW c \in Calls, SealedFirst(c), WorkerStep(c) \/ LoseWorker(c)
  PROVE  \E o : WorkerMove(c, o)
<1>a. own[c] \in Originals /\ own \in [Calls -> Originals]
  BY DEF TypeOK
<1>b. worker \in [Calls -> {"none"} \cup Live \cup Ended]
  BY DEF TypeOK
<1>k. own' = own => Replaces(c, own[c])
  BY <1>a DEF Replaces
<1>v. \A f, k \in BOOLEAN : Verdict(f, k) \in Terminal
  BY DEF Verdict, Terminal
<1>1. CASE Enter(c)
  <2>1. Advances(c) /\ slots' = slots
    BY <1>1, <1>b DEF Enter, Advances, WorkerGoes, OnlyOwn, session, Live, Ended
  <2>2. Replaces(c, own[c])
    BY <1>1, <1>k DEF Enter
  <2> QED  BY <1>1, <1>b, <2>1, <2>2 DEF Enter, WorkerGoes, WorkerMove, SlotsMove,
         VerdictMove, StatusMove, Live, Ended, Terminal, Undecided
<1>2. CASE FinishWithoutRun(c)
  <2>1. PICK s \in {"clean", "unclean"} :
          own' = [own EXCEPT ![c] =
                   [own[c] EXCEPT !.bound = "norun", !.inbox = "absent",
                                    !.committer = "disabled", !.scope = s,
                                    !.verdict = Verdict(Fired(c), FALSE),
                                    !.complete = TRUE]]
    BY <1>2 DEF FinishWithoutRun
  <2> DEFINE v == Verdict(Fired(c), FALSE)
  <2>v. v \in Terminal
    BY <1>v DEF Fired, TypeOK
  <2> DEFINE o == [own[c] EXCEPT !.bound = "norun", !.inbox = "absent",
                                    !.committer = "disabled", !.scope = s,
                                    !.verdict = v,
                                    !.complete = TRUE]
  <2>2. own' = [own EXCEPT ![c] = o]
    BY <2>1
  <2> HIDE DEF v
  <2>3. o \in Originals
    BY <1>a, <2>v DEF Originals
  <2>4. /\ o.slotsRetired = own[c].slotsRetired
        /\ o.verdict = v
        /\ o.fired = own[c].fired
        /\ o.origin = own[c].origin
        /\ o.complete = TRUE
        /\ o.status = own[c].status
    BY <1>a DEF Originals
  <2>5. Advances(c) /\ slots' = slots
    BY <1>2, <1>b DEF FinishWithoutRun, Advances, WorkerGoes, OnlyOwn, session, Live, Ended
  <2> HIDE DEF o
  <2>6. Replaces(c, o)
    BY <2>2, <2>3 DEF Replaces
  <2> QED  BY <1>2, <1>a, <1>b, <2>v, <2>4, <2>5, <2>6
         DEF FinishWithoutRun, Verdict, Fired, WorkerGoes,
         WorkerMove, SlotsMove,
         VerdictMove, StatusMove, Live, Ended, Terminal, Undecided, v
<1>3. CASE BeginFact(c)
  <2>1. CASE own' = own
    <3>1. Advances(c) /\ slots' = slots
      BY <1>3, <1>b DEF BeginFact, Advances, WorkerGoes, OnlyOwn, session, Live, Ended
    <3> QED  BY <1>3, <1>b, <1>k, <2>1, <3>1 DEF BeginFact, WorkerGoes, WorkerMove, SlotsMove,
         VerdictMove, StatusMove, Live, Ended, Terminal, Undecided
  <2>2. CASE own' # own
    <3> DEFINE o == [own[c] EXCEPT !.bound = "created", !.status = "created"]
    <3>1. own' = [own EXCEPT ![c] = o]
      BY <1>3, <1>a, <2>2 DEF BeginFact
    <3>2. o \in Originals
      BY <1>a DEF Originals
    <3>3. /\ o.slotsRetired = own[c].slotsRetired
          /\ o.verdict = own[c].verdict
          /\ o.fired = own[c].fired
          /\ o.origin = own[c].origin
          /\ o.complete = own[c].complete
          /\ o.status = "created"
      BY <1>a DEF Originals
    <3>4. Advances(c) /\ slots' = slots
      BY <1>3, <1>b DEF BeginFact, Advances, WorkerGoes, OnlyOwn, session, Live, Ended
    <3> HIDE DEF o
    <3>5. Replaces(c, o)
      BY <3>1, <3>2 DEF Replaces
    <3> QED  BY <1>3, <1>a, <1>b, <3>3, <3>4, <3>5 DEF BeginFact, WorkerGoes,
         WorkerMove, SlotsMove,
         VerdictMove, StatusMove, Live, Ended, Terminal, Undecided
  <2> QED  BY <2>1, <2>2
<1>4. CASE LeaveUnproved(c)
  <2>1. Advances(c) /\ slots' = slots
    BY <1>4, <1>b DEF LeaveUnproved, Advances, WorkerGoes, OnlyOwn, session, Live, Ended
  <2>2. Replaces(c, own[c])
    BY <1>4, <1>k DEF LeaveUnproved
  <2> QED  BY <1>4, <1>b, <2>1, <2>2 DEF LeaveUnproved, WorkerGoes, WorkerMove, SlotsMove,
         VerdictMove, StatusMove, Live, Ended, Terminal, Undecided
<1>5. CASE BuildFails(c)
  <2>1. PICK s \in {"open", "clean", "unclean"} :
          own' = [own EXCEPT ![c] =
                   [own[c] EXCEPT
                      !.bound = IF own[c].bound = "created" THEN "created" ELSE "norun",
                      !.inbox = "absent", !.committer = "disabled",
                                    !.scope = s]]
    BY <1>5 DEF BuildFails
  <2> DEFINE b == IF own[c].bound = "created" THEN "created" ELSE "norun"
  <2>b. b \in {"norun", "created"}
    OBVIOUS
  <2> DEFINE o == [own[c] EXCEPT !.bound = b,
                                    !.inbox = "absent", !.committer = "disabled",
                                    !.scope = s]
  <2>2. own' = [own EXCEPT ![c] = o]
    BY <2>1
  <2> HIDE DEF b
  <2>3. o \in Originals
    BY <1>a, <2>b DEF Originals
  <2>4. /\ o.slotsRetired = own[c].slotsRetired
        /\ o.verdict = own[c].verdict
        /\ o.fired = own[c].fired
        /\ o.origin = own[c].origin
        /\ o.complete = own[c].complete
        /\ o.status = own[c].status
    BY <1>a DEF Originals
  <2>5. Advances(c) /\ slots' = slots
    BY <1>5, <1>b DEF BuildFails, Advances, WorkerGoes, OnlyOwn, session, Live, Ended
  <2> HIDE DEF o
  <2>6. Replaces(c, o)
    BY <2>2, <2>3 DEF Replaces
  <2> QED  BY <1>5, <1>a, <1>b, <2>b, <2>4, <2>5, <2>6 DEF BuildFails, WorkerGoes,
         WorkerMove, SlotsMove,
         VerdictMove, StatusMove, Live, Ended, Terminal, Undecided, b
<1>6. CASE BindingFails(c)
  <2>1. PICK s \in {"clean", "unclean"}, b \in {"created", "norun"} :
          own' = [own EXCEPT ![c] =
                   [own[c] EXCEPT
                      !.bound = b,
                      !.status = IF b = "created" THEN "created" ELSE own[c].status,
                      !.inbox = "absent", !.committer = "disabled",
                                    !.scope = s]]
    BY <1>6 DEF BindingFails
  <2> DEFINE t == IF b = "created" THEN "created" ELSE own[c].status
  <2>t. t \in {"none", "created", "executing"} \cup Terminal
    BY <1>a DEF Originals
  <2> DEFINE o == [own[c] EXCEPT !.bound = b,
                                    !.status = t,
                                    !.inbox = "absent", !.committer = "disabled",
                                    !.scope = s]
  <2>2. own' = [own EXCEPT ![c] = o]
    BY <2>1
  <2> HIDE DEF t
  <2>3. o \in Originals
    <3> DEFINE p == [own[c] EXCEPT !.bound = b, !.status = t]
    <3>1. p \in Originals
      BY <1>a, <2>t DEF Originals
    <3>2. o = [p EXCEPT !.inbox = "absent", !.committer = "disabled", !.scope = s]
      OBVIOUS
    <3> HIDE DEF o, p
    <3> QED  BY <3>1, <3>2 DEF Originals
  <2>4. /\ o.slotsRetired = own[c].slotsRetired
        /\ o.verdict = own[c].verdict
        /\ o.fired = own[c].fired
        /\ o.origin = own[c].origin
        /\ o.complete = own[c].complete
        /\ o.status = t
    BY <1>a DEF Originals
  <2>5. Advances(c) /\ slots' = slots
    BY <1>6, <1>b DEF BindingFails, Advances, WorkerGoes, OnlyOwn, session, Live, Ended
  <2> HIDE DEF o
  <2>6. Replaces(c, o)
    BY <2>2, <2>3 DEF Replaces
  <2> QED  BY <1>6, <1>a, <1>b, <2>t, <2>4, <2>5, <2>6 DEF BindingFails, WorkerGoes,
         WorkerMove, SlotsMove,
         VerdictMove, StatusMove, Live, Ended, Terminal, Undecided, t
<1>7. CASE BindingReturns(c)
  <2>1. own' = [own EXCEPT ![c] =
                   [own[c] EXCEPT !.bound = "created", !.status = "created"]]
    BY <1>7, <1>a DEF BindingReturns
  <2> DEFINE o == [own[c] EXCEPT !.bound = "created", !.status = "created"]
  <2>2. own' = [own EXCEPT ![c] = o]
    BY <2>1
  <2>3. o \in Originals
    BY <1>a DEF Originals
  <2>4. /\ o.slotsRetired = own[c].slotsRetired
        /\ o.verdict = own[c].verdict
        /\ o.fired = own[c].fired
        /\ o.origin = own[c].origin
        /\ o.complete = own[c].complete
        /\ o.status = "created"
    BY <1>a DEF Originals
  <2>5. Advances(c) /\ slots' = slots
    BY <1>7, <1>b DEF BindingReturns, Advances, WorkerGoes, OnlyOwn, session, Live, Ended
  <2> HIDE DEF o
  <2>6. Replaces(c, o)
    BY <2>2, <2>3 DEF Replaces
  <2> QED  BY <1>7, <1>a, <1>b, <2>4, <2>5, <2>6 DEF BindingReturns, WorkerGoes,
         WorkerMove, SlotsMove,
         VerdictMove, StatusMove, Live, Ended, Terminal, Undecided
<1>8. CASE StartRun(c)
  <2>1. PICK k \in {"running", "disabled"} :
          own' = [own EXCEPT ![c] =
                   [own[c] EXCEPT !.status = "executing", !.committer = k,
                                    !.inbox = "bound"]]
    BY <1>8 DEF StartRun
  <2> DEFINE o == [own[c] EXCEPT !.status = "executing", !.committer = k,
                                    !.inbox = "bound"]
  <2>2. own' = [own EXCEPT ![c] = o]
    BY <2>1
  <2>3. o \in Originals
    BY <1>a DEF Originals
  <2>4. /\ o.slotsRetired = own[c].slotsRetired
        /\ o.verdict = own[c].verdict
        /\ o.fired = own[c].fired
        /\ o.origin = own[c].origin
        /\ o.complete = own[c].complete
        /\ o.status = "executing"
    BY <1>a DEF Originals
  <2>5. Advances(c) /\ slots' = slots
    BY <1>8, <1>b DEF StartRun, Advances, WorkerGoes, OnlyOwn, session, Live, Ended
  <2> HIDE DEF o
  <2>6. Replaces(c, o)
    BY <2>2, <2>3 DEF Replaces
  <2> QED  BY <1>8, <1>a, <1>b, <2>4, <2>5, <2>6 DEF StartRun, WorkerGoes,
         WorkerMove, SlotsMove,
         VerdictMove, StatusMove, Live, Ended, Terminal, Undecided
<1>9. CASE AttachRefused(c)
  <2>1. PICK s \in {"clean", "unclean"} :
          own' = [own EXCEPT ![c] =
                   [own[c] EXCEPT !.scope = s]]
    BY <1>9 DEF AttachRefused
  <2> DEFINE o == [own[c] EXCEPT !.scope = s]
  <2>2. own' = [own EXCEPT ![c] = o]
    BY <2>1
  <2>3. o \in Originals
    BY <1>a DEF Originals
  <2>4. /\ o.slotsRetired = own[c].slotsRetired
        /\ o.verdict = own[c].verdict
        /\ o.fired = own[c].fired
        /\ o.origin = own[c].origin
        /\ o.complete = own[c].complete
        /\ o.status = own[c].status
    BY <1>a DEF Originals
  <2>5. Advances(c) /\ slots' = slots
    BY <1>9, <1>b DEF AttachRefused, Advances, WorkerGoes, OnlyOwn, session, Live, Ended
  <2> HIDE DEF o
  <2>6. Replaces(c, o)
    BY <2>2, <2>3 DEF Replaces
  <2> QED  BY <1>9, <1>a, <1>b, <2>4, <2>5, <2>6 DEF AttachRefused, WorkerGoes,
         WorkerMove, SlotsMove,
         VerdictMove, StatusMove, Live, Ended, Terminal, Undecided
<1>10. CASE Attach(c)
  <2>1. own' = [own EXCEPT ![c] =
                   [own[c] EXCEPT !.installed = TRUE]]
    BY <1>10, <1>a DEF Attach
  <2> DEFINE o == [own[c] EXCEPT !.installed = TRUE]
  <2>2. own' = [own EXCEPT ![c] = o]
    BY <2>1
  <2>3. o \in Originals
    BY <1>a DEF Originals
  <2>4. /\ o.slotsRetired = own[c].slotsRetired
        /\ o.verdict = own[c].verdict
        /\ o.fired = own[c].fired
        /\ o.origin = own[c].origin
        /\ o.complete = own[c].complete
        /\ o.status = own[c].status
    BY <1>a DEF Originals
  <2>5. Advances(c) /\ slots' = c
    BY <1>10, <1>b DEF Attach, Advances, WorkerGoes, Live, Ended
  <2> HIDE DEF o
  <2>6. Replaces(c, o)
    BY <2>2, <2>3 DEF Replaces
  <2> QED  BY <1>10, <1>a, <1>b, <2>4, <2>5, <2>6 DEF Attach, WorkerGoes,
         WorkerMove, SlotsMove,
         VerdictMove, StatusMove, Live, Ended, Terminal, Undecided
<1>11. CASE PrepareFails(c)
  <2>1. PICK s \in {"clean", "unclean"} :
          own' = [own EXCEPT ![c] =
                   [own[c] EXCEPT !.scope = s]]
    BY <1>11 DEF PrepareFails
  <2> DEFINE o == [own[c] EXCEPT !.scope = s]
  <2>2. own' = [own EXCEPT ![c] = o]
    BY <2>1
  <2>3. o \in Originals
    BY <1>a DEF Originals
  <2>4. /\ o.slotsRetired = own[c].slotsRetired
        /\ o.verdict = own[c].verdict
        /\ o.fired = own[c].fired
        /\ o.origin = own[c].origin
        /\ o.complete = own[c].complete
        /\ o.status = own[c].status
    BY <1>a DEF Originals
  <2>5. Advances(c) /\ slots' = slots
    BY <1>11, <1>b DEF PrepareFails, Advances, WorkerGoes, OnlyOwn, session, Live, Ended
  <2> HIDE DEF o
  <2>6. Replaces(c, o)
    BY <2>2, <2>3 DEF Replaces
  <2> QED  BY <1>11, <1>a, <1>b, <2>4, <2>5, <2>6 DEF PrepareFails, WorkerGoes,
         WorkerMove, SlotsMove,
         VerdictMove, StatusMove, Live, Ended, Terminal, Undecided
<1>12. CASE EndConversation(c)
  <2>1. PICK s \in {"clean", "unclean"}, ok \in BOOLEAN :
          own' = [own EXCEPT ![c] =
                   [own[c] EXCEPT !.scope = s, !.ok = ok]]
    BY <1>12 DEF EndConversation
  <2> DEFINE o == [own[c] EXCEPT !.scope = s, !.ok = ok]
  <2>2. own' = [own EXCEPT ![c] = o]
    BY <2>1
  <2>3. o \in Originals
    BY <1>a DEF Originals
  <2>4. /\ o.slotsRetired = own[c].slotsRetired
        /\ o.verdict = own[c].verdict
        /\ o.fired = own[c].fired
        /\ o.origin = own[c].origin
        /\ o.complete = own[c].complete
        /\ o.status = own[c].status
    BY <1>a DEF Originals
  <2>5. Advances(c) /\ slots' = slots
    BY <1>12, <1>b DEF EndConversation, Advances, WorkerGoes, OnlyOwn, session, Live, Ended
  <2> HIDE DEF o
  <2>6. Replaces(c, o)
    BY <2>2, <2>3 DEF Replaces
  <2> QED  BY <1>12, <1>a, <1>b, <2>4, <2>5, <2>6 DEF EndConversation, WorkerGoes,
         WorkerMove, SlotsMove,
         VerdictMove, StatusMove, Live, Ended, Terminal, Undecided
<1>13. CASE JoinCommitter(c)
  <2>1. PICK o \in Originals :
          /\ own' = [own EXCEPT ![c] = o]
          /\ o.slotsRetired = own[c].slotsRetired /\ o.verdict = own[c].verdict
          /\ o.fired = own[c].fired /\ o.origin = own[c].origin
          /\ o.complete = own[c].complete /\ o.status = own[c].status
    <3>1. CASE own[c].committer = "failed"
      <4>1. PICK d \in {"undecided", "decided"} :
              own' = [own EXCEPT ![c] = [own[c] EXCEPT !.ok = FALSE, !.controls = d]]
        BY <1>13, <3>1 DEF JoinCommitter
      <4> DEFINE e == [own[c] EXCEPT !.ok = FALSE, !.controls = d]
      <4>2. /\ e \in Originals
            /\ e.slotsRetired = own[c].slotsRetired /\ e.verdict = own[c].verdict
            /\ e.fired = own[c].fired /\ e.origin = own[c].origin
            /\ e.complete = own[c].complete /\ e.status = own[c].status
        BY <1>a DEF Originals
      <4>3. own' = [own EXCEPT ![c] = e]
        BY <4>1
      <4> HIDE DEF e
      <4> QED  BY <4>2, <4>3
    <3>2. CASE own[c].committer # "failed"
      <4> DEFINE e == [own[c] EXCEPT !.controls = "decided"]
      <4>1. own' = [own EXCEPT ![c] = e]
        BY <1>13, <1>a, <3>2 DEF JoinCommitter
      <4>2. /\ e \in Originals
            /\ e.slotsRetired = own[c].slotsRetired /\ e.verdict = own[c].verdict
            /\ e.fired = own[c].fired /\ e.origin = own[c].origin
            /\ e.complete = own[c].complete /\ e.status = own[c].status
        BY <1>a DEF Originals
      <4> HIDE DEF e
      <4> QED  BY <4>1, <4>2
    <3> QED  BY <3>1, <3>2
  <2>2. Advances(c) /\ slots' = slots
    BY <1>13, <1>b DEF JoinCommitter, Advances, WorkerGoes, OnlyOwn, session, Live, Ended
  <2>3. Replaces(c, o)
    BY <2>1 DEF Replaces
  <2> QED  BY <1>13, <1>b, <2>1, <2>2, <2>3 DEF JoinCommitter, WorkerGoes, WorkerMove,
         SlotsMove, VerdictMove, StatusMove, Live, Ended, Terminal, Undecided
<1>14. CASE JoinFailed(c)
  <2>1. CASE own' = own
    <3>1. Advances(c) /\ slots' = slots
      BY <1>14, <1>b DEF JoinFailed, Advances, WorkerGoes, OnlyOwn, session, Live, Ended
    <3> QED  BY <1>14, <1>b, <1>k, <2>1, <3>1 DEF JoinFailed, WorkerGoes, WorkerMove, SlotsMove,
         VerdictMove, StatusMove, Live, Ended, Terminal, Undecided
  <2>2. CASE own' # own
    <3> DEFINE o == [own[c] EXCEPT !.controls = "decided"]
    <3>1. own' = [own EXCEPT ![c] = o]
      BY <1>14, <1>a, <2>2 DEF JoinFailed
    <3>2. o \in Originals
      BY <1>a DEF Originals
    <3>3. /\ o.slotsRetired = own[c].slotsRetired
          /\ o.verdict = own[c].verdict
          /\ o.fired = own[c].fired
          /\ o.origin = own[c].origin
          /\ o.complete = own[c].complete
          /\ o.status = own[c].status
      BY <1>a DEF Originals
    <3>4. Advances(c) /\ slots' = slots
      BY <1>14, <1>b DEF JoinFailed, Advances, WorkerGoes, OnlyOwn, session, Live, Ended
    <3> HIDE DEF o
    <3>5. Replaces(c, o)
      BY <3>1, <3>2 DEF Replaces
    <3> QED  BY <1>14, <1>a, <1>b, <3>3, <3>4, <3>5 DEF JoinFailed, WorkerGoes,
         WorkerMove, SlotsMove,
         VerdictMove, StatusMove, Live, Ended, Terminal, Undecided
  <2> QED  BY <2>1, <2>2
<1>15. CASE SealPublication(c)
  <2>1. own' = [own EXCEPT ![c] =
                   [own[c] EXCEPT !.verdict = Verdict(Fired(c), own[c].ok),
                                    !.ok = FALSE]]
    BY <1>15, <1>a DEF SealPublication
  <2> DEFINE v == Verdict(Fired(c), own[c].ok)
  <2>v. v \in Terminal
    BY <1>a, <1>v DEF Fired, TypeOK, Originals
  <2> DEFINE o == [own[c] EXCEPT !.verdict = v,
                                    !.ok = FALSE]
  <2>2. own' = [own EXCEPT ![c] = o]
    BY <2>1
  <2> HIDE DEF v
  <2>3. o \in Originals
    BY <1>a, <2>v DEF Originals
  <2>4. /\ o.slotsRetired = own[c].slotsRetired
        /\ o.verdict = v
        /\ o.fired = own[c].fired
        /\ o.origin = own[c].origin
        /\ o.complete = own[c].complete
        /\ o.status = own[c].status
    BY <1>a DEF Originals
  <2>5. Advances(c) /\ slots' = slots
    BY <1>15, <1>b DEF SealPublication, Advances, WorkerGoes, OnlyOwn, session, Live, Ended
  <2> HIDE DEF o
  <2>6. Replaces(c, o)
    BY <2>2, <2>3 DEF Replaces
  <2> QED  BY <1>15, <1>a, <1>b, <2>v, <2>4, <2>5, <2>6
         DEF SealPublication, Verdict, Fired, WorkerGoes,
         WorkerMove, SlotsMove,
         VerdictMove, StatusMove, Live, Ended, Terminal, Undecided, v
<1>16. CASE SealFailure(c)
  <2>0. CountsAsCancelled(c) \subseteq BOOLEAN
    BY DEF TypeOK, CountsAsCancelled
  <2>1. PICK cancelled \in CountsAsCancelled(c) :
          own' = [own EXCEPT ![c] =
                   [own[c] EXCEPT !.fired = own[c].fired \/ cancelled,
                                    !.origin = own[c].origin \/ cancelled,
                                    !.verdict = Verdict(Fired(c) \/ cancelled, FALSE),
                                    !.complete = (own[c].bound = "norun")]]
    BY <1>16, <2>0 DEF SealFailure
  <2> DEFINE v == Verdict(Fired(c) \/ cancelled, FALSE)
  <2> DEFINE f == own[c].fired \/ cancelled
  <2> DEFINE g == own[c].origin \/ cancelled
  <2> DEFINE k == (own[c].bound = "norun")
  <2>v. v \in Terminal
    BY <1>v, <2>0, <2>1 DEF Fired, TypeOK
  <2>f. f \in BOOLEAN
    BY <1>a, <2>0, <2>1 DEF Originals
  <2>g. g \in BOOLEAN
    BY <1>a, <2>0, <2>1 DEF Originals
  <2>k. k \in BOOLEAN
    OBVIOUS
  <2> DEFINE o == [own[c] EXCEPT !.fired = f,
                                    !.origin = g,
                                    !.verdict = v,
                                    !.complete = k]
  <2>2. own' = [own EXCEPT ![c] = o]
    BY <2>1
  <2> HIDE DEF v, f, g, k
  <2>3. o \in Originals
    BY <1>a, <2>v, <2>f, <2>g, <2>k DEF Originals
  <2>4. /\ o.slotsRetired = own[c].slotsRetired
        /\ o.verdict = v
        /\ o.fired = f
        /\ o.origin = g
        /\ o.complete = k
        /\ o.status = own[c].status
    BY <1>a DEF Originals
  <2>5. Advances(c) /\ slots' = slots
    BY <1>16, <1>b DEF SealFailure, Advances, WorkerGoes, OnlyOwn, session, Live, Ended
  <2> HIDE DEF o
  <2>6. Replaces(c, o)
    BY <2>2, <2>3 DEF Replaces
  <2> QED  BY <1>16, <1>a, <1>b, <2>v, <2>f, <2>g, <2>k, <2>4, <2>5, <2>6
         DEF SealFailure, Verdict, Fired, WorkerGoes,
         WorkerMove, SlotsMove,
         VerdictMove, StatusMove, Live, Ended, Terminal, Undecided, v, f, g, k
<1>17. CASE StoreTerminal(c)
  <2>1. own' = [own EXCEPT ![c] =
                   [own[c] EXCEPT !.status = Stored(c)]]
    BY <1>17, <1>a DEF StoreTerminal
  <2> DEFINE t == Stored(c)
  <2>t. t \in {"none", "created", "executing"} \cup Terminal
    BY <1>a, <1>17 DEF Originals, Stored, StoreTerminal, WorkerGoes, SealedFirst, Sealed
  <2> DEFINE o == [own[c] EXCEPT !.status = t]
  <2>2. own' = [own EXCEPT ![c] = o]
    BY <2>1
  <2> HIDE DEF t
  <2>3. o \in Originals
    BY <1>a, <2>t DEF Originals
  <2>4. /\ o.slotsRetired = own[c].slotsRetired
        /\ o.verdict = own[c].verdict
        /\ o.fired = own[c].fired
        /\ o.origin = own[c].origin
        /\ o.complete = own[c].complete
        /\ o.status = t
    BY <1>a DEF Originals
  <2>5. Advances(c) /\ slots' = slots
    BY <1>17, <1>b DEF StoreTerminal, Advances, WorkerGoes, OnlyOwn, session, Live, Ended
  <2> HIDE DEF o
  <2>6. Replaces(c, o)
    BY <2>2, <2>3 DEF Replaces
  <2> QED  BY <1>17, <1>a, <1>b, <2>t, <2>4, <2>5, <2>6 DEF StoreTerminal, Stored, WorkerGoes,
         WorkerMove, SlotsMove,
         VerdictMove, StatusMove, Live, Ended, Terminal, Undecided, t
<1>18. CASE CompletePublication(c)
  <2>1. own' = [own EXCEPT ![c] =
                   [own[c] EXCEPT !.complete = TRUE]]
    BY <1>18, <1>a DEF CompletePublication
  <2> DEFINE o == [own[c] EXCEPT !.complete = TRUE]
  <2>2. own' = [own EXCEPT ![c] = o]
    BY <2>1
  <2>3. o \in Originals
    BY <1>a DEF Originals
  <2>4. /\ o.slotsRetired = own[c].slotsRetired
        /\ o.verdict = own[c].verdict
        /\ o.fired = own[c].fired
        /\ o.origin = own[c].origin
        /\ o.complete = TRUE
        /\ o.status = own[c].status
    BY <1>a DEF Originals
  <2>5. Advances(c) /\ slots' = slots
    BY <1>18, <1>b DEF CompletePublication, Advances, WorkerGoes, OnlyOwn, session, Live, Ended
  <2> HIDE DEF o
  <2>6. Replaces(c, o)
    BY <2>2, <2>3 DEF Replaces
  <2> QED  BY <1>18, <1>a, <1>b, <2>4, <2>5, <2>6 DEF CompletePublication, WorkerGoes,
         WorkerMove, SlotsMove,
         VerdictMove, StatusMove, Live, Ended, Terminal, Undecided
<1>19. CASE RetireSlots(c)
  <2>1. own' = [own EXCEPT ![c] =
                   [own[c] EXCEPT !.slotsRetired = TRUE]]
    BY <1>19, <1>a DEF RetireSlots
  <2> DEFINE o == [own[c] EXCEPT !.slotsRetired = TRUE]
  <2>2. own' = [own EXCEPT ![c] = o]
    BY <2>1
  <2>3. o \in Originals
    BY <1>a DEF Originals
  <2>4. /\ o.slotsRetired = TRUE
        /\ o.verdict = own[c].verdict
        /\ o.fired = own[c].fired
        /\ o.origin = own[c].origin
        /\ o.complete = own[c].complete
        /\ o.status = own[c].status
    BY <1>a DEF Originals
  <2>5. Advances(c) /\ slots' = None
    BY <1>19, <1>b DEF RetireSlots, Advances, WorkerGoes, Live, Ended
  <2> HIDE DEF o
  <2>6. Replaces(c, o)
    BY <2>2, <2>3 DEF Replaces
  <2> QED  BY <1>19, <1>a, <1>b, <2>4, <2>5, <2>6 DEF RetireSlots, WorkerGoes,
         WorkerMove, SlotsMove,
         VerdictMove, StatusMove, Live, Ended, Terminal, Undecided
<1>20. CASE RetireRefused(c)
  <2>1. Advances(c) /\ slots' = slots
    BY <1>20, <1>b DEF RetireRefused, Advances, WorkerGoes, OnlyOwn, session, Live, Ended
  <2>2. Replaces(c, own[c])
    BY <1>20, <1>k DEF RetireRefused
  <2> QED  BY <1>20, <1>b, <2>1, <2>2 DEF RetireRefused, WorkerGoes, WorkerMove, SlotsMove,
         VerdictMove, StatusMove, Live, Ended, Terminal, Undecided
<1>21. CASE CleanTools(c)
  <2>1. own' = [own EXCEPT ![c] =
                   [own[c] EXCEPT !.toolsCleaned = TRUE]]
    BY <1>21, <1>a DEF CleanTools
  <2> DEFINE o == [own[c] EXCEPT !.toolsCleaned = TRUE]
  <2>2. own' = [own EXCEPT ![c] = o]
    BY <2>1
  <2>3. o \in Originals
    BY <1>a DEF Originals
  <2>4. /\ o.slotsRetired = own[c].slotsRetired
        /\ o.verdict = own[c].verdict
        /\ o.fired = own[c].fired
        /\ o.origin = own[c].origin
        /\ o.complete = own[c].complete
        /\ o.status = own[c].status
    BY <1>a DEF Originals
  <2>5. Advances(c) /\ slots' = slots
    BY <1>21, <1>b DEF CleanTools, Advances, WorkerGoes, OnlyOwn, session, Live, Ended
  <2> HIDE DEF o
  <2>6. Replaces(c, o)
    BY <2>2, <2>3 DEF Replaces
  <2> QED  BY <1>21, <1>a, <1>b, <2>4, <2>5, <2>6 DEF CleanTools, WorkerGoes,
         WorkerMove, SlotsMove,
         VerdictMove, StatusMove, Live, Ended, Terminal, Undecided
<1>22. CASE LoseWorker(c)
  <2>1. Advances(c) /\ slots' = slots
    BY <1>22, <1>b DEF LoseWorker, Advances, WorkerGoes, OnlyOwn, session, Live, Ended
  <2>2. Replaces(c, own[c])
    BY <1>22, <1>k DEF LoseWorker
  <2> QED  BY <1>22, <1>b, <2>1, <2>2 DEF LoseWorker, WorkerGoes, WorkerMove, SlotsMove,
         VerdictMove, StatusMove, Live, Ended, Terminal, Undecided
<1> QED  BY <1>1, <1>2, <1>3, <1>4, <1>5, <1>6, <1>7, <1>8, <1>9, <1>10, <1>11,
            <1>12, <1>13, <1>14, <1>15, <1>16, <1>17, <1>18, <1>19, <1>20, <1>21, <1>22
         DEF WorkerStep

\* A move of a worker is safe.
LEMMA WorkerMoveSafe ==
  ASSUME Safe, NEW c \in Calls, NEW o, WorkerMove(c, o)
  PROVE  Safe'
<1>a. TypeOK /\ OwnerInv /\ VerdictInv /\ AskInv /\ AbortInv
  BY DEF Safe
<1>b. /\ own' = [own EXCEPT ![c] = o] /\ o \in Originals
      /\ own \in [Calls -> Originals] /\ own' \in [Calls -> Originals]
  BY <1>a DEF WorkerMove, Replaces, TypeOK
<1>c. /\ worker \in [Calls -> {"none"} \cup Live \cup Ended]
      /\ worker' \in [Calls -> {"none"} \cup Live \cup Ended]
  BY <1>a DEF WorkerMove, Advances, TypeOK
<1>d. slots' \in Calls \cup {None}
  BY <1>a DEF WorkerMove, SlotsMove, TypeOK
<1>1. TypeOK'
  BY <1>a, <1>b, <1>c, <1>d DEF WorkerMove, Advances, TypeOK
<1>2. AskInv' /\ AbortInv'
  BY <1>a DEF AskInv, AbortInv, WorkerMove, Advances
<1>3. ASSUME NEW d \in Calls
      PROVE  /\ Holds(d)' /\ Unlaunched(d)' /\ Joined(d)'
             /\ Retired(d)' /\ SealedFirst(d)' /\ Proved(d)'
  <2>1. /\ Holds(d) /\ Unlaunched(d) /\ Joined(d)
        /\ Retired(d) /\ SealedFirst(d) /\ Proved(d)
    BY <1>a DEF OwnerInv
  <2>2. CASE d # c
    <3>1. own'[d] = own[d] /\ worker'[d] = worker[d]
      BY <1>b, <1>c, <2>2 DEF WorkerMove, Advances
    <3>2. slots' = d => slots = d
      BY <2>2, NoneAssumption DEF WorkerMove, SlotsMove
    <3> QED  BY <2>1, <3>1, <3>2 DEF WorkerMove, Advances, Holds, Unlaunched, Joined, Retired,
                SealedFirst, Proved, Sealed
  <2>3. CASE d = c
    <3>1. own'[c] = o
      BY <1>b
    <3>2. /\ call[c] = "launched"
          /\ guardian[c] \in {"none", "watching"}
      BY <1>a, <2>1, <2>3 DEF WorkerMove, Advances, Unlaunched, Joined, Live, Ended, TypeOK
    <3>3. Retired(c)'
      BY <2>1, <2>3, <3>1, NoneAssumption
         DEF WorkerMove, Advances, SlotsMove, Retired, Live, Ended
    <3>4. SealedFirst(c)'
      BY <2>1, <2>3, <3>1, <3>2 DEF WorkerMove, Advances, VerdictMove, SealedFirst, Sealed,
         Terminal
    <3> QED  BY <2>1, <2>3, <3>2, <3>3, <3>4 DEF WorkerMove, Advances, Holds, Unlaunched,
                Joined, Proved
  <2> QED  BY <2>2, <2>3
<1>4. ASSUME NEW d \in Calls
      PROVE  /\ worker'[d] \in Undecided => ~Sealed(d)'
             /\ own'[d].status \in Terminal => own'[d].status = own'[d].verdict
             /\ own'[d].origin => own'[d].fired
             /\ own'[d].origin /\ Sealed(d)' => own'[d].verdict = "cancelled"
  <2>1. CASE d # c
    BY <1>a, <1>b, <1>c, <2>1 DEF WorkerMove, Advances, VerdictInv, Sealed
  <2>2. CASE d = c
    <3>1. own'[c] = o
      BY <1>b
    <3> QED  BY <1>a, <2>2, <3>1 DEF WorkerMove, VerdictMove, StatusMove, VerdictInv, Sealed,
                Terminal
  <2> QED  BY <2>1, <2>2
<1> QED  BY <1>1, <1>2, <1>3, <1>4 DEF Safe, OwnerInv, VerdictInv

-----------------------------------------------------------------------------
(* Model calls, committers, and a dropped observer.                        *)

(* The model call or the committer of a run goes on, or its token fires. *)
TaskMove(c, o) ==
    /\ Replaces(c, o)
    /\ UNCHANGED <<scenario, session, call, worker, guardian, aborted, ask>>
    /\ \/ worker[c] \in Live
       \/ own[c].model = "running"
       \/ own[c].committer = "running"
    /\ o.slotsRetired = own[c].slotsRetired
    /\ o.complete = own[c].complete
    /\ o.verdict = own[c].verdict
    /\ o.status = own[c].status
    /\ o.origin = own[c].origin
    /\ own[c].fired => o.fired

\* Their steps are such moves.
LEMMA TaskMoves ==
  ASSUME TypeOK, NEW c \in Calls,
         \/ CallModel(c) \/ ModelReturns(c) \/ CommitterEnds(c) \/ CommitterFails(c)
         \/ DropObserver(c)
  PROVE  \E o : TaskMove(c, o)
<1>a. own[c] \in Originals /\ own \in [Calls -> Originals]
  BY DEF TypeOK
<1>1. CASE CallModel(c) \/ ModelReturns(c)
  <2>1. PICK m \in {"running", "ready", "unproved"} :
          own' = [own EXCEPT ![c] = [own[c] EXCEPT !.model = m]]
    BY <1>1, <1>a DEF CallModel, ModelReturns
  <2> DEFINE o == [own[c] EXCEPT !.model = m]
  <2>2. /\ o \in Originals
        /\ o.slotsRetired = own[c].slotsRetired /\ o.complete = own[c].complete
        /\ o.verdict = own[c].verdict /\ o.status = own[c].status
        /\ o.origin = own[c].origin /\ o.fired = own[c].fired
    BY <1>a DEF Originals
  <2>3. own' = [own EXCEPT ![c] = o]
    BY <2>1
  <2> HIDE DEF o
  <2> QED  BY <1>1, <2>2, <2>3 DEF TaskMove, Replaces, CallModel, ModelReturns, Live, session
<1>2. CASE CommitterEnds(c) \/ CommitterFails(c)
  <2>1. PICK k \in {"joined", "failed"} :
          own' = [own EXCEPT ![c] = [own[c] EXCEPT !.committer = k]]
    BY <1>2, <1>a DEF CommitterEnds, CommitterFails
  <2> DEFINE o == [own[c] EXCEPT !.committer = k]
  <2>2. /\ o \in Originals
        /\ o.slotsRetired = own[c].slotsRetired /\ o.complete = own[c].complete
        /\ o.verdict = own[c].verdict /\ o.status = own[c].status
        /\ o.origin = own[c].origin /\ o.fired = own[c].fired
    BY <1>a DEF Originals
  <2>3. own' = [own EXCEPT ![c] = o]
    BY <2>1
  <2> HIDE DEF o
  <2> QED  BY <1>2, <2>2, <2>3 DEF TaskMove, Replaces, CommitterEnds, CommitterFails, session
<1>3. CASE DropObserver(c)
  <2> DEFINE o == [own[c] EXCEPT !.fired = TRUE]
  <2>1. own' = [own EXCEPT ![c] = o]
    BY <1>3, <1>a DEF DropObserver
  <2>2. /\ o \in Originals
        /\ o.slotsRetired = own[c].slotsRetired /\ o.complete = own[c].complete
        /\ o.verdict = own[c].verdict /\ o.status = own[c].status
        /\ o.origin = own[c].origin /\ o.fired
    BY <1>a DEF Originals
  <2> HIDE DEF o
  <2> QED  BY <1>3, <2>1, <2>2 DEF TaskMove, Replaces, DropObserver, session
<1> QED  BY <1>1, <1>2, <1>3

\* Such a move is safe: nothing of a released run is still running.
LEMMA TaskMoveSafe ==
  ASSUME Safe, NEW c \in Calls, NEW o, TaskMove(c, o)
  PROVE  Safe'
<1>a. TypeOK /\ OwnerInv /\ VerdictInv /\ AskInv /\ AbortInv
  BY DEF Safe
<1>b. /\ own' = [own EXCEPT ![c] = o] /\ o \in Originals
      /\ own \in [Calls -> Originals] /\ own' \in [Calls -> Originals]
  BY <1>a DEF TaskMove, Replaces, TypeOK
<1>1. TypeOK'
  BY <1>a, <1>b DEF TaskMove, session, TypeOK
<1>2. AskInv' /\ AbortInv'
  BY <1>a DEF AskInv, AbortInv, TaskMove, session
<1>3. ASSUME NEW d \in Calls
      PROVE  /\ Holds(d)' /\ Unlaunched(d)' /\ Joined(d)'
             /\ Retired(d)' /\ SealedFirst(d)' /\ Proved(d)'
  <2>1. /\ Holds(d) /\ Unlaunched(d) /\ Joined(d)
        /\ Retired(d) /\ SealedFirst(d) /\ Proved(d)
    BY <1>a DEF OwnerInv
  <2>2. CASE d # c
    <3>1. own'[d] = own[d]
      BY <1>b, <2>2
    <3> QED  BY <2>1, <3>1 DEF TaskMove, session, Holds, Unlaunched, Joined, Retired,
                SealedFirst, Proved, Sealed
  <2>3. CASE d = c
    <3>1. own'[c] = o
      BY <1>b
    <3>2. call[c] = "launched" /\ guardian[c] # "released"
      BY <2>1, <2>3 DEF TaskMove, Unlaunched, Proved, Live
    <3> QED  BY <2>1, <2>3, <3>1, <3>2 DEF TaskMove, session, Holds, Unlaunched, Joined,
                Retired, SealedFirst, Proved, Sealed
  <2> QED  BY <2>2, <2>3
<1>4. VerdictInv'
  <2> SUFFICES ASSUME NEW d \in Calls
               PROVE  /\ worker'[d] \in Undecided => ~Sealed(d)'
                      /\ own'[d].status \in Terminal => own'[d].status = own'[d].verdict
                      /\ own'[d].origin => own'[d].fired
                      /\ own'[d].origin /\ Sealed(d)' => own'[d].verdict = "cancelled"
    BY DEF VerdictInv
  <2>1. CASE d # c
    BY <1>a, <1>b, <2>1 DEF TaskMove, VerdictInv, Sealed
  <2>2. CASE d = c
    BY <1>a, <1>b, <2>2 DEF TaskMove, VerdictInv, Sealed
  <2> QED  BY <2>1, <2>2
<1> QED  BY <1>1, <1>2, <1>3, <1>4 DEF Safe, OwnerInv

-----------------------------------------------------------------------------
(* The guardian.                                                           *)

(* The guardian of c goes on; it frees the admission at its end only, and   *)
(* on the proof of qualify_release().                                       *)
GuardianMove(c, o) ==
    /\ Replaces(c, o)
    /\ guardian[c] \in {"watching", "settling", "storing", "children"}
    /\ guardian'[c] \in {"settling", "storing", "children", "released", "retained"}
    /\ guardian' = [guardian EXCEPT ![c] = guardian'[c]]
    /\ guardian[c] = "watching" => worker[c] \in Ended
    /\ UNCHANGED <<scenario, closed, sessionCancel, slots, call, worker, aborted, ask>>
    /\ o.slotsRetired = own[c].slotsRetired
    /\ o.origin = own[c].origin
    /\ o.fired = own[c].fired
    /\ IF guardian'[c] = "released"
         THEN o = own[c] /\ Qualifies(c) /\ active' = None /\ registered' = None
                /\ aborts' = None
         ELSE UNCHANGED <<active, registered, aborts>>
    /\ \/ /\ o.verdict = own[c].verdict
          /\ guardian'[c] = "storing" \/ o.complete =>
               own[c].complete \/ guardian[c] = "storing"
          /\ \/ o.status = own[c].status
             \/ o.status = own[c].verdict
       \/ /\ ~Sealed(c)
          /\ worker[c] \in Ended
          /\ o.verdict = Verdict(Fired(c), FALSE)
          /\ o.status = own[c].status

\* Every step of a guardian is such a move.
LEMMA GuardianMoves ==
  ASSUME TypeOK, NEW c \in Calls, Joined(c), SealedFirst(c), GuardianStep(c)
  PROVE  \E o : GuardianMove(c, o)
<1>a. own[c] \in Originals /\ own \in [Calls -> Originals]
  BY DEF TypeOK
<1>b. guardian \in [Calls -> {"none", "watching", "settling", "storing", "children",
                              "released", "retained"}]
  BY DEF TypeOK
<1>k. own' = own => Replaces(c, own[c])
  BY <1>a DEF Replaces
<1>1. CASE JoinWorker(c)
  <2>1. /\ UNCHANGED <<scenario, closed, sessionCancel, slots, call, worker, aborted, ask>>
        /\ UNCHANGED <<active, registered, aborts>>
        /\ worker[c] \in Ended
        /\ guardian[c] = "watching"
        /\ guardian'[c] \in {"settling", "children"}
        /\ guardian' = [guardian EXCEPT ![c] = guardian'[c]]
    BY <1>1, <1>b DEF JoinWorker, OnlyGuardian, GuardianGoes, session
  <2>2. CASE own' = own
    BY <1>k, <2>1, <2>2 DEF GuardianMove
  <2>3. CASE own' # own
    <3> DEFINE o == [own[c] EXCEPT !.continued = TRUE]
    <3>1. own' = [own EXCEPT ![c] = o]
      BY <1>1, <1>a, <2>3 DEF JoinWorker
    <3>2. /\ o \in Originals
          /\ o.slotsRetired = own[c].slotsRetired /\ o.complete = own[c].complete
          /\ o.verdict = own[c].verdict /\ o.status = own[c].status
          /\ o.origin = own[c].origin /\ o.fired = own[c].fired
      BY <1>a DEF Originals
    <3> HIDE DEF o
    <3> QED  BY <2>1, <3>1, <3>2 DEF GuardianMove, Replaces
  <2> QED  BY <2>2, <2>3
<1>2. CASE SettleInbox(c)
  <2>1. /\ UNCHANGED <<scenario, closed, sessionCancel, slots, call, worker, aborted, ask>>
        /\ UNCHANGED <<active, registered, aborts>>
        /\ worker[c] \in Ended
        /\ guardian[c] = "settling"
        /\ guardian'[c] = IF Sealed(c) THEN "children" ELSE "storing"
        /\ guardian' = [guardian EXCEPT ![c] = guardian'[c]]
    BY <1>2, <1>b DEF SettleInbox, OnlyGuardian, GuardianGoes, session, Joined
  <2>2. CASE Sealed(c)
    <3> DEFINE o == [own[c] EXCEPT !.controls = "decided", !.continued = TRUE]
    <3>1. own' = [own EXCEPT ![c] = o]
      BY <1>2, <1>a, <2>2 DEF SettleInbox
    <3>2. /\ o \in Originals
          /\ o.slotsRetired = own[c].slotsRetired /\ o.complete = own[c].complete
          /\ o.verdict = own[c].verdict /\ o.status = own[c].status
          /\ o.origin = own[c].origin /\ o.fired = own[c].fired
      BY <1>a DEF Originals
    <3> HIDE DEF o
    <3> QED  BY <2>1, <2>2, <3>1, <3>2 DEF GuardianMove, Replaces
  <2>3. CASE ~Sealed(c)
    <3> DEFINE v == Verdict(Fired(c), FALSE)
    <3> DEFINE o == [own[c] EXCEPT !.controls = "decided", !.ok = FALSE, !.verdict = v]
    <3>1. own' = [own EXCEPT ![c] = o]
      BY <1>2, <1>a, <2>3 DEF SettleInbox
    <3>2. v \in Terminal
      BY DEF Verdict, Terminal
    <3> HIDE DEF v
    <3>3. /\ o \in Originals
          /\ o.slotsRetired = own[c].slotsRetired /\ o.complete = own[c].complete
          /\ o.verdict = v /\ o.status = own[c].status
          /\ o.origin = own[c].origin /\ o.fired = own[c].fired
      BY <1>a, <3>2 DEF Originals
    <3> HIDE DEF o
    <3> QED  BY <2>1, <2>3, <3>1, <3>3 DEF GuardianMove, Replaces, v
  <2> QED  BY <2>2, <2>3
<1>3. CASE PublishFailure(c)
  <2>1. /\ UNCHANGED <<scenario, closed, sessionCancel, slots, call, worker, aborted, ask>>
        /\ UNCHANGED <<active, registered, aborts>>
        /\ guardian[c] = "storing"
        /\ guardian'[c] = "children"
        /\ guardian' = [guardian EXCEPT ![c] = guardian'[c]]
    BY <1>3, <1>b DEF PublishFailure, OnlyGuardian, GuardianGoes, session
  <2> DEFINE t == Stored(c)
  <2> DEFINE o == [own[c] EXCEPT !.status = t, !.complete = TRUE, !.continued = TRUE]
  <2>2. own' = [own EXCEPT ![c] = o]
    BY <1>3, <1>a DEF PublishFailure
  <2>3. t \in {"none", "created", "executing"} \cup Terminal
    BY <1>a, <2>1 DEF Originals, Stored, SealedFirst, Sealed
  <2>4. t = own[c].status \/ t = own[c].verdict
    BY DEF Stored
  <2> HIDE DEF t
  <2>5. /\ o \in Originals
        /\ o.slotsRetired = own[c].slotsRetired
        /\ o.verdict = own[c].verdict /\ o.status = t
        /\ o.origin = own[c].origin /\ o.fired = own[c].fired
    BY <1>a, <2>3 DEF Originals
  <2> HIDE DEF o
  <2> QED  BY <2>1, <2>2, <2>4, <2>5 DEF GuardianMove, Replaces
<1>4. CASE Release(c)
  <2>1. own' = own
    BY <1>4 DEF Release
  <2> QED  BY <1>4, <1>b, <1>k, <2>1 DEF Release, GuardianGoes, GuardianMove
<1>5. CASE Retain(c)
  BY <1>5, <1>b, <1>k DEF Retain, GuardianGoes, GuardianMove, OnlyGuardian, session
<1> QED  BY <1>1, <1>2, <1>3, <1>4, <1>5 DEF GuardianStep

\* Such a move is safe.
LEMMA GuardianMoveSafe ==
  ASSUME Safe, NEW c \in Calls, NEW o, GuardianMove(c, o)
  PROVE  Safe'
<1>a. TypeOK /\ OwnerInv /\ VerdictInv /\ AskInv /\ AbortInv
  BY DEF Safe
<1>b. /\ own' = [own EXCEPT ![c] = o] /\ o \in Originals
      /\ own \in [Calls -> Originals] /\ own' \in [Calls -> Originals]
  BY <1>a DEF GuardianMove, Replaces, TypeOK
<1>c. /\ guardian \in [Calls -> {"none", "watching", "settling", "storing", "children",
                                 "released", "retained"}]
      /\ guardian' \in [Calls -> {"none", "watching", "settling", "storing", "children",
                                  "released", "retained"}]
  BY <1>a DEF GuardianMove, TypeOK
<1>d. call[c] = "launched" /\ active = c
  BY <1>a DEF GuardianMove, OwnerInv, Unlaunched, Holds
<1>e. ASSUME NEW d \in Calls, d # c, call[d] \notin {"idle", "done"}
      PROVE  guardian[d] = "released"
  BY <1>a, <1>d, <1>e DEF OwnerInv, Holds
<1>1. TypeOK'
  BY <1>a, <1>b, <1>c DEF GuardianMove, TypeOK
<1>2. AskInv' /\ AbortInv'
  <2>1. \A d \in Calls : call[d] # "launching" \/ guardian'[c] # "released"
    <3> SUFFICES ASSUME NEW d \in Calls, call[d] = "launching"
                 PROVE  FALSE
      OBVIOUS
    <3>1. d # c
      BY <1>d
    <3> QED  BY <1>a, <1>e, <3>1 DEF OwnerInv, Unlaunched
  <2> QED  BY <1>a, <2>1 DEF AskInv, AbortInv, GuardianMove
<1>3. ASSUME NEW d \in Calls
      PROVE  /\ Holds(d)' /\ Unlaunched(d)' /\ Joined(d)'
             /\ Retired(d)' /\ SealedFirst(d)' /\ Proved(d)'
  <2>1. /\ Holds(d) /\ Unlaunched(d) /\ Joined(d)
        /\ Retired(d) /\ SealedFirst(d) /\ Proved(d)
    BY <1>a DEF OwnerInv
  <2>2. CASE d # c
    <3>1. own'[d] = own[d] /\ guardian'[d] = guardian[d]
      BY <1>b, <1>c, <2>2 DEF GuardianMove
    <3>2. Holds(d)'
      BY <1>e, <2>2, <3>1 DEF GuardianMove, Holds
    <3> QED  BY <2>1, <3>1, <3>2 DEF GuardianMove, Unlaunched, Joined, Retired, SealedFirst,
                Proved, Sealed
  <2>3. CASE d = c
    <3>1. own'[c] = o
      BY <1>b
    <3>2. Holds(c)' /\ Unlaunched(c)'
      BY <1>d DEF GuardianMove, Holds, Unlaunched
    <3>3. Joined(c)'
      BY <2>1, <2>3 DEF GuardianMove, Joined
    <3>4. Retired(c)'
      BY <2>1, <2>3, <3>1 DEF GuardianMove, Retired
    <3>5. SealedFirst(c)'
      BY <2>1, <2>3, <3>1 DEF GuardianMove, SealedFirst, Sealed, Verdict
    <3>6. Proved(c)'
      <4> SUFFICES ASSUME guardian'[c] = "released"
                   PROVE  Proved(c)'
        BY DEF Proved
      <4>1. o = own[c] /\ Qualifies(c) /\ worker' = worker /\ slots' = slots
        BY DEF GuardianMove
      <4>2. own[c].bound = "created" => own[c].status \in Terminal
        <5>1. own[c].verdict \in Terminal
          BY <1>b, <2>1, <2>3, <4>1 DEF Qualifies, PartsProved, PublicationProved,
             SealedFirst, Sealed, Originals
        <5> QED  BY <4>1, <5>1 DEF Qualifies, PartsProved, PublicationProved
      <4> QED  BY <2>1, <2>3, <3>1, <4>1, <4>2 DEF Proved, Qualifies, PartsProved, Retired
    <3> QED  BY <2>3, <3>2, <3>3, <3>4, <3>5, <3>6
  <2> QED  BY <2>2, <2>3
<1>4. VerdictInv'
  <2> SUFFICES ASSUME NEW d \in Calls
               PROVE  /\ worker'[d] \in Undecided => ~Sealed(d)'
                      /\ own'[d].status \in Terminal => own'[d].status = own'[d].verdict
                      /\ own'[d].origin => own'[d].fired
                      /\ own'[d].origin /\ Sealed(d)' => own'[d].verdict = "cancelled"
    BY DEF VerdictInv
  <2>1. CASE d # c
    BY <1>a, <1>b, <2>1 DEF GuardianMove, VerdictInv, Sealed
  <2>2. CASE d = c
    <3>1. own'[c] = o
      BY <1>b
    <3> QED  BY <1>a, <2>2, <3>1 DEF GuardianMove, VerdictInv, Sealed, Verdict, Fired,
                Undecided, Live, Ended, Terminal
  <2> QED  BY <2>1, <2>2
<1> QED  BY <1>1, <1>2, <1>3, <1>4 DEF Safe, OwnerInv

-----------------------------------------------------------------------------
(* Admission and launch.                                                   *)

(* What a call of c may do before its launch: take a free admission, or     *)
(* give up the one it holds, with nothing left of it.                       *)
CallMove(c) ==
    /\ UNCHANGED <<scenario, closed, sessionCancel, aborts, slots, worker, guardian, own,
                   aborted, ask>>
    /\ call[c] # "launched"
    /\ call' = [call EXCEPT ![c] = call'[c]]
    /\ call'[c] \in {"leasing", "leased", "holding", "capturing", "registering",
                     "launching", "done"}
    /\ \/ call[c] = "idle" /\ active = None /\ active' = c
       \/ /\ call[c] \notin {"idle", "done"}
          /\ active' = IF call'[c] = "done" THEN None ELSE active
    /\ IF call'[c] = "launching"
         THEN registered = None /\ registered' = c
         ELSE registered' = registered /\ call[c] # "launching"

\* The steps before a launch are such moves.
LEMMA CallMoves ==
  ASSUME TypeOK, NEW c \in Calls,
         \/ Admit(c) \/ LeaseGranted(c) \/ LeaveAdmission(c) \/ CheckClosed(c)
         \/ EndFence(c) \/ Capture(c) \/ RegisterOriginal(c)
  PROVE  CallMove(c)
<1>a. call \in [Calls -> {"idle", "leasing", "leased", "holding", "capturing",
                          "registering", "launching", "launched", "done"}]
  BY DEF TypeOK
<1>1. CASE Admit(c)
  BY <1>1, <1>a DEF Admit, CallMove
<1>2. CASE LeaseGranted(c)
  BY <1>2, <1>a DEF LeaseGranted, CallMove, session
<1>3. CASE LeaveAdmission(c)
  BY <1>3, <1>a DEF LeaveAdmission, DropAdmission, CallMove
<1>4. CASE CheckClosed(c)
  BY <1>4, <1>a DEF CheckClosed, DropAdmission, CallMove, session
<1>5. CASE EndFence(c)
  BY <1>5, <1>a DEF EndFence, DropAdmission, CallMove
<1>6. CASE Capture(c)
  BY <1>6, <1>a DEF Capture, DropAdmission, CallMove, session
<1>7. CASE RegisterOriginal(c)
  BY <1>7, <1>a DEF RegisterOriginal, CallMove
<1> QED  BY <1>1, <1>2, <1>3, <1>4, <1>5, <1>6, <1>7

\* A call admitted or turned away overlaps with nothing.
LEMMA CallMoveSafe ==
  ASSUME Safe, NEW c \in Calls, CallMove(c)
  PROVE  Safe'
<1>a. TypeOK /\ OwnerInv /\ VerdictInv /\ AskInv /\ AbortInv
  BY DEF Safe
<1>b. call' \in [Calls -> {"idle", "leasing", "leased", "holding", "capturing",
                           "registering", "launching", "launched", "done"}]
  BY <1>a DEF CallMove, TypeOK
<1>c. guardian[c] = "none"
  BY <1>a DEF CallMove, OwnerInv, Unlaunched
<1>d. call[c] \notin {"idle", "done"} => active = c
  BY <1>a, <1>c DEF OwnerInv, Holds
<1>1. TypeOK'
  BY <1>a, <1>b DEF CallMove, TypeOK
<1>2. AskInv' /\ VerdictInv'
  BY <1>a DEF AskInv, VerdictInv, Sealed, CallMove
<1>3. ASSUME NEW d \in Calls
      PROVE  /\ Holds(d)' /\ Unlaunched(d)' /\ Joined(d)'
             /\ Retired(d)' /\ SealedFirst(d)' /\ Proved(d)'
  <2>1. /\ Holds(d) /\ Unlaunched(d) /\ Joined(d)
        /\ Retired(d) /\ SealedFirst(d) /\ Proved(d)
    BY <1>a DEF OwnerInv
  <2>2. Unlaunched(d)'
    BY <1>a, <1>b, <2>1 DEF CallMove, Unlaunched, TypeOK
  <2>3. Holds(d)'
    <3>1. CASE d = c
      BY <1>d, <3>1 DEF CallMove, Holds
    <3>2. CASE d # c
      <4>1. call'[d] = call[d]
        BY <1>a, <3>2 DEF CallMove, TypeOK
      <4>2. active = d => active' = d
        BY <1>a, <1>d, <3>2, NoneAssumption DEF CallMove
      <4> QED  BY <2>1, <3>2, <4>1, <4>2 DEF CallMove, Holds
    <3> QED  BY <3>1, <3>2
  <2> QED  BY <2>1, <2>2, <2>3 DEF CallMove, Joined, Retired, SealedFirst, Proved, Sealed
<1>4. AbortInv'
  <2>1. ASSUME NEW d \in Calls, call'[d] = "launching"
        PROVE  registered' = d
    <3>1. CASE d = c
      BY <2>1, <3>1 DEF CallMove
    <3>2. CASE d # c
      <4>1. call[d] = "launching"
        BY <1>a, <2>1, <3>2 DEF CallMove, TypeOK
      <4>2. registered = d
        BY <1>a, <4>1 DEF AbortInv
      <4> QED  BY <4>2, NoneAssumption DEF CallMove
    <3> QED  BY <3>1, <3>2
  <2>2. aborts' # None => aborts' = registered'
    BY <1>a DEF CallMove, AbortInv
  <2> QED  BY <1>a, <2>1, <2>2 DEF CallMove, AbortInv
<1> QED  BY <1>1, <1>2, <1>3, <1>4 DEF Safe, OwnerInv

\* So is the launch of a worker and of its guardian.
LEMMA LaunchSafe ==
  ASSUME Safe, NEW c \in Calls, Launch(c)
  PROVE  Safe'
<1>a. TypeOK /\ OwnerInv /\ VerdictInv /\ AskInv /\ AbortInv
  BY DEF Safe
<1>1. TypeOK'
  BY <1>a DEF Launch, TypeOK, Live
<1>2. AskInv' /\ AbortInv'
  <2>1. registered = c
    BY <1>a DEF Launch, AbortInv
  <2>2. \A d \in Calls : call'[d] = "launching" => call[d] = "launching"
    BY <1>a DEF Launch, TypeOK
  <2> QED  BY <1>a, <2>1, <2>2 DEF Launch, AskInv, AbortInv
<1>3. worker[c] = "none" /\ guardian[c] = "none" /\ active = c
  BY <1>a DEF Launch, OwnerInv, Unlaunched, Holds
<1>4. ASSUME NEW d \in Calls
      PROVE  /\ Holds(d)' /\ Unlaunched(d)' /\ Joined(d)'
             /\ Retired(d)' /\ SealedFirst(d)' /\ Proved(d)'
  <2>1. /\ Holds(d) /\ Unlaunched(d) /\ Joined(d)
        /\ Retired(d) /\ SealedFirst(d) /\ Proved(d)
    BY <1>a DEF OwnerInv
  <2>2. CASE d # c
    <3>1. call'[d] = call[d] /\ worker'[d] = worker[d] /\ guardian'[d] = guardian[d]
      BY <1>a, <2>2 DEF Launch, TypeOK
    <3> QED  BY <2>1, <3>1 DEF Launch, Holds, Unlaunched, Joined, Retired, SealedFirst,
                Proved, Sealed
  <2>3. CASE d = c
    <3>1. call'[c] = "launched" /\ worker'[c] = "start" /\ guardian'[c] = "watching"
      BY <1>a DEF Launch, TypeOK
    <3> QED  BY <1>3, <2>1, <2>3, <3>1 DEF Launch, Holds, Unlaunched, Joined, Retired,
                SealedFirst, Proved, Sealed
  <2> QED  BY <2>2, <2>3
<1>5. VerdictInv'
  <2>1. \A d \in Calls : worker'[d] \in Undecided => worker[d] \in Undecided
    BY <1>a, <1>3 DEF Launch, TypeOK, Undecided
  <2> QED  BY <1>a, <2>1 DEF Launch, VerdictInv, Sealed
<1> QED  BY <1>1, <1>2, <1>4, <1>5 DEF Safe, OwnerInv

-----------------------------------------------------------------------------
(* cancel_and_settle() and close().                                        *)

(* An asker goes on: it keeps to the original it found.  Only the           *)
(* registered original's worker is aborted, for an asker that found it.     *)
AskMove ==
    /\ UNCHANGED <<scenario, active, registered, aborts, slots, call, worker, guardian>>
    /\ closed' \in BOOLEAN /\ sessionCancel' \in BOOLEAN
    /\ ask' \in [Askers -> [pc : {"idle", "ask", "seal", "cancel", "wait", "abortWait",
                                  "idleWait", "done"},
                            target : Calls \cup {None},
                            inbox : {"unobserved", "absent", "bound"}]]
    /\ \A a \in Askers :
         /\ ask[a].pc # "idle" => ask'[a].pc # "idle" /\ ask'[a].target = ask[a].target
         /\ ask'[a].pc \in {"ask", "seal", "wait", "abortWait"} => ask'[a].target # None
    /\ aborted' = aborted \/ \E a \in Askers : /\ aborted' = aborted \cup {aborts}
                                              /\ aborts = ask[a].target
                                              /\ aborts \in Calls
                                              /\ ask[a].pc # "idle"

\* Every step of an asker is such a move.
LEMMA AskMoves ==
  ASSUME Safe,
         \/ \E h \in Hosts : Observe(h)
         \/ EnterClose \/ CancelSession
         \/ \E a \in Askers : Asking(a)
  PROVE  AskMove
<1>a. TypeOK /\ AskInv /\ AbortInv
  BY DEF Safe
<1>b. closed \in BOOLEAN /\ sessionCancel \in BOOLEAN /\ registered \in Calls \cup {None}
  BY <1>a DEF TypeOK
<1>c. ask \in [Askers -> [pc : {"idle", "ask", "seal", "cancel", "wait", "abortWait",
                                "idleWait", "done"},
                          target : Calls \cup {None},
                          inbox : {"unobserved", "absent", "bound"}]]
  BY <1>a DEF TypeOK
<1>d. \A a \in Askers : ask[a].pc \in {"ask", "seal", "wait", "abortWait"} =>
                          ask[a].target \in Calls
  BY <1>a, <1>c DEF AskInv
<1>e. Closer \in Askers
  BY DEF Askers
<1>1. ASSUME NEW h \in Hosts, Observe(h)
      PROVE  AskMove
  <2>1. h \in Askers
    BY DEF Askers
  <2> QED  BY <1>1, <1>b, <1>c, <1>d, <2>1, NoneAssumption
              DEF Observe, AskOnly, AskMove, session
<1>2. CASE EnterClose
  BY <1>2, <1>b, <1>c, <1>d, <1>e, NoneAssumption DEF EnterClose, AskMove
<1>3. CASE CancelSession
  BY <1>3, <1>b, <1>c, <1>d, <1>e, NoneAssumption DEF CancelSession, AskGoes, AskMove
<1>4. ASSUME NEW a \in Askers, Ask(a)
      PROVE  AskMove
  <2>1. own[ask[a].target].inbox \in {"unobserved", "absent", "bound"}
    BY <1>4, <1>a, <1>d DEF Ask, TypeOK, Originals
  <2> DEFINE i == own[ask[a].target].inbox
  <2>2. \/ ask' = [ask EXCEPT ![a].pc = "seal", ![a].inbox = i]
        \/ ask' = [ask EXCEPT ![a].pc = AfterRequest(a)]
    BY <1>4 DEF Ask
  <2> HIDE DEF i
  <2> QED  BY <1>4, <1>b, <1>c, <1>d, <2>1, <2>2, NoneAssumption
              DEF Ask, AfterRequest, AskOnly, AskMove, session, i
<1>5. ASSUME NEW a \in Askers, Fire(a)
      PROVE  AskMove
  BY <1>5, <1>b, <1>c, <1>d, NoneAssumption DEF Fire, AfterRequest, AskMove, session
<1>6. ASSUME NEW a \in Askers, SeeRelease(a)
      PROVE  AskMove
  BY <1>6, <1>b, <1>c, <1>d, NoneAssumption DEF SeeRelease, AskOnly, AskMove, session
<1>7. ASSUME NEW a \in Askers, AbortWorker(a)
      PROVE  AskMove
  <2>1. aborts = ask[a].target /\ aborts \in Calls /\ ask[a].pc = "wait"
    BY <1>7, <1>a, <1>d DEF AbortWorker, AskGoes, MayAbort, AbortInv
  <2> QED  BY <1>7, <1>b, <1>c, <1>d, <2>1, NoneAssumption
              DEF AbortWorker, AskGoes, AskMove, session
<1>8. ASSUME NEW a \in Askers, GiveUp(a)
      PROVE  AskMove
  BY <1>8, <1>b, <1>c, <1>d, NoneAssumption DEF GiveUp, AskGoes, AskOnly, AskMove, session
<1> QED  BY <1>1, <1>2, <1>3, <1>4, <1>5, <1>6, <1>7, <1>8 DEF Asking

\* A request touches one original, before its verdict.
LEMMA FireMoves ==
  ASSUME TypeOK, AskInv, NEW a \in Askers, Fire(a)
  PROVE  \/ own' = own
         \/ \E c \in Calls, o \in Originals :
              /\ own' = [own EXCEPT ![c] = o]
              /\ ~Sealed(c)
              /\ o.slotsRetired = own[c].slotsRetired /\ o.verdict = own[c].verdict
              /\ o.complete = own[c].complete /\ o.status = own[c].status
              /\ o.model = own[c].model /\ o.committer = own[c].committer
              /\ o.bound = own[c].bound /\ o.inbox = own[c].inbox
              /\ o.controls = own[c].controls /\ o.fired
<1>1. ask[a].target \in Calls /\ own \in [Calls -> Originals]
  BY DEF TypeOK, AskInv, Fire
<1> DEFINE c == ask[a].target
<1>2. own[c] \in Originals
  BY <1>1
<1> DEFINE e == [own[c] EXCEPT !.fired = TRUE, !.origin = TRUE]
<1>3. /\ e \in Originals
      /\ e.slotsRetired = own[c].slotsRetired /\ e.verdict = own[c].verdict
      /\ e.complete = own[c].complete /\ e.status = own[c].status
      /\ e.model = own[c].model /\ e.committer = own[c].committer
      /\ e.bound = own[c].bound /\ e.inbox = own[c].inbox
      /\ e.controls = own[c].controls /\ e.fired
  BY <1>2 DEF Originals
<1>4. CASE MayFire(a, c)
  <2>1. own' = [own EXCEPT ![c] = e]
    BY <1>1, <1>4 DEF Fire
  <2>2. ~Sealed(c)
    BY <1>4 DEF MayFire, CanRequest
  <2> HIDE DEF e
  <2> QED  BY <1>1, <1>3, <2>1, <2>2
<1>5. CASE ~MayFire(a, c)
  BY <1>5 DEF Fire
<1> QED  BY <1>4, <1>5

\* Whatever an asker does is safe.
LEMMA AskSafe ==
  ASSUME Safe,
         \/ \E h \in Hosts : Observe(h)
         \/ EnterClose \/ CancelSession
         \/ \E a \in Askers : Asking(a)
  PROVE  Safe'
<1>a. TypeOK /\ OwnerInv /\ VerdictInv /\ AskInv /\ AbortInv
  BY DEF Safe
<1>b. AskMove
  BY AskMoves
<1>1. AskInv'
  BY <1>b DEF AskMove, AskInv
<1>2. AbortInv'
  <2>1. ASSUME NEW c \in aborted'
        PROVE  \E a \in Askers : ask'[a].target = c /\ ask'[a].pc # "idle"
    <3>1. PICK a \in Askers : ask[a].target = c /\ ask[a].pc # "idle"
      BY <1>a, <1>b, <2>1 DEF AskMove, AbortInv
    <3> QED  BY <1>b, <3>1 DEF AskMove
  <2> QED  BY <1>a, <1>b, <2>1 DEF AskMove, AbortInv
<1>3. aborted' \subseteq Calls
  BY <1>a, <1>b DEF AskMove, TypeOK
<1>4. CASE own' = own
  <2>1. TypeOK'
    BY <1>a, <1>b, <1>3, <1>4 DEF AskMove, TypeOK
  <2>2. OwnerInv' /\ VerdictInv'
    BY <1>a, <1>b, <1>4 DEF AskMove, OwnerInv, VerdictInv, Holds, Unlaunched, Joined, Retired,
       SealedFirst, Proved, Sealed
  <2> QED  BY <1>1, <1>2, <2>1, <2>2 DEF Safe
<1>5. CASE own' # own
  <2>1. PICK a \in Askers : Fire(a)
    BY <1>5 DEF Observe, EnterClose, CancelSession, Asking, Ask, SeeRelease, AbortWorker,
       GiveUp, AskOnly
  <2>2. PICK c \in Calls, o \in Originals :
          /\ own' = [own EXCEPT ![c] = o]
          /\ ~Sealed(c)
          /\ o.slotsRetired = own[c].slotsRetired /\ o.verdict = own[c].verdict
          /\ o.complete = own[c].complete /\ o.status = own[c].status
          /\ o.model = own[c].model /\ o.committer = own[c].committer
          /\ o.bound = own[c].bound /\ o.inbox = own[c].inbox
          /\ o.controls = own[c].controls /\ o.fired
    BY <1>a, <1>5, <2>1, FireMoves
  <2>3. own \in [Calls -> Originals] /\ own' \in [Calls -> Originals]
    BY <1>a, <2>2 DEF TypeOK
  <2>4. /\ own'[c].slotsRetired = own[c].slotsRetired /\ own'[c].verdict = own[c].verdict
        /\ own'[c].complete = own[c].complete /\ own'[c].status = own[c].status
        /\ own'[c].model = own[c].model /\ own'[c].committer = own[c].committer
        /\ own'[c].bound = own[c].bound /\ own'[c].inbox = own[c].inbox
        /\ own'[c].controls = own[c].controls /\ own'[c].fired
    BY <2>2, <2>3
  <2>5. \A d \in Calls : d # c => own'[d] = own[d]
    BY <2>2, <2>3
  <2>6. TypeOK'
    BY <1>a, <1>b, <1>3, <2>3 DEF AskMove, TypeOK
  <2>7. ASSUME NEW d \in Calls
        PROVE  /\ Holds(d)' /\ Unlaunched(d)' /\ Joined(d)'
               /\ Retired(d)' /\ SealedFirst(d)' /\ Proved(d)'
    <3>1. CASE d = c
      BY <1>a, <1>b, <2>4, <3>1 DEF AskMove, OwnerInv, Holds, Unlaunched, Joined, Retired,
         SealedFirst, Proved, Sealed
    <3>2. CASE d # c
      BY <1>a, <1>b, <2>5, <3>2 DEF AskMove, OwnerInv, Holds, Unlaunched, Joined, Retired,
         SealedFirst, Proved, Sealed
    <3> QED  BY <3>1, <3>2
  <2>8. VerdictInv'
    BY <1>a, <1>b, <2>2, <2>4, <2>5 DEF AskMove, VerdictInv, Sealed
  <2> QED  BY <1>1, <1>2, <2>6, <2>7, <2>8 DEF Safe, OwnerInv
<1> QED  BY <1>4, <1>5

-----------------------------------------------------------------------------
(* The specification.                                                      *)

\* The initial states have the invariant.
LEMMA InitSafe == Init => Safe
<1> SUFFICES ASSUME Init
             PROVE  Safe
  OBVIOUS
<1>1. NewOriginal \in Originals
  BY DEF NewOriginal, Originals
<1>2. TypeOK
  BY <1>1 DEF Init, TypeOK, NewAsk
<1>3. /\ NewOriginal.slotsRetired = FALSE /\ NewOriginal.complete = FALSE
      /\ NewOriginal.verdict = "open" /\ NewOriginal.status = "none"
      /\ NewOriginal.origin = FALSE /\ NewOriginal.model = "vacant"
      /\ NewOriginal.committer = "unobserved" /\ NewOriginal.bound = "unobserved"
      /\ NewOriginal.inbox = "unobserved"
  BY DEF NewOriginal
<1>4. \A c \in Calls : own[c] = NewOriginal
  BY DEF Init
<1>5. OwnerInv
  BY <1>3, <1>4, NoneAssumption DEF Init, OwnerInv, Holds, Unlaunched, Joined, Retired,
     SealedFirst, Proved, Sealed
<1>6. VerdictInv
  BY <1>3, <1>4 DEF Init, VerdictInv, Sealed, Terminal
<1>7. AskInv /\ AbortInv
  BY DEF Init, AskInv, AbortInv, NewAsk
<1> QED  BY <1>2, <1>5, <1>6, <1>7 DEF Safe

\* Every step keeps it.
LEMMA NextSafe == Safe /\ [Next]_vars => Safe'
<1> SUFFICES ASSUME Safe, [Next]_vars
             PROVE  Safe'
  OBVIOUS
<1>a. TypeOK /\ \A c \in Calls : Joined(c) /\ SealedFirst(c)
  BY DEF Safe, OwnerInv
<1>1. ASSUME NEW c \in Calls, WorkerStep(c) \/ LoseWorker(c)
      PROVE  Safe'
  BY <1>1, <1>a, WorkerMoves, WorkerMoveSafe
<1>2. ASSUME NEW c \in Calls,
             \/ CallModel(c) \/ ModelReturns(c) \/ CommitterEnds(c) \/ CommitterFails(c)
             \/ DropObserver(c)
      PROVE  Safe'
  BY <1>2, <1>a, TaskMoves, TaskMoveSafe
<1>3. ASSUME NEW c \in Calls, GuardianStep(c)
      PROVE  Safe'
  BY <1>3, <1>a, GuardianMoves, GuardianMoveSafe
<1>4. ASSUME NEW c \in Calls, Admission(c)
      PROVE  Safe'
  <2>1. CASE DropObserver(c)
    BY <1>2, <2>1
  <2>2. CASE Launch(c)
    BY <2>2, LaunchSafe
  <2>3. CASE \/ Admit(c) \/ LeaseGranted(c) \/ LeaveAdmission(c) \/ CheckClosed(c)
             \/ EndFence(c) \/ Capture(c) \/ RegisterOriginal(c)
    BY <1>a, <2>3, CallMoves, CallMoveSafe
  <2> QED  BY <1>4, <2>1, <2>2, <2>3 DEF Admission
<1>5. CASE UNCHANGED vars
  BY <1>5 DEF vars, session, Safe, TypeOK, OwnerInv, VerdictInv, AskInv, AbortInv, Holds,
     Unlaunched, Joined, Retired, SealedFirst, Proved, Sealed
<1> QED  BY <1>1, <1>2, <1>3, <1>4, <1>5, AskSafe DEF Next

\* Every state of the run owner is typed and has the invariant.
THEOREM RunsSafe == Spec => []Safe
BY InitSafe, NextSafe, PTL DEF Spec

\* The variables of the run owner keep their types, for any number of operations.
THEOREM RunsTyped == Spec => []TypeOK
<1>1. Safe => TypeOK
  BY DEF Safe
<1> QED  BY <1>1, RunsSafe, PTL

\* The operations of a session never overlap: whoever has a worker, a guardian,
\* a model call, a committer, the slots or an undecided record holds the
\* session's admission (run_admission.rs frees it on proof of the end only).
THEOREM SingleFlightAlways == Spec => []SingleFlight
<1>1. Safe => SingleFlight
  <2> SUFFICES ASSUME Safe, NEW c \in Calls, Open(c)
               PROVE  active = c
    BY DEF SingleFlight
  <2>1. /\ Holds(c) /\ Unlaunched(c) /\ Proved(c)
        /\ worker[c] \in {"none"} \cup Live \cup Ended
    BY DEF Safe, OwnerInv, TypeOK
  <2>2. call[c] = "launched"
    BY <2>1 DEF Open, Unlaunched, Live
  <2>3. guardian[c] # "released"
    BY <2>1 DEF Open, Proved, Live
  <2> QED  BY <2>1, <2>2, <2>3 DEF Holds
<1> QED  BY <1>1, RunsSafe, PTL

\* An accepted cancellation is what gets recorded, whether the worker or the
\* guardian publishes the end of the run.
THEOREM CancelHonouredAlways == Spec => []CancelHonoured
<1>1. Safe => CancelHonoured
  <2> SUFFICES ASSUME Safe, NEW c \in Calls, own[c].origin,
                      own[c].status \in {"completed", "failed"}
               PROVE  FALSE
    BY DEF CancelHonoured
  <2>1. own[c].status = own[c].verdict
    BY DEF Safe, VerdictInv, Terminal
  <2> QED  BY <2>1 DEF Safe, VerdictInv, Sealed
<1> QED  BY <1>1, RunsSafe, PTL

\* An abort reaches only a run that its caller had observed.
THEOREM LaterUntouchedAlways == Spec => []LaterUntouched
<1>1. Safe => LaterUntouched
  BY DEF Safe, AbortInv, LaterUntouched
<1> QED  BY <1>1, RunsSafe, PTL

=============================================================================
