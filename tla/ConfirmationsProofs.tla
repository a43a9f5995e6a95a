------------------------ MODULE ConfirmationsProofs ------------------------
(***************************************************************************)
(* Proofs about Confirmations, for any calls, ids and delegation.  The     *)
(* invariant adds to the two properties how a manager's map, its channels  *)
(* and the calls that have asked it belong together.                       *)
(***************************************************************************)
EXTENDS Confirmations, TLAPS

\* A manager's map holds requests under their own ids, of calls that asked it.
Keyed ==
  \A m \in Managers, i \in Ids :
    pending[m][i] # None =>
      IdOf[pending[m][i]] = i /\ pending[m][i] \in asked[m]

\* Nobody answers a request that was not made.
UnaskedUnanswered ==
  \A m \in Managers, c \in Calls : c \notin asked[m] => reply[m][c] = "none"

\* An approval in a channel comes from the host.
ApprovedGranted ==
  \A m \in Managers, c \in Calls :
    reply[m][c] = "approved" => c \in granted[m]

\* What a call has to ask is fixed from its beginning until its approval.
AsksFixed ==
  \A c \in Calls :
    /\ pc[c] \in {"idle", "denied"} =>
         asks[c] = {} /\ \A m \in Managers : c \notin asked[m]
    /\ pc[c] \in {"asking", "waiting", "approved"} => asks[c] \in Asks[c]

Inv ==
  /\ TypeOK /\ Keyed /\ UndecidedIsPending /\ UnaskedUnanswered
  /\ ApprovedGranted /\ AsksFixed /\ ApprovalIsReal

\* The part of the invariant about the managers' state.
ManagerInv == Keyed /\ UndecidedIsPending /\ UnaskedUnanswered /\ ApprovedGranted

\* The initial state satisfies the invariant.
LEMMA InitInv == Init => Inv
BY NoneIsNoCall
DEF Init, Inv, TypeOK, Keyed, UndecidedIsPending, UnaskedUnanswered,
    ApprovedGranted, AsksFixed, ApprovalIsReal, Managers

\* Settling a request under any id with a rejection keeps the managers' state.
LEMMA SettleInv ==
  ASSUME Inv, NEW m \in Managers, NEW i \in Ids, Settle(m, i, "rejected"),
         asked' = asked, granted' = granted
  PROVE  /\ ManagerInv'
         /\ pending' \in [Managers -> [Ids -> Calls \cup {None}]]
         /\ reply' \in [Managers -> [Calls -> {"none", "approved", "rejected"}]]
BY NoneIsNoCall, IdsType
DEF Inv, ManagerInv, TypeOK, Settle, Keyed, UndecidedIsPending,
    UnaskedUnanswered, ApprovedGranted

\* The same for an answer of the host, whose approval is granted at once.
LEMMA ConfirmInv ==
  ASSUME Inv, NEW m \in Managers, NEW i \in Ids, NEW approved \in BOOLEAN,
         Confirm(m, i, approved)
  PROVE  Inv'
<1> USE NoneIsNoCall, IdsType DEF Inv, Confirm, Settle, delegation
<1>1. TypeOK'
  BY DEF TypeOK
<1>2. Keyed' /\ UnaskedUnanswered'
  BY DEF TypeOK, Keyed, UnaskedUnanswered
<1>3. UndecidedIsPending'
  BY DEF TypeOK, Keyed, UndecidedIsPending
<1>4. ApprovedGranted'
  BY DEF TypeOK, ApprovedGranted
<1>5. AsksFixed' /\ ApprovalIsReal'
  BY DEF TypeOK, AsksFixed, ApprovalIsReal
<1> QED  BY <1>1, <1>2, <1>3, <1>4, <1>5

\* Draining a manager answers every request it held.
LEMMA DrainInv ==
  ASSUME Inv, DrainAll("parent"),
         UNCHANGED <<delegation, pc, expired, granted>>,
         cancelled' \subseteq Calls, close' \in {"open", "cancelling", "closed"}
  PROVE  Inv'
<1> USE NoneIsNoCall, IdsType DEF Inv, DrainAll, delegation, Managers
<1>1. TypeOK'
  BY DEF TypeOK
<1>2. Keyed' /\ UnaskedUnanswered' /\ ApprovedGranted'
  BY DEF TypeOK, Keyed, UnaskedUnanswered, ApprovedGranted
<1>3. UndecidedIsPending'
  BY DEF TypeOK, Keyed, UndecidedIsPending
<1>4. AsksFixed' /\ ApprovalIsReal'
  BY DEF TypeOK, AsksFixed, ApprovalIsReal
<1> QED  BY <1>1, <1>2, <1>3, <1>4

\* A request: alone under its id it becomes pending, otherwise both are answered.
LEMMA AskInv ==
  ASSUME Inv, NEW c \in Calls, NEW m \in Managers, Ask(c, m)
  PROVE  Inv'
<1> DEFINE i == IdOf[c]
           other == pending[m][i]
<1>1. /\ i \in Ids /\ c \notin asked[m] /\ m \in asks[c] /\ reply[m][c] = "none"
      /\ asked' = [asked EXCEPT ![m] = @ \cup {c}]
      /\ UNCHANGED <<asks, forwarded, cancelled, expired, close, granted>>
  BY IdsType DEF Inv, UnaskedUnanswered, Ask
<1>2. /\ pc' \in [Calls -> {"idle", "asking", "waiting", "denied", "leaving",
                             "leavingParent", "approved", "rejected"}]
      /\ pc[c] = "asking" /\ pc'[c] \in {"asking", "waiting"}
      /\ \A d \in Calls \ {c} : pc'[d] = pc[d]
  BY DEF Inv, TypeOK, Ask, Goto
<1>3. (AsksFixed /\ ApprovalIsReal)'
  BY <1>1, <1>2 DEF Inv, TypeOK, AsksFixed, ApprovalIsReal
<1>4. CASE other = None
  <2>1. pending' = [pending EXCEPT ![m][i] = c] /\ reply' = reply
    BY <1>4 DEF Ask, RequestConfirmation
  <2>2. TypeOK'
    BY <1>1, <1>2, <2>1 DEF Inv, TypeOK
  <2>3. (Keyed /\ UnaskedUnanswered /\ ApprovedGranted)'
    BY <1>1, <2>1, NoneIsNoCall
    DEF Inv, TypeOK, Keyed, UnaskedUnanswered, ApprovedGranted
  <2>4. UndecidedIsPending'
    BY <1>1, <1>4, <2>1, NoneIsNoCall DEF Inv, TypeOK, Keyed, UndecidedIsPending
  <2> QED  BY <1>3, <2>2, <2>3, <2>4 DEF Inv
<1>5. CASE other # None
  <2>1. /\ pending' = [pending EXCEPT ![m][i] = None]
        /\ reply' = [reply EXCEPT ![m][other] = "rejected", ![m][c] = "rejected"]
    BY <1>5 DEF Ask, RequestConfirmation
  <2>2. other \in Calls /\ other \in asked[m] /\ IdOf[other] = i
    BY <1>1, <1>5 DEF Inv, TypeOK, Keyed
  <2>3. TypeOK'
    BY <1>1, <1>2, <2>1, <2>2 DEF Inv, TypeOK
  <2>4. (Keyed /\ UnaskedUnanswered /\ ApprovedGranted)'
    BY <1>1, <2>1, <2>2, NoneIsNoCall
    DEF Inv, TypeOK, Keyed, UnaskedUnanswered, ApprovedGranted
  <2>5. UndecidedIsPending'
    BY <1>1, <2>1, <2>2, NoneIsNoCall
    DEF Inv, TypeOK, Keyed, UndecidedIsPending
  <2> QED  BY <1>3, <2>3, <2>4, <2>5 DEF Inv
<1> QED  BY <1>4, <1>5

\* The steps of a call that leave the managers alone.
LEMMA QuietInv ==
  ASSUME Inv, NEW c \in Calls,
         \/ BeginRequest(c) \/ Receive(c) \/ GiveUp(c) \/ Expire(c)
         \/ CancelCall(c)
  PROVE  Inv'
<1>1. UNCHANGED <<pending, reply, asked, granted>>
  BY DEF BeginRequest, Receive, GiveUp, Expire, CancelCall, manager, delegation
<1>2. (Keyed /\ UndecidedIsPending /\ UnaskedUnanswered /\ ApprovedGranted)'
  BY <1>1 DEF Inv, Keyed, UndecidedIsPending, UnaskedUnanswered, ApprovedGranted
<1>3. (TypeOK /\ AsksFixed /\ ApprovalIsReal)'
  <2> USE <1>1, NoneIsNoCall, IdsType, AsksType
      DEF Inv, TypeOK, AsksFixed, ApprovalIsReal, Goto, delegation
  <2>1. CASE BeginRequest(c)
    <3>1. \A m \in Managers : c \notin asked[m]
      BY <2>1 DEF BeginRequest
    <3>2. CASE pc' = [pc EXCEPT ![c] = "denied"] /\ UNCHANGED <<asks, forwarded>>
      BY <2>1, <3>2 DEF BeginRequest
    <3>3. ASSUME NEW ms \in Asks[c],
                 asks' = [asks EXCEPT ![c] = ms], forwarded' \subseteq Ids,
                 pc' = [pc EXCEPT ![c] = IF ms = {} THEN "waiting" ELSE "asking"],
                 UNCHANGED <<cancelled, expired, close>>
          PROVE  (TypeOK /\ AsksFixed /\ ApprovalIsReal)'
      <4>1. ms \subseteq Managers
        BY <3>3
      <4>2. TypeOK'
        BY <3>1, <3>3, <4>1
      <4>3. (AsksFixed /\ ApprovalIsReal)'
        BY <3>1, <3>3, <4>1
      <4> QED  BY <4>2, <4>3
    <3>4. CASE \E ms \in Asks[c] :
                 /\ asks' = [asks EXCEPT ![c] = ms]
                 /\ forwarded' \in {forwarded, forwarded \cup {IdOf[c]}}
                 /\ pc' = [pc EXCEPT ![c] = IF ms = {} THEN "waiting" ELSE "asking"]
      <4>1. PICK ms \in Asks[c] :
                 /\ asks' = [asks EXCEPT ![c] = ms]
                 /\ forwarded' \in {forwarded, forwarded \cup {IdOf[c]}}
                 /\ pc' = [pc EXCEPT ![c] = IF ms = {} THEN "waiting" ELSE "asking"]
        BY <3>4
      <4>2. forwarded' \subseteq Ids
        BY <4>1
      <4>3. UNCHANGED <<cancelled, expired, close>>
        BY <2>1 DEF BeginRequest
      <4> QED  BY <3>3, <4>1, <4>2, <4>3
    <3> QED  BY <2>1, <3>2, <3>4 DEF BeginRequest
  <2>2. CASE Receive(c)
    <3>1. UNCHANGED <<asks, forwarded, cancelled, expired, close>>
      BY <2>2 DEF Receive
    <3>2. CASE pc' = [pc EXCEPT ![c] = "rejected"]
      BY <3>1, <3>2
    <3>3. CASE pc[c] = "waiting" /\ Approved(c) /\ pc' = [pc EXCEPT ![c] = "approved"]
      <4>1. asks[c] \in Asks[c] /\ asks[c] \subseteq Managers
        BY <3>3
      <4>2. \A m \in asks[c] : c \in granted[m]
        BY <3>3, <4>1 DEF Approved, ApprovedGranted
      <4> QED  BY <3>1, <3>3, <4>1, <4>2
    <3> QED  BY <2>2, <3>2, <3>3 DEF Receive
  <2>3. CASE GiveUp(c)
    BY <2>3 DEF GiveUp
  <2>4. CASE Expire(c)
    BY <2>4 DEF Expire
  <2>5. CASE CancelCall(c)
    BY <2>5 DEF CancelCall
  <2> QED  BY <2>1, <2>2, <2>3, <2>4, <2>5
<1> QED  BY <1>2, <1>3 DEF Inv

\* The two steps in which a call gives its requests up.
LEMMA LeaveInv ==
  ASSUME Inv, NEW c \in Calls, Leave(c) \/ LeaveParent(c)
  PROVE  Inv'
<1> USE IdsType DEF Leave, LeaveParent, Goto, delegation
<1>1. IdOf[c] \in Ids /\ asked' = asked /\ granted' = granted
  OBVIOUS
<1>2. \E m \in Managers : Settle(m, IdOf[c], "rejected")
  BY DEF Managers
<1>3. /\ ManagerInv'
      /\ pending' \in [Managers -> [Ids -> Calls \cup {None}]]
      /\ reply' \in [Managers -> [Calls -> {"none", "approved", "rejected"}]]
  BY <1>1, <1>2, SettleInv
<1>4. /\ pc' \in [Calls -> {"idle", "asking", "waiting", "denied", "leaving",
                             "leavingParent", "approved", "rejected"}]
      /\ pc'[c] \in {"leavingParent", "rejected"}
      /\ \A d \in Calls \ {c} : pc'[d] = pc[d]
      /\ UNCHANGED <<asks, cancelled, expired, close>> /\ forwarded' \subseteq forwarded
  BY DEF Inv, TypeOK
<1>5. (TypeOK /\ AsksFixed /\ ApprovalIsReal)'
  BY <1>1, <1>3, <1>4 DEF Inv, TypeOK, AsksFixed, ApprovalIsReal
<1> QED  BY <1>3, <1>5 DEF Inv, ManagerInv

\* Every step keeps the invariant.
LEMMA NextInv == Inv /\ [Next]_vars => Inv'
<1> SUFFICES ASSUME Inv, [Next]_vars  PROVE Inv'
  OBVIOUS
<1>1. ASSUME NEW c \in Calls, BeginRequest(c) \/ CallStep(c) \/ Expire(c) \/ CancelCall(c)
      PROVE  Inv'
  BY <1>1, AskInv, QuietInv, LeaveInv DEF CallStep
<1>2. ASSUME NEW m \in Managers, NEW i \in Ids, NEW approved \in BOOLEAN,
             Confirm(m, i, approved)
      PROVE  Inv'
  BY <1>2, ConfirmInv
<1>3. CASE CancelConfirmations \/ CancelAll
  BY <1>3, DrainInv DEF CancelConfirmations, CancelAll, Inv, TypeOK
<1>4. CASE CancelSession
  BY <1>4 DEF CancelSession, manager, delegation, Inv, TypeOK, Keyed,
     UndecidedIsPending, UnaskedUnanswered, ApprovedGranted, AsksFixed, ApprovalIsReal
<1>5. CASE UNCHANGED vars
  BY <1>5 DEF vars, manager, delegation, Inv, TypeOK, Keyed,
     UndecidedIsPending, UnaskedUnanswered, ApprovedGranted, AsksFixed, ApprovalIsReal
<1> QED  BY <1>1, <1>2, <1>3, <1>4, <1>5 DEF Next

----------------------------------------------------------------------------
(* What a call leaves behind.                                              *)

\* A call of the parent asks nobody else and has nothing to forward.
ParentCalls ==
  \A c \in Calls : ~Delegated(c) =>
    c \notin asked["child"] /\ pc[c] # "leavingParent"

\* The delegation remembers the id of a call that may have asked the parent.
Forwards ==
  \A c \in Calls :
    Delegated(c) /\ "parent" \in asks[c] /\ pc[c] \in {"asking", "waiting", "leaving"} =>
      IdOf[c] \in forwarded \/ ForwardLost(c)

\* A call that has left the child's manager has no request there.
LeftChild ==
  \A c \in Calls :
    pc[c] = "leavingParent" /\ c \in asked["child"] =>
      pending["child"][IdOf[c]] # c

Left == ParentCalls /\ Forwards /\ LeftChild /\ NoDeadRequest

\* A lost forward stays lost.
LEMMA LostStable ==
  ASSUME Inv, [Next]_vars, NEW c \in Calls, ForwardLost(c)
  PROVE  ForwardLost(c)'
<1>1. expired \subseteq expired'
  BY DEF Next, vars, CallStep, BeginRequest, Ask, Receive, GiveUp, Expire, Leave,
     LeaveParent, CancelCall, Confirm, CancelConfirmations, CancelSession, CancelAll
<1>2. ASSUME NEW d \in Calls, pc[d] \in {"leaving", "leavingParent", "rejected"}
      PROVE  pc'[d] \in {"leaving", "leavingParent", "rejected"}
  <2>1. CASE pc' = pc
    BY <1>2, <2>1
  <2>2. ASSUME NEW e \in Calls,
               BeginRequest(e) \/ CallStep(e) \/ Expire(e) \/ CancelCall(e)
        PROVE  pc'[d] \in {"leaving", "leavingParent", "rejected"}
    BY <1>2, <2>2 DEF Inv, TypeOK, CallStep, BeginRequest, Ask, Receive, GiveUp,
       Expire, Leave, LeaveParent, CancelCall, Goto
  <2> QED  BY <2>1, <2>2 DEF Next, vars, Confirm, CancelConfirmations,
              CancelSession, CancelAll
<1> QED  BY <1>1, <1>2 DEF ForwardLost, Delegated

\* A step that changes a manager's map only by removing requests, and moves no
\* call, leaves nothing new behind.
LEMMA RemovalLeft ==
  ASSUME Inv, Left, UNCHANGED <<asks, asked, forwarded, pc, expired>>,
         \A m \in Managers, i \in Ids : pending'[m][i] \in {pending[m][i], None}
  PROVE  Left'
<1>1. ParentCalls' /\ Forwards'
  BY DEF Left, ParentCalls, Forwards, Delegated, ForwardLost
<1>2. \A m \in Managers, c \in Calls :
        pending'[m][IdOf[c]] = c => pending[m][IdOf[c]] = c
  BY NoneIsNoCall, IdsType
<1>3. LeftChild'
  BY <1>2 DEF Left, LeftChild, Managers
<1>4. NoDeadRequest'
  <2> SUFFICES ASSUME NEW m \in Managers, NEW d \in asked'[m], Over(d)',
                      pending'[m][IdOf[d]] = d
               PROVE  m = "parent" /\ Delegated(d) /\ ForwardLost(d)'
    BY DEF NoDeadRequest, Delegated
  <2>1. d \in Calls /\ d \in asked[m] /\ Over(d) /\ pending[m][IdOf[d]] = d
    BY <1>2 DEF Over, Inv, TypeOK
  <2> QED  BY <2>1 DEF Left, NoDeadRequest, ForwardLost, Delegated
<1> QED  BY <1>1, <1>3, <1>4 DEF Left

\* A request concerns a call that is not over.
LEMMA AskLeft ==
  ASSUME Inv, Left, Inv', [Next]_vars, NEW c \in Calls, NEW m \in Managers, Ask(c, m)
  PROVE  Left'
<1>1. /\ pc[c] = "asking" /\ pc'[c] \in {"asking", "waiting"}
      /\ \A d \in Calls \ {c} : pc'[d] = pc[d]
      /\ m \in asks[c] /\ UNCHANGED <<asks, forwarded, expired>>
      /\ asked' = [asked EXCEPT ![m] = @ \cup {c}]
  BY DEF Inv, TypeOK, Ask, Goto
<1>2. \A n \in Managers, d \in Calls :
        d # c /\ pending'[n][IdOf[d]] = d => pending[n][IdOf[d]] = d
  BY IdsType, NoneIsNoCall DEF Ask, RequestConfirmation, Inv, TypeOK
<1>3. ParentCalls'
  <2>1. ~Delegated(c) => m # "child"
    BY <1>1 DEF Inv, AsksFixed, Delegated
  <2> QED  BY <1>1, <2>1 DEF Left, ParentCalls, Inv, TypeOK, Managers, Delegated
<1>4. Forwards'
  BY <1>1 DEF Left, Forwards, ForwardLost, Delegated
<1>5. LeftChild'
  BY <1>1, <1>2 DEF Left, LeftChild, Managers, Inv, TypeOK
<1>6. NoDeadRequest'
  <2> SUFFICES ASSUME NEW n \in Managers, NEW d \in asked'[n], Over(d)',
                      pending'[n][IdOf[d]] = d
               PROVE  n = "parent" /\ Delegated(d) /\ ForwardLost(d)'
    BY DEF NoDeadRequest, Delegated
  <2>1. d # c /\ d \in Calls /\ d \in asked[n] /\ Over(d)
    BY <1>1 DEF Over, Inv, TypeOK
  <2>2. Delegated(d) /\ n = "parent" /\ ForwardLost(d)
    BY <1>2, <2>1 DEF Left, NoDeadRequest
  <2> QED  BY <2>1, <2>2, LostStable
<1> QED  BY <1>3, <1>4, <1>5, <1>6 DEF Left

\* The steps of a call that leave the managers alone.
LEMMA QuietLeft ==
  ASSUME Inv, Left, [Next]_vars, NEW c \in Calls,
         \/ BeginRequest(c) \/ Receive(c) \/ GiveUp(c) \/ Expire(c)
         \/ CancelCall(c)
  PROVE  Left'
<1>1. /\ UNCHANGED <<pending, reply, asked>>
      /\ \A d \in Calls \ {c} : pc'[d] = pc[d] /\ asks'[d] = asks[d]
      /\ forwarded \subseteq forwarded'
      /\ pc'[c] = pc[c] \/ pc'[c] # "leavingParent"
  BY DEF BeginRequest, Receive, GiveUp, Expire, CancelCall, manager, delegation,
     Goto, Inv, TypeOK
<1>2. ParentCalls' /\ LeftChild'
  BY <1>1 DEF Left, ParentCalls, LeftChild, Delegated
<1>3. Forwards'
  <2> SUFFICES ASSUME NEW d \in Calls, Delegated(d), "parent" \in asks'[d],
                      pc'[d] \in {"asking", "waiting", "leaving"}
               PROVE  IdOf[d] \in forwarded' \/ ForwardLost(d)'
    BY DEF Forwards, Delegated
  <2>1. CASE pc[d] \in {"asking", "waiting", "leaving"} /\ asks'[d] = asks[d]
    BY <1>1, <2>1, LostStable DEF Left, Forwards
  <2>2. CASE d = c /\ BeginRequest(c)
    BY <2>2, AsksType DEF BeginRequest, Goto, Inv, TypeOK, Delegated
  <2>3. CASE d = c /\ Expire(c)
    BY <2>3, LostStable DEF Expire, ForwardLost
  <2>4. CASE d = c /\ (Receive(c) \/ GiveUp(c) \/ CancelCall(c))
    <3>1. pc[d] \in {"asking", "waiting", "leaving", "denied"} /\ asks'[d] = asks[d]
      BY <2>4 DEF Receive, GiveUp, CancelCall, Goto, delegation, Inv, TypeOK
    <3>2. pc[d] # "denied"
      BY <3>1 DEF Inv, AsksFixed
    <3> QED  BY <2>1, <3>1, <3>2
  <2> QED  BY <1>1, <2>1, <2>2, <2>3, <2>4
<1>4. NoDeadRequest'
  <2> SUFFICES ASSUME NEW m \in Managers, NEW d \in asked[m], Over(d)',
                      pending[m][IdOf[d]] = d
               PROVE  m = "parent" /\ Delegated(d) /\ ForwardLost(d)'
    BY <1>1 DEF NoDeadRequest, Delegated
  <2>1. CASE Over(d)
    BY <2>1, LostStable DEF Left, NoDeadRequest, Inv, TypeOK
  <2>2. CASE d = c /\ Receive(c) /\ pc[c] = "waiting"
    BY <2>2 DEF Receive, Answered, Inv, TypeOK, UndecidedIsPending
  <2>3. CASE d = c /\ Receive(c) /\ pc[c] = "denied"
    BY <2>3 DEF Inv, AsksFixed
  <2>4. CASE d = c /\ ~Receive(c)
    BY <2>1, <2>4 DEF BeginRequest, GiveUp, Expire, CancelCall, Goto, Over, Inv, TypeOK
  <2>5. d # c => pc'[d] = pc[d]
    BY <1>1 DEF Inv, TypeOK
  <2> QED  BY <2>1, <2>2, <2>3, <2>4, <2>5 DEF Over, Receive
<1> QED  BY <1>2, <1>3, <1>4 DEF Left

\* Giving the requests up: at the child's manager, and at the parent's.
LEMMA LeaveLeft ==
  ASSUME Inv, Left, Inv', [Next]_vars, NEW c \in Calls, Leave(c) \/ LeaveParent(c)
  PROVE  Left'
<1>1. /\ UNCHANGED <<asks, asked, expired>>
      /\ \A d \in Calls \ {c} : pc'[d] = pc[d]
      /\ pc[c] \in {"leaving", "leavingParent"}
      /\ pc'[c] \in {"leavingParent", "rejected"}
  BY DEF Leave, LeaveParent, delegation, Goto, Inv, TypeOK
<1>2. \A m \in Managers, d \in Calls :
        pending'[m][IdOf[d]] = d => pending[m][IdOf[d]] = d
  <2>1. PICK n \in Managers : pending' = [pending EXCEPT ![n][IdOf[c]] = None]
    BY DEF Leave, LeaveParent, Settle, Managers
  <2> QED  BY <2>1, IdsType, NoneIsNoCall DEF Inv, TypeOK
<1>3. ParentCalls'
  BY <1>1 DEF Left, ParentCalls, Leave, LeaveParent, Goto, Delegated, Inv, TypeOK
<1>4. Forwards'
  <2> SUFFICES ASSUME NEW d \in Calls, Delegated(d), "parent" \in asks'[d],
                      pc'[d] \in {"asking", "waiting", "leaving"}
               PROVE  IdOf[d] \in forwarded' \/ ForwardLost(d)'
    BY DEF Forwards, Delegated
  <2>1. d # c /\ pc[d] = pc'[d] /\ asks[d] = asks'[d]
    BY <1>1
  <2>2. IdOf[d] \in forwarded \/ ForwardLost(d)
    BY <2>1 DEF Left, Forwards
  <2>3. CASE IdOf[d] # IdOf[c] \/ ~Delegated(c) \/ LeaveParent(c)
    BY <2>2, <2>3, LostStable DEF Leave, LeaveParent, delegation
  <2>4. CASE IdOf[d] = IdOf[c] /\ Delegated(c)
    BY <1>1, <2>1, <2>4 DEF ForwardLost, Delegated
  <2> QED  BY <2>3, <2>4
<1>5. LeftChild'
  <2>1. CASE Leave(c)
    BY <1>1, <1>2, <2>1, IdsType, NoneIsNoCall
    DEF Left, LeftChild, ParentCalls, Leave, Settle, Goto, Managers, Inv, TypeOK
  <2>2. CASE LeaveParent(c)
    BY <1>1, <1>2, <2>2 DEF Left, LeftChild, LeaveParent, Goto, Managers, Inv, TypeOK
  <2> QED  BY <2>1, <2>2
<1>6. NoDeadRequest'
  <2> SUFFICES ASSUME NEW m \in Managers, NEW d \in asked[m], Over(d)',
                      pending'[m][IdOf[d]] = d
               PROVE  m = "parent" /\ Delegated(d) /\ ForwardLost(d)'
    BY <1>1 DEF NoDeadRequest, Delegated
  <2>1. d \in Calls /\ pending[m][IdOf[d]] = d
    BY <1>2 DEF Inv, TypeOK
  <2>2. CASE Over(d)
    BY <2>1, <2>2, LostStable DEF Left, NoDeadRequest
  <2>3. CASE d = c /\ LeaveParent(c)
    <3>1. pending'["parent"][IdOf[c]] = None
      BY <2>3, IdsType DEF LeaveParent, Settle, Inv, TypeOK, Managers
    <3>2. m = "child" /\ pc[c] = "leavingParent"
      BY <2>1, <2>3, <3>1, NoneIsNoCall DEF LeaveParent, Managers
    <3> QED  BY <2>1, <2>3, <3>2 DEF Left, LeftChild
  <2>4. CASE d = c /\ Leave(c)
    <3>1. CASE Delegated(c)
      <4>1. pending'["child"][IdOf[c]] = None
        BY <2>4, <3>1, IdsType DEF Leave, Settle, Inv, TypeOK, Managers
      <4>2. m = "parent" /\ "parent" \in asks[c]
        BY <2>1, <2>4, <4>1, NoneIsNoCall DEF Managers, Inv, TypeOK
      <4>3. pc[c] = "leaving" /\ IdOf[c] \notin forwarded
        BY <2>4, <3>1 DEF Leave, Goto, Over, Inv, TypeOK
      <4>4. ForwardLost(c)
        BY <3>1, <4>2, <4>3 DEF Left, Forwards
      <4> QED  BY <2>4, <3>1, <4>2, <4>4, LostStable
    <3>2. CASE ~Delegated(c)
      <4>1. pending'["parent"][IdOf[c]] = None
        BY <2>4, <3>2, IdsType DEF Leave, Settle, Inv, TypeOK, Managers
      <4>2. m = "child"
        BY <2>1, <2>4, <4>1, NoneIsNoCall DEF Managers
      <4> QED  BY <2>4, <3>2, <4>2 DEF Left, ParentCalls
    <3> QED  BY <3>1, <3>2
  <2> QED  BY <1>1, <2>1, <2>2, <2>3, <2>4 DEF Over
<1> QED  BY <1>3, <1>4, <1>5, <1>6 DEF Left

\* Every step keeps what calls leave behind within bounds.
LEMMA NextLeft == Inv /\ Left /\ [Next]_vars => Left'
<1> SUFFICES ASSUME Inv, Left, [Next]_vars  PROVE Left'
  OBVIOUS
<1>1. Inv'
  BY NextInv
<1>2. ASSUME NEW c \in Calls, BeginRequest(c) \/ CallStep(c) \/ Expire(c) \/ CancelCall(c)
      PROVE  Left'
  BY <1>1, <1>2, AskLeft, QuietLeft, LeaveLeft DEF CallStep
<1>3. ASSUME NEW m \in Managers, NEW i \in Ids, NEW approved \in BOOLEAN,
             Confirm(m, i, approved)
      PROVE  Left'
  BY <1>3, RemovalLeft DEF Confirm, Settle, delegation, Inv, TypeOK
<1>4. CASE CancelConfirmations \/ CancelAll
  <2>1. pending' = [pending EXCEPT !["parent"] = [i \in Ids |-> None]]
    BY <1>4 DEF CancelConfirmations, CancelAll, DrainAll
  <2>2. UNCHANGED <<asks, asked, forwarded, pc, expired>>
    BY <1>4 DEF CancelConfirmations, CancelAll, delegation
  <2>3. \A m \in Managers, i \in Ids : pending'[m][i] \in {pending[m][i], None}
    BY <2>1 DEF Inv, TypeOK
  <2> QED  BY <2>2, <2>3, RemovalLeft
<1>5. CASE CancelSession \/ UNCHANGED vars
  BY <1>5, RemovalLeft DEF CancelSession, vars, manager, delegation
<1> QED  BY <1>2, <1>3, <1>4, <1>5 DEF Next

\* The types of the confirmation state, for any calls and ids.
THEOREM ConfirmationTypes == Spec => []TypeOK
<1>1. Inv => TypeOK
  BY DEF Inv
<1> QED  BY InitInv, NextInv, <1>1, PTL DEF Spec

\* A request that ConfirmationManager has not answered is the one pending
\* under its id, whatever collides with it, cancels by its id or closes.
THEOREM UndecidedIsPendingAlways == Spec => []UndecidedIsPending
<1>1. Inv => UndecidedIsPending
  BY DEF Inv
<1> QED  BY InitInv, NextInv, <1>1, PTL DEF Spec

\* No tool call is approved without the host's approval of that call at every
\* manager that the delegation had it ask.
THEOREM ApprovalIsRealAlways == Spec => []ApprovalIsReal
<1>1. Inv => ApprovalIsReal
  BY DEF Inv
<1> QED  BY InitInv, NextInv, <1>1, PTL DEF Spec

\* A tool call that is over leaves no pending confirmation behind, except one
\* forwarded to the parent whose cancel the delegation lost.
THEOREM NoDeadRequestAlways == Spec => []NoDeadRequest
<1>1. Init => Left
  BY DEF Init, Left, ParentCalls, Forwards, LeftChild, NoDeadRequest, Managers
<1>2. Left => NoDeadRequest
  BY DEF Left
<1> QED  BY InitInv, NextInv, NextLeft, <1>1, <1>2, PTL DEF Spec

=============================================================================
