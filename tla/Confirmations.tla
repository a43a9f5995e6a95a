--------------------------- MODULE Confirmations ---------------------------
(***************************************************************************)
(* Human confirmation of tool calls:                                       *)
(*   core/src/hitl.rs                     ConfirmationManager              *)
(*   core/src/tool_confirmation.rs        one call's wait for its answer   *)
(*   core/src/fact_control/executor_tools.rs   its deadline on the fact    *)
(*                                        path                             *)
(*   core/src/child_run.rs                DelegatedConfirmationProvider    *)
(*   core/src/agent_api/session_close.rs  cancellation at close            *)
(*                                                                         *)
(* A manager keeps one pending request per tool call id, and the host, a   *)
(* cancellation and a close address requests by that id alone, while ids   *)
(* repeat.  A call of a delegated child may ask the child's manager, the   *)
(* parent session's or both; the delegation remembers the ids it forwards  *)
(* to the parent.  A call of the parent asks the parent's manager only.    *)
(*                                                                         *)
(* Each manager's map has a lock of its own, held for one insertion or     *)
(* removal; the answer is sent right after, without an await.              *)
(***************************************************************************)
EXTENDS Integers, FiniteSets

CONSTANTS Calls,    \* tool calls that need a confirmation
          Ids,      \* tool call ids
          IdOf,     \* the id of each call
          Asks,     \* the sets of managers a call may have to ask
          Timed,    \* calls on the fact path, whose wait has a deadline
          None      \* no call

Managers == {"child", "parent"}

ASSUME IdsType == IdOf \in [Calls -> Ids]
ASSUME AsksType == Asks \in [Calls -> SUBSET SUBSET Managers]
ASSUME NoneIsNoCall == None \notin Calls /\ Timed \subseteq Calls

VARIABLES
  pending,    \* per manager: the call whose sender is under an id, or None
  reply,      \* per manager: the answer in a call's channel
  asks,       \* active_providers: the managers a call asks
  asked,      \* per manager: calls that have asked it
  pc,         \* where a call is
  expired,    \* calls whose deadline has passed
  forwarded,  \* forwarded_parent_ids of the delegation
  cancelled,  \* calls whose cancellation token is cancelled
  close,      \* phase of session close
  granted     \* history: per manager, calls approved by a host's answer

manager    == <<pending, reply>>
delegation == <<asks, asked, forwarded>>
vars       == <<manager, delegation, pc, cancelled, expired, close, granted>>

Delegated(c) == Asks[c] # {{"parent"}}
Over(c)      == pc[c] \in {"approved", "rejected"}

Goto(c, p) == pc' = [pc EXCEPT ![c] = p]

----------------------------------------------------------------------------
(* The manager.                                                            *)

\* The request under id i, if any, leaves manager m with an answer.
Settle(m, i, answer) ==
  /\ pending' = [pending EXCEPT ![m][i] = None]
  /\ reply' = IF pending[m][i] = None THEN reply
              ELSE [reply EXCEPT ![m][pending[m][i]] = answer]

\* Fault: a second request takes the place of the first.
ReplaceRequest(m, c) ==
  pending' = [pending EXCEPT ![m][IdOf[c]] = c] /\ UNCHANGED reply

\* request_confirmation: two live requests with one id are both rejected.
RequestConfirmation(m, c) ==
  LET i == IdOf[c]
      other == pending[m][i]
  IN  IF other = None
      THEN pending' = [pending EXCEPT ![m][i] = c] /\ UNCHANGED reply
      ELSE /\ pending' = [pending EXCEPT ![m][i] = None]
           /\ reply' = [reply EXCEPT ![m][other] = "rejected",
                                     ![m][c] = "rejected"]

\* confirm, by the host; without a pending request it only returns false.
Confirm(m, i, approved) ==
  /\ pending[m][i] # None
  /\ Settle(m, i, IF approved THEN "approved" ELSE "rejected")
  /\ granted' = IF approved
                THEN [granted EXCEPT ![m] = @ \cup {pending[m][i]}] ELSE granted
  /\ UNCHANGED <<delegation, pc, cancelled, expired, close>>

\* cancel_all drains the map.
DrainAll(m) ==
  /\ pending' = [pending EXCEPT ![m] = [i \in Ids |-> None]]
  /\ reply' = [reply EXCEPT ![m] =
       [c \in Calls |-> IF pending[m][IdOf[c]] = c THEN "rejected"
                        ELSE reply[m][c]]]

\* The host cancels every confirmation of the session.
CancelConfirmations ==
  /\ close = "open"
  /\ \E i \in Ids : pending["parent"][i] # None
  /\ DrainAll("parent")
  /\ UNCHANGED <<delegation, pc, cancelled, expired, close, granted>>

----------------------------------------------------------------------------
(* One call: resolve_with_cancellation.                                    *)

\* The delegation remembers the id before it asks any manager.  A call nobody
\* has to confirm is approved, and one whose scope has no manager is denied,
\* as soon as it waits.
BeginRequest(c) ==
  /\ pc[c] = "idle"
  /\ \/ \E ms \in Asks[c] :
          /\ asks' = [asks EXCEPT ![c] = ms]
          /\ forwarded' = IF Delegated(c) /\ "parent" \in ms
                          THEN forwarded \cup {IdOf[c]} ELSE forwarded
          /\ Goto(c, IF ms = {} THEN "waiting" ELSE "asking")
     \/ /\ Delegated(c) /\ Goto(c, "denied")
        /\ UNCHANGED <<asks, forwarded>>
  /\ UNCHANGED <<manager, asked, cancelled, expired, close, granted>>

\* The managers are asked in turn, the child's first.
Ask(c, m) ==
  /\ pc[c] = "asking"
  /\ m \in asks[c] /\ c \notin asked[m]
  /\ m = "parent" /\ "child" \in asks[c] => c \in asked["child"]
  /\ RequestConfirmation(m, c)
  /\ asked' = [asked EXCEPT ![m] = @ \cup {c}]
  /\ IF \A n \in asks[c] \ {m} : c \in asked[n]
     THEN Goto(c, "waiting") ELSE UNCHANGED pc
  /\ UNCHANGED <<asks, forwarded, cancelled, expired, close, granted>>

Answered(c) == \A m \in asks[c] : reply[m][c] # "none"

\* Fault: one approval is enough.
ApprovedByOne(c) == \E m \in asks[c] : reply[m][c] = "approved"

Approved(c) == \A m \in asks[c] : reply[m][c] = "approved"

\* The answers of all managers are in, and the token is not cancelled: the
\* select is biased.
Receive(c) ==
  /\ c \notin cancelled
  /\ \/ pc[c] = "waiting" /\ Answered(c)
        /\ Goto(c, IF Approved(c) THEN "approved" ELSE "rejected")
     \/ pc[c] = "denied" /\ Goto(c, "rejected")
  /\ UNCHANGED <<manager, delegation, cancelled, expired, close, granted>>

\* A cancelled call gives its confirmation up.
GiveUp(c) ==
  /\ pc[c] \in {"waiting", "denied"} /\ c \in cancelled
  /\ Goto(c, "leaving")
  /\ UNCHANGED <<manager, delegation, cancelled, expired, close, granted>>

\* So does one on the fact path at its deadline, at whatever lock it waits
\* for: in the middle of its requests, or of giving up.
Expire(c) ==
  /\ c \in Timed \ expired
  /\ pc[c] \in {"asking", "waiting", "denied", "leaving", "leavingParent"}
  /\ Goto(c, "leaving")
  /\ expired' = expired \cup {c}
  /\ UNCHANGED <<manager, delegation, cancelled, close, granted>>

\* Fault: the delegation cancels at the child's manager only.
LeaveChild(c) ==
  /\ pc[c] = "leaving"
  /\ Settle(IF Delegated(c) THEN "child" ELSE "parent", IdOf[c], "rejected")
  /\ Goto(c, "rejected")
  /\ UNCHANGED <<delegation, cancelled, expired, close, granted>>

\* cancel of the delegation: the child's manager first, and the parent's when
\* the id was forwarded.  A call of the parent has one manager to cancel at.
Leave(c) ==
  /\ pc[c] = "leaving"
  /\ IF Delegated(c)
     THEN /\ Settle("child", IdOf[c], "rejected")
          /\ forwarded' = forwarded \ {IdOf[c]}
          /\ Goto(c, IF IdOf[c] \in forwarded THEN "leavingParent"
                     ELSE "rejected")
     ELSE /\ Settle("parent", IdOf[c], "rejected")
          /\ Goto(c, "rejected")
          /\ UNCHANGED forwarded
  /\ UNCHANGED <<asks, asked, cancelled, expired, close, granted>>

LeaveParent(c) ==
  /\ pc[c] = "leavingParent"
  /\ Settle("parent", IdOf[c], "rejected")
  /\ Goto(c, "rejected")
  /\ UNCHANGED <<delegation, cancelled, expired, close, granted>>

\* The invocation of a call is cancelled.
CancelCall(c) ==
  /\ pc[c] # "idle" /\ ~Over(c) /\ c \notin cancelled
  /\ cancelled' = cancelled \cup {c}
  /\ UNCHANGED <<manager, delegation, pc, expired, close, granted>>

----------------------------------------------------------------------------
(* Session close.                                                          *)

\* Fault: close cancels the calls it finds waiting.
CancelWaiting ==
  /\ close = "open" /\ close' = "cancelling"
  /\ cancelled' = cancelled \cup {c \in Calls : pc[c] = "waiting"}
  /\ UNCHANGED <<manager, delegation, pc, expired, granted>>

\* The session's token is the ancestor of every call's.
CancelSession ==
  /\ close = "open" /\ close' = "cancelling"
  /\ cancelled' = Calls
  /\ UNCHANGED <<manager, delegation, pc, expired, granted>>

CancelAll ==
  /\ close = "cancelling" /\ close' = "closed"
  /\ DrainAll("parent")
  /\ UNCHANGED <<delegation, pc, cancelled, expired, granted>>

----------------------------------------------------------------------------

Init ==
  /\ pending = [m \in Managers |-> [i \in Ids |-> None]]
  /\ reply = [m \in Managers |-> [c \in Calls |-> "none"]]
  /\ asks = [c \in Calls |-> {}]
  /\ asked = [m \in Managers |-> {}]
  /\ pc = [c \in Calls |-> "idle"]
  /\ forwarded = {} /\ cancelled = {} /\ expired = {} /\ close = "open"
  /\ granted = [m \in Managers |-> {}]

CallStep(c) ==
  \/ \E m \in Managers : Ask(c, m)
  \/ Receive(c) \/ GiveUp(c) \/ Leave(c) \/ LeaveParent(c)

Next ==
  \/ \E c \in Calls : BeginRequest(c) \/ CallStep(c) \/ Expire(c) \/ CancelCall(c)
  \/ \E m \in Managers, i \in Ids, approved \in BOOLEAN : Confirm(m, i, approved)
  \/ CancelConfirmations \/ CancelSession \/ CancelAll

Spec == Init /\ [][Next]_vars

\* A call that is not waiting for an answer goes on, and so does a close.
\* Nobody makes the host answer or a deadline exist.
FairSpec == Spec /\ (\A c \in Calls : WF_vars(CallStep(c))) /\ WF_vars(CancelAll)

----------------------------------------------------------------------------
(* Properties.                                                             *)

\* Type invariant.  A manager is asked only by calls that have to ask it.
TypeOK ==
  /\ pending \in [Managers -> [Ids -> Calls \cup {None}]]
  /\ reply \in [Managers -> [Calls -> {"none", "approved", "rejected"}]]
  /\ asks \in [Calls -> SUBSET Managers]
  /\ asked \in [Managers -> SUBSET Calls]
  /\ \A m \in Managers : \A c \in asked[m] : m \in asks[c]
  /\ pc \in [Calls -> {"idle", "asking", "waiting", "denied", "leaving",
                        "leavingParent", "approved", "rejected"}]
  /\ forwarded \subseteq Ids
  /\ cancelled \subseteq Calls /\ expired \subseteq Timed
  /\ close \in {"open", "cancelling", "closed"}
  /\ granted \in [Managers -> SUBSET Calls]

\* A request without an answer can still be answered, by its id and by it
\* alone: no collision, cancellation or close takes its sender away without
\* an answer, and two of them never share an id at a manager.
UndecidedIsPending ==
  \A m \in Managers : \A c \in asked[m] :
    reply[m][c] = "none" <=> pending[m][IdOf[c]] = c

\* A call is approved only by approvals of the host that were given to this
\* very call, one at each manager it had to ask.
ApprovalIsReal ==
  \A c \in Calls :
    pc[c] = "approved" =>
      asks[c] \in Asks[c] /\ \A m \in asks[c] : c \in granted[m]

\* The cancel that a delegated call owes the parent's manager is lost when its
\* deadline interrupts it, or when another call with the id uses the forward.
ForwardLost(c) ==
  \/ c \in expired
  \/ \E d \in Calls \ {c} : /\ Delegated(d) /\ IdOf[d] = IdOf[c]
                            /\ pc[d] \in {"leaving", "leavingParent", "rejected"}

\* A call that is over leaves no request behind for the host to answer, except
\* at the parent's manager when its forward was lost.
NoDeadRequest ==
  \A m \in Managers : \A c \in asked[m] :
    Over(c) /\ pending[m][IdOf[c]] = c =>
      m = "parent" /\ Delegated(c) /\ ForwardLost(c)

\* After a close every call that has begun comes to an end, also one that
\* asks for its confirmation only after the pending ones were cancelled.
CloseSettles ==
  \A c \in Calls : (close = "closed" /\ pc[c] # "idle") ~> Over(c)
=============================================================================
