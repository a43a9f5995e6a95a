-------------------------- MODULE RunControlProofs --------------------------
(***************************************************************************)
(* Proofs about RunControl, for any number of callers, ids, requests and   *)
(* turns, and any limits of the queue and of the retained receipts.        *)
(***************************************************************************)
EXTENDS RunControl, NumberLemmas

(* The types, by owner. *)
CallTyped ==
    /\ call \in [Callers -> [pc : {"idle", "entering", "hook", "submit", "fire", "record"},
                             req : Requests \cup {None}, at : Nat]]
    /\ gate \in Callers \cup {None}
    /\ calls \in Nat

InboxTyped ==
    /\ closed \in BOOLEAN
    /\ queue \in Seq(Control)
    /\ inFlight \subseteq Control
    /\ seen \in [Ids -> Receipt \cup {None}]
    /\ lastSeq \in Nat
    /\ evicted \in [Ids -> Nat]

WorkerTyped ==
    /\ turn \in Nat
    /\ worker \in {"turn", "drain", "apply", "event", "ending", "sealing", "observed",
                   "published", "joined", "ended", "gone"}
    /\ todo \in Seq(Control)
    /\ proof \in {"none", "owing", "clear"}
    /\ log \in Seq(Control)
    /\ events \in Seq(Control)

PostTyped ==
    /\ owed \subseteq [seq : Nat, state : Terminal]
    /\ posts \in [1..MaxCalls -> Seq({"accepted"} \cup Terminal)]

RunTyped ==
    /\ fired \in BOOLEAN
    /\ mode \in Modes
    /\ hooks \in HookKinds
    /\ host \in {"idle", "requested", "sealed", "cancelled", "refused"}
    /\ now \in Nat

TypeInv == CallTyped /\ InboxTyped /\ WorkerTyped /\ PostTyped /\ RunTyped

(* Where a submission holds the admission mutex. *)
Inside == {"hook", "submit", "fire", "record"}

(* Exactly the submission inside holds the mutex, and the receipt it has   *)
(* still to observe is the latest one, Accepted and seen by no post-hook.  *)
CallerInv(c) ==
    /\ call[c].pc # "idle" => call[c].req \in Requests
    /\ call[c].pc \in Inside <=> gate = c
    /\ call[c].pc \in {"fire", "record"} =>
         /\ call[c].req.id \in Accepted(seen)
         /\ seen[call[c].req.id].req = call[c].req
         /\ seen[call[c].req.id].seq = lastSeq
         /\ posts[lastSeq] = <<>>
    /\ call[c].pc = "record" /\ call[c].req.op = "interrupt" => fired

CallInv == \A c \in Callers : CallerInv(c)

(* Submissions that may still be given a sequence number. *)
Entered == {c \in Callers : call[c].pc \in {"entering", "hook", "submit"}}

(* So no sequence number exceeds the number of submissions. *)
CountInv ==
    /\ IsFiniteSet(Entered)
    /\ lastSeq + Cardinality(Entered) <= calls
    /\ calls <= MaxCalls

(* A retained receipt is filed under its id, with a number of its own. *)
ReceiptInv ==
    \A i \in Retained(seen) :
        /\ seen[i].req.id = i
        /\ seen[i].seq \in 1..lastSeq
        /\ \A j \in Retained(seen) : seen[i].seq = seen[j].seq => i = j

ControlOf(i) == [req |-> seen[i].req, seq |-> seen[i].seq]

(* The Accepted receipts and the controls that are queued or in flight are *)
(* the same, and each control is in one place once.                        *)
OwnedInv ==
    /\ \A k \in Pending : k.req.id \in Accepted(seen) /\ k = ControlOf(k.req.id)
    /\ \A i \in Accepted(seen) : ControlOf(i) \in Pending
    /\ \A i, j \in 1..Len(queue) : queue[i] = queue[j] => i = j
    /\ Elements(queue) \cap inFlight = {}
    /\ IsFiniteSet(inFlight)

(* What post-hooks may have seen of a control that is not decided. *)
Unseen == {<<>>, <<"accepted">>}

(* At most one terminal receipt of a control is on its way to a post-hook, *)
(* and only while none has been seen; none of an Accepted one is.          *)
PostInv ==
    /\ \A o \in owed : o.seq \in 1..lastSeq /\ posts[o.seq] \in Unseen
    /\ \A o, p \in owed : o.seq = p.seq => o = p
    /\ \A i \in Accepted(seen) :
         posts[seen[i].seq] \in Unseen /\ \A o \in owed : o.seq # seen[i].seq
    /\ \A n \in DOMAIN posts : n > lastSeq => posts[n] = <<>>
    /\ PostsInOrder

(* The token of a retained interrupt has fired, or is about to. *)
InterruptInv ==
    \A i \in Retained(seen) :
        seen[i].req.op = "interrupt" =>
            /\ closed
            /\ seen[i].seq = lastSeq
            /\ fired \/ \E c \in Callers : call[c].pc = "fire" /\ call[c].req.id = i

(* The observation of the release is made of a closed inbox, and only the  *)
(* agent loop drains.                                                      *)
SealInv ==
    /\ proof = "clear" => closed /\ queue = <<>> /\ inFlight = {} /\ Accepted(seen) = {}
    /\ mode = "fact" => worker \notin {"drain", "apply", "event"}

(* The log holds what was admitted. *)
LogInv ==
    /\ \A j \in 1..Len(log) : log[j].seq <= lastSeq
    /\ AppliedMeansLogged

Decided(s, i) == i \in Ids /\ s[i] # None /\ s[i].state = "settled"

(* What the loop drained is in flight until the loop decides it, or a close*)
(* has settled it and keeps its receipt.                                   *)
TodoInv ==
    worker \in {"apply", "event"} =>
        /\ worker = "event" => todo # <<>>
        /\ \A i, j \in 1..Len(todo) : todo[i].req.id = todo[j].req.id => i = j
        /\ \A j \in 1..Len(todo) :
             \/ worker = "event" /\ j = 1
             \/ todo[j] \in inFlight
             \/ closed /\ Decided(seen, todo[j].req.id)

(* Effects are counted by the receipts they come from: one for an Applied  *)
(* receipt, and one at most for every receipt that was trimmed.  An event  *)
(* about to be sent counts.                                                *)
EffectInv ==
    \A i \in Ids :
        Times(log, i) + Times(events, i)
          + (IF worker = "event" /\ Head(todo).req.id = i THEN 1 ELSE 0)
          <= evicted[i] + (IF i \in Retained(seen) /\ seen[i].state = "applied" THEN 1 ELSE 0)

InboxInv ==
    /\ TypeInv /\ CallInv /\ CountInv /\ ReceiptInv /\ OwnedInv /\ PostInv
    /\ InterruptInv /\ SealInv /\ LogInv /\ TodoInv /\ EffectInv

-----------------------------------------------------------------------------
(* Data. *)

LEMMA RequestFacts ==
    ASSUME NEW r \in Requests
    PROVE  /\ r.id \in Ids /\ r.op \in {"steer", "interrupt"}
           /\ r.ours \in BOOLEAN /\ r.expect \in Nat /\ r.deadline \in Nat
BY RequestsAssumption

LEMMA ReceiptFacts ==
    ASSUME NEW r \in Receipt
    PROVE  /\ r.req \in Requests /\ r.seq \in Nat
           /\ r.state \in {"accepted", "applied", "settled"}
           /\ r # None
BY NoneAssumption DEF Receipt, Terminal

(* The receipt of an id that is retained. *)
LEMMA RetainedFacts ==
    ASSUME InboxTyped, NEW i \in Retained(seen)
    PROVE  /\ i \in Ids /\ seen[i] \in Receipt
           /\ seen[i].req \in Requests /\ seen[i].seq \in Nat
           /\ seen[i].state \in {"accepted", "applied", "settled"}
           /\ ControlOf(i) \in Control
<1>1. i \in Ids /\ seen[i] \in Receipt
  BY DEF InboxTyped, Retained
<1>2. /\ seen[i].req \in Requests /\ seen[i].seq \in Nat
      /\ seen[i].state \in {"accepted", "applied", "settled"}
  BY <1>1, ReceiptFacts
<1> QED BY <1>1, <1>2 DEF ControlOf, Control

LEMMA ControlFacts ==
    ASSUME NEW k \in Control
    PROVE  /\ k.req \in Requests /\ k.seq \in Nat /\ k.req.id \in Ids
           /\ k.req.op \in {"steer", "interrupt"}
BY RequestFacts DEF Control

(* The members of a sequence. *)
LEMMA ElementsAppend ==
    ASSUME NEW D, NEW s \in Seq(D), NEW x \in D
    PROVE  Elements(Append(s, x)) = Elements(s) \cup {x}
<1>1. /\ Len(Append(s, x)) = Len(s) + 1 /\ Append(s, x)[Len(s) + 1] = x
      /\ \A i \in 1..Len(s) : Append(s, x)[i] = s[i]
      /\ Len(s) \in Nat
  OBVIOUS
<1>2. 1..(Len(s) + 1) = 1..Len(s) \cup {Len(s) + 1}
  BY <1>1
<1> QED BY <1>1, <1>2 DEF Elements

LEMMA ElementsFinite ==
    ASSUME NEW D, NEW s \in Seq(D)
    PROVE  /\ IsFiniteSet(Elements(s)) /\ Elements(s) \subseteq D
           /\ (\A i, j \in 1..Len(s) : s[i] = s[j] => i = j) => Cardinality(Elements(s)) = Len(s)
<1>1. Len(s) \in Nat /\ s \in [1..Len(s) -> Elements(s)] /\ Elements(s) \subseteq D
  BY DEF Elements
<1>2. s \in Surjection(1..Len(s), Elements(s))
  BY <1>1 DEF Surjection, Elements
<1>3. IsFiniteSet(1..Len(s)) /\ Cardinality(1..Len(s)) = Len(s)
  BY <1>1, FS_Interval
<1>4. IsFiniteSet(Elements(s))
  BY <1>2, <1>3, FS_Surjection
<1>5. ASSUME \A i, j \in 1..Len(s) : s[i] = s[j] => i = j
      PROVE  Cardinality(Elements(s)) = Len(s)
  <2>1. s \in Injection(1..Len(s), Elements(s))
    BY <1>1, <1>5 DEF Injection, IsInjective
  <2> QED BY <1>2, <1>3, <2>1, FS_Surjection
<1> QED BY <1>1, <1>4, <1>5

(* BySequence lists a finite set of controls with different numbers. *)
LEMMA BySequenceLists ==
    ASSUME NEW S \in SUBSET Control, IsFiniteSet(S), \A k, l \in S : k.seq = l.seq => k = l
    PROVE  /\ BySequence(S) \in Seq(Control)
           /\ Len(BySequence(S)) \in Nat
           /\ \A j \in 1..Len(BySequence(S)) : BySequence(S)[j] \in S
           /\ \A i, j \in 1..Len(BySequence(S)) :
                BySequence(S)[i] = BySequence(S)[j] => i = j
<1> DEFINE f == [k \in S |-> k.seq]  n == Cardinality(S)  b == BySequence(S)
<1>1. n \in Nat
  BY FS_CardinalityType
<1>2. f \in [S -> Nat] /\ \A k, l \in S : f[k] = f[l] => k = l
  BY ControlFacts
<1>3. PICK s \in [1..n -> S] : \A i, j \in 1..n : i < j => f[s[i]] < f[s[j]]
  BY <1>2, SortedListing
<1>4. \A i, j \in DOMAIN s : i < j => s[i].seq < s[j].seq
  BY <1>3
<1>5. b \in [1..n -> S] /\ \A i, j \in DOMAIN b : i < j => b[i].seq < b[j].seq
  BY <1>3, <1>4 DEF BySequence
<1> HIDE DEF n, b, f
<1>6. b \in Seq(Control) /\ Len(b) = n
  BY <1>1, <1>5
<1>7. ASSUME NEW i \in 1..n, NEW j \in 1..n, b[i] = b[j]  PROVE i = j
  <2>1. b[i].seq \in Nat
    BY <1>5, ControlFacts
  <2>2. ~(i < j) /\ ~(j < i)
    BY <1>5, <1>7, <2>1
  <2> QED BY <1>1, <2>2
<1> QED BY <1>1, <1>5, <1>6, <1>7 DEF b

(* What is still to be decided. *)
LEMMA AcceptedControlsOwned ==
    ASSUME TypeInv, ReceiptInv, OwnedInv
    PROVE  /\ AcceptedControls = {ControlOf(i) : i \in Accepted(seen)}
           /\ AcceptedControls \subseteq Control
           /\ IsFiniteSet(AcceptedControls)
           /\ \A k, l \in AcceptedControls : k.seq = l.seq => k = l
           /\ \A i \in Accepted(seen) : i \in Retained(seen) /\ ControlOf(i).req.id = i
<1>1. InboxTyped
  BY DEF TypeInv
<1>2. \A k \in Pending : seen[k.req.id] # None
  BY DEF OwnedInv, Accepted, Retained
<1>3. AcceptedControls = {ControlOf(i) : i \in Accepted(seen)}
  BY <1>2 DEF AcceptedControls, ControlOf, Pending
<1>4. \A i \in Accepted(seen) : i \in Retained(seen)
  BY DEF Accepted
<1>5. AcceptedControls \subseteq Control
  BY <1>1, <1>3, <1>4, RetainedFacts
<1>6. AcceptedControls \subseteq Pending
  BY <1>3 DEF OwnedInv
<1>7. IsFiniteSet(Pending)
  BY <1>1, ElementsFinite, FS_Union DEF InboxTyped, OwnedInv, Pending
<1>8. IsFiniteSet(AcceptedControls)
  BY <1>6, <1>7, FS_Subset
<1>9. ASSUME NEW i \in Accepted(seen), NEW j \in Accepted(seen), ControlOf(i).seq = ControlOf(j).seq
      PROVE  i = j
  BY <1>4, <1>9 DEF ReceiptInv, ControlOf
<1>10. \A i \in Accepted(seen) : ControlOf(i).req.id = i
  BY <1>4 DEF ReceiptInv, ControlOf
<1> QED BY <1>3, <1>4, <1>5, <1>8, <1>9, <1>10

LEMMA SteersListed ==
    ASSUME TypeInv, ReceiptInv, OwnedInv
    PROVE  /\ Steers \in Seq(Control) /\ Len(Steers) \in Nat
           /\ \A j \in 1..Len(Steers) : Steers[j] \in AcceptedControls /\ Steers[j].req.op = "steer"
           /\ \A i, j \in 1..Len(Steers) : Steers[i] = Steers[j] => i = j
<1> DEFINE S == {k \in AcceptedControls : k.req.op = "steer"}
<1>1. S \in SUBSET Control /\ IsFiniteSet(S) /\ \A k, l \in S : k.seq = l.seq => k = l
  BY AcceptedControlsOwned, FS_Subset
<1>2. Steers = BySequence(S)
  BY DEF Steers
<1> HIDE DEF S
<1>3. /\ Steers \in Seq(Control) /\ Len(Steers) \in Nat
      /\ \A j \in 1..Len(Steers) : Steers[j] \in S
      /\ \A i, j \in 1..Len(Steers) : Steers[i] = Steers[j] => i = j
  BY <1>1, <1>2, BySequenceLists
<1> QED BY <1>3 DEF S

(* Trimming drops terminal receipts only, and counts each. *)
TrimmedTo(s) ==
    /\ seen' \in [Ids -> Receipt \cup {None}]
    /\ evicted' \in [Ids -> Nat]
    /\ \A i \in Ids :
         \/ seen'[i] = s[i] /\ evicted'[i] = evicted[i]
         \/ /\ s[i] # None /\ s[i].state # "accepted"
            /\ seen'[i] = None /\ evicted'[i] = evicted[i] + 1

LEMMA RetainTrims ==
    ASSUME InboxTyped, NEW s \in [Ids -> Receipt \cup {None}], NEW order, RetainReceipts(s, order)
    PROVE  TrimmedTo(s)
<1> DEFINE X == Expired(s, order)
<1>1. X \subseteq Retained(s) \ Accepted(s)
  BY DEF Expired
<1>2. /\ seen' = [i \in Ids |-> IF i \in X THEN None ELSE s[i]]
      /\ evicted' = [i \in Ids |-> IF i \in X THEN evicted[i] + 1 ELSE evicted[i]]
  BY DEF RetainReceipts
<1> HIDE DEF X
<1>3. evicted \in [Ids -> Nat]
  BY DEF InboxTyped
<1>4. seen' \in [Ids -> Receipt \cup {None}] /\ evicted' \in [Ids -> Nat]
  BY <1>2, <1>3
<1>5. \A i \in X : s[i] # None /\ s[i].state # "accepted"
  BY <1>1 DEF Retained, Accepted
<1> QED BY <1>2, <1>4, <1>5 DEF TrimmedTo

-----------------------------------------------------------------------------
(* What the steps do. *)

NewReceipt(r, n) == [req |-> r, seq |-> n, state |-> "accepted"]

NewControl(r, n) == [req |-> r, seq |-> n]

(* Submission c takes request r in with number n. *)
Takes(c, r, n) ==
    /\ call[c].pc = "submit" /\ call[c].req = r
    /\ seen[r.id] = None /\ ~closed /\ ~fired
    /\ n = lastSeq + 1 /\ lastSeq' = n
    /\ closed' = (r.op = "interrupt")
    /\ queue' = Append(queue, NewControl(r, n))
    /\ TrimmedTo([seen EXCEPT ![r.id] = NewReceipt(r, n)])
    /\ call' = [call EXCEPT ![c].pc = IF r.op = "interrupt" THEN "fire" ELSE "record"]
    /\ UNCHANGED <<gate, calls, inFlight, workerVars, hostVars, postVars, runVars>>

LEMMA SubmitTakes ==
    ASSUME TypeInv, CallInv, NEW c \in Callers, SubmitAccepted(c)
    PROVE  \E r \in Requests : \E n \in Nat : Takes(c, r, n)
<1> DEFINE r == call[c].req  n == lastSeq + 1
           s == [seen EXCEPT ![r.id] = NewReceipt(r, n)]
<1>1. r \in Requests /\ r.id \in Ids
  BY RequestFacts DEF SubmitAccepted, CallInv, CallerInv
<1>2. n \in Nat /\ lastSeq' = n
  BY DEF SubmitAccepted, TypeInv, InboxTyped
<1>3. /\ seen[r.id] = None /\ ~closed /\ ~fired /\ call[c].pc = "submit"
      /\ closed' = (closed \/ r.op = "interrupt")
      /\ queue' = Append(queue, NewControl(r, n))
      /\ RetainReceipts(s, Append(seenOrder, r.id))
      /\ call' = [call EXCEPT ![c].pc = IF r.op = "interrupt" THEN "fire" ELSE "record"]
      /\ UNCHANGED <<gate, calls, inFlight, workerVars, hostVars, postVars, runVars>>
  BY DEF SubmitAccepted, Admissible, Open, NewReceipt, NewControl, Goto, NextAfterSubmit
<1>4. NewReceipt(r, n) \in Receipt
  BY <1>1, <1>2 DEF NewReceipt, Receipt, Terminal
<1>5. s \in [Ids -> Receipt \cup {None}]
  BY <1>1, <1>4 DEF TypeInv, InboxTyped
<1>6. TrimmedTo(s)
  BY <1>3, <1>5, RetainTrims DEF TypeInv
<1>7. closed' = (r.op = "interrupt")
  BY <1>3
<1> QED BY <1>1, <1>2, <1>3, <1>6, <1>7 DEF Takes

Decision(i, v) == [req |-> seen[i].req, seq |-> seen[i].seq, state |-> v]

(* Every Accepted receipt i becomes V[i], with the gate open. *)
Decides(V) ==
    /\ gate = None /\ (closed => closed')
    /\ queue' = <<>> /\ inFlight' = {} /\ lastSeq' = lastSeq
    /\ TrimmedTo([i \in Ids |-> IF i \in Accepted(seen) THEN Decision(i, V[i]) ELSE seen[i]])
    /\ owed' = owed \cup {[seq |-> seen[i].seq, state |-> V[i]] : i \in Accepted(seen)}
    /\ UNCHANGED <<callVars, hostVars, runVars, posts, turn, todo, events>>

(* A close settles what is left, and trims nothing. *)
LEMMA CloseDecides ==
    ASSUME TypeInv, CloseDisplaced \/ FinishLoop
    PROVE  /\ Decides([i \in Ids |-> "settled"])
           /\ mode = "loop" /\ closed' = TRUE /\ UNCHANGED <<log, proof>>
           /\ worker' \in {worker, "ended"}
           /\ \A i \in Ids : seen'[i] = IF i \in Accepted(seen) THEN Decision(i, "settled")
                                         ELSE seen[i]
<1>1. /\ gate = None /\ closed' = TRUE /\ queue' = <<>> /\ inFlight' = {}
      /\ seen' = [i \in Ids |-> IF i \in Accepted(seen) THEN Settled(seen[i]) ELSE seen[i]]
      /\ owed' = owed \cup {[seq |-> seen[i].seq, state |-> Settled(seen[i]).state] : i \in Accepted(seen)}
      /\ UNCHANGED <<lastSeq, evicted, log, proof, callVars, hostVars, runVars, posts, turn,
                     todo, events>>
      /\ mode = "loop" /\ worker' \in {worker, "ended"}
  BY DEF CloseDisplaced, FinishLoop, Close, Unconsumed, workerVars
<1>2. ASSUME NEW i \in Accepted(seen)
      PROVE  /\ i \in Ids /\ Settled(seen[i]) = Decision(i, "settled")
             /\ Settled(seen[i]).state = "settled" /\ Decision(i, "settled") \in Receipt
  <2>1. i \in Ids /\ seen[i] \in Receipt
    BY RetainedFacts DEF Accepted, TypeInv
  <2> QED BY <2>1 DEF Settled, Decision, Receipt, Terminal
<1>3. \A i \in Ids : seen'[i] = IF i \in Accepted(seen) THEN Decision(i, "settled") ELSE seen[i]
  BY <1>1, <1>2
<1>4. seen' \in [Ids -> Receipt \cup {None}] /\ evicted' \in [Ids -> Nat]
  BY <1>1, <1>2 DEF TypeInv, InboxTyped
<1>5. TrimmedTo([i \in Ids |-> IF i \in Accepted(seen)
                               THEN Decision(i, [j \in Ids |-> "settled"][i]) ELSE seen[i]])
  BY <1>1, <1>3, <1>4 DEF TrimmedTo
<1>6. owed' = owed \cup {[seq |-> seen[i].seq, state |-> [j \in Ids |-> "settled"][i]] : i \in Accepted(seen)}
  BY <1>1, <1>2
<1> QED BY <1>1, <1>3, <1>5, <1>6 DEF Decides

Verdicts(n) == [i \in Ids |-> IF ControlOf(i) \in Kept(n) THEN "applied" ELSE "settled"]

PersistStep == PersistSafePoint \/ PersistTerminal \/ GuardianSettles

(* The persistence of the fact runtime decides by what the log took. *)
LEMMA PersistDecides ==
    ASSUME TypeInv, ReceiptInv, OwnedInv, PersistStep
    PROVE  \E n \in 0..Len(Steers) :
              /\ Decides(Verdicts(n))
              /\ mode = "fact" /\ log' = log \o SubSeq(Steers, 1, n)
              /\ worker' \in {"turn", "ending", "sealing", "ended"}
              /\ \/ proof' = proof
                 \/ closed' = TRUE /\ proof' \in {"owing", "clear"}
<1>1. Len(Steers) \in Nat
  BY SteersListed
<1>2. PICK n \in 0..Len(Steers), terminal \in BOOLEAN :
        /\ PersistPending(terminal, n)
        /\ mode = "fact" /\ worker' \in {"turn", "ending", "sealing", "ended"}
        /\ \/ proof' = proof
           \/ terminal /\ proof' \in {"owing", "clear"}
        /\ UNCHANGED <<turn, todo, events, posts, callVars, hostVars, runVars>>
  <2>1. CASE PersistSafePoint
    <3>1. PICK n \in 0..Len(Steers) :
            PersistPending(FALSE, n) /\ worker' = IF n = Len(Steers) THEN "turn" ELSE "ending"
      BY <2>1 DEF PersistSafePoint
    <3> QED BY <2>1, <3>1 DEF PersistSafePoint
  <2>2. CASE PersistTerminal
    BY <2>2 DEF PersistTerminal
  <2>3. CASE GuardianSettles
    <3>1. 0 \in 0..Len(Steers) /\ TRUE \in BOOLEAN
      BY <1>1
    <3>2. PersistPending(TRUE, 0)
      BY <2>3 DEF GuardianSettles
    <3>3. proof' \in {"owing", "clear"}
      BY <2>3 DEF GuardianSettles
    <3>4. /\ mode = "fact" /\ worker' \in {"turn", "ending", "sealing", "ended"}
          /\ UNCHANGED <<turn, todo, events, posts, callVars, hostVars, runVars>>
      BY <2>3 DEF GuardianSettles
    <3> QED BY <3>1, <3>2, <3>3, <3>4
  <2> QED BY <2>1, <2>2, <2>3 DEF PersistStep
<1> DEFINE D(k) == [req |-> k.req, seq |-> k.seq,
                    state |-> IF k \in Kept(n) THEN "applied" ELSE "settled"]
           s == [i \in Ids |-> IF \E k \in AcceptedControls : k.req.id = i
                               THEN D(CHOOSE k \in AcceptedControls : k.req.id = i)
                               ELSE seen[i]]
           t == [i \in Ids |-> IF i \in Accepted(seen) THEN Decision(i, Verdicts(n)[i])
                               ELSE seen[i]]
<1>3. /\ gate = None /\ closed' = (closed \/ terminal) /\ queue' = <<>> /\ inFlight' = {}
      /\ lastSeq' = lastSeq /\ log' = log \o SubSeq(Steers, 1, n)
      /\ \E order : RetainReceipts(s, order)
      /\ owed' = owed \cup {[seq |-> k.seq, state |-> D(k).state] : k \in AcceptedControls}
  BY <1>2 DEF PersistPending
<1>4. ASSUME NEW i \in Accepted(seen)
      PROVE  /\ i \in Ids /\ D(ControlOf(i)) = Decision(i, Verdicts(n)[i])
             /\ D(ControlOf(i)).state = Verdicts(n)[i]
             /\ ControlOf(i).seq = seen[i].seq
             /\ ControlOf(i) \in AcceptedControls /\ ControlOf(i).req.id = i
             /\ (CHOOSE k \in AcceptedControls : k.req.id = i) = ControlOf(i)
             /\ Decision(i, Verdicts(n)[i]) \in Receipt
  <2>1. i \in Ids /\ seen[i] \in Receipt
    BY RetainedFacts DEF Accepted, TypeInv
  <2>2. ControlOf(i) \in AcceptedControls /\ ControlOf(i).req.id = i
    BY AcceptedControlsOwned
  <2>3. ASSUME NEW k \in AcceptedControls, k.req.id = i  PROVE k = ControlOf(i)
    BY <2>3, AcceptedControlsOwned
  <2>4. ControlOf(i).req = seen[i].req /\ ControlOf(i).seq = seen[i].seq
    BY DEF ControlOf
  <2>5. Verdicts(n)[i] = (IF ControlOf(i) \in Kept(n) THEN "applied" ELSE "settled")
    BY <2>1 DEF Verdicts
  <2>6. D(ControlOf(i)) = Decision(i, Verdicts(n)[i]) /\ D(ControlOf(i)).state = Verdicts(n)[i]
    BY <2>4, <2>5 DEF Decision
  <2>7. Decision(i, Verdicts(n)[i]) \in Receipt
    BY <2>1, <2>5 DEF Decision, Receipt, Terminal
  <2>8. (CHOOSE k \in AcceptedControls : k.req.id = i) = ControlOf(i)
    BY <2>2, <2>3
  <2> QED BY <2>1, <2>2, <2>4, <2>6, <2>7, <2>8
<1>5. AcceptedControls = {ControlOf(i) : i \in Accepted(seen)}
  BY AcceptedControlsOwned
<1> HIDE DEF D
<1>6. \A i \in Ids : (\E k \in AcceptedControls : k.req.id = i) <=> i \in Accepted(seen)
  BY <1>4, <1>5
<1>7. s = t
  BY <1>4, <1>6
<1>8. t \in [Ids -> Receipt \cup {None}]
  BY <1>4 DEF TypeInv, InboxTyped
<1>9. TrimmedTo(t)
  BY <1>3, <1>7, <1>8, RetainTrims DEF TypeInv
<1>10. owed' = owed \cup {[seq |-> seen[i].seq, state |-> Verdicts(n)[i]] : i \in Accepted(seen)}
  <2> DEFINE L == {[seq |-> k.seq, state |-> D(k).state] : k \in AcceptedControls}
             R == {[seq |-> seen[i].seq, state |-> Verdicts(n)[i]] : i \in Accepted(seen)}
  <2>1. \A i \in Accepted(seen) :
          [seq |-> ControlOf(i).seq, state |-> D(ControlOf(i)).state]
             = [seq |-> seen[i].seq, state |-> Verdicts(n)[i]]
    BY <1>4
  <2>2. ASSUME NEW x \in L  PROVE x \in R
    <3>1. PICK k \in AcceptedControls : x = [seq |-> k.seq, state |-> D(k).state]
      OBVIOUS
    <3>2. PICK i \in Accepted(seen) : k = ControlOf(i)
      BY <1>5
    <3>3. x = [seq |-> seen[i].seq, state |-> Verdicts(n)[i]]
      BY <2>1, <3>1, <3>2
    <3> QED BY <3>3
  <2>3. R \subseteq L
    BY <1>4, <2>1
  <2> QED BY <1>3, <2>2, <2>3
<1>11. Decides(Verdicts(n))
  BY <1>2, <1>3, <1>9, <1>10 DEF Decides
<1>12. closed' = TRUE \/ proof' = proof
  BY <1>2, <1>3
<1> QED BY <1>2, <1>3, <1>11, <1>12

(* Every other step leaves the receipts and the controls alone. *)
Quiet == UNCHANGED <<queue, inFlight, seen, lastSeq, evicted, log>>

LEMMA Classify ==
    ASSUME [Next]_vars
    PROVE  \/ \E c \in Callers : SubmitAccepted(c)
           \/ Drain \/ MarkApplied
           \/ CloseDisplaced \/ FinishLoop
           \/ PersistStep
           \/ Quiet
<1>1. CASE \E c \in Callers : Submission(c)
  BY <1>1 DEF Submission, BeginSubmit, EnterGate, HookRefuses, HookContinues, SubmitRefused,
       FireInterrupt, RecordAccepted, DropSubmit, Quiet, inboxVars, workerVars
<1>2. CASE Worker
  BY <1>2 DEF Worker, UpdateTurn, EmitApplied, SafePointDone, CommitterFails, SealAndObserve,
       SealPublication, GuardianJoins,
       PersistStep, Quiet, inboxVars
<1>3. CASE LoseWorker \/ RequestCancel \/ SealNewRequests \/ CancelToken \/ CancelTooLate
           \/ ObserveTerminal \/ Tick \/ UNCHANGED vars
  BY <1>3 DEF LoseWorker, RequestCancel, SealNewRequests, CancelToken, CancelTooLate,
       ObserveTerminal, Tick, Quiet, inboxVars, workerVars, vars
<1> QED BY <1>1, <1>2, <1>3 DEF Next

-----------------------------------------------------------------------------
(* Types. *)

LEMMA TypeInit == Init => TypeInv
<1> SUFFICES ASSUME Init PROVE TypeInv
  OBVIOUS
<1>1. CallTyped
  <2>1. [pc : {"idle"}, req : {None}, at : {0}] \subseteq
          [pc : {"idle", "entering", "hook", "submit", "fire", "record"},
           req : Requests \cup {None}, at : Nat]
    OBVIOUS
  <2> QED BY <2>1 DEF Init, CallTyped
<1>2. InboxTyped
  <2>1. closed \in BOOLEAN
    BY DEF Init
  <2>2. queue \in Seq(Control) /\ inFlight \subseteq Control
    BY DEF Init
  <2>3. seen \in [Ids -> Receipt \cup {None}] /\ evicted \in [Ids -> Nat] /\ lastSeq \in Nat
    BY DEF Init
  <2> QED BY <2>1, <2>2, <2>3 DEF InboxTyped
<1>3. WorkerTyped
  BY DEF Init, WorkerTyped
<1>4. PostTyped
  <2>1. <<>> \in Seq({"accepted"} \cup Terminal)
    OBVIOUS
  <2> QED BY <2>1 DEF Init, PostTyped
<1>5. RunTyped
  BY DEF Init, RunTyped
<1> QED BY <1>1, <1>2, <1>3, <1>4, <1>5 DEF TypeInv

(* Only submissions move callers and the gate. *)
LEMMA CallFrame ==
    ASSUME [Next]_vars, ~(\E c \in Callers : Submission(c))
    PROVE  UNCHANGED callVars
BY DEF Next, Worker, UpdateTurn, Drain, MarkApplied, EmitApplied, SafePointDone, FinishLoop,
       PersistSafePoint, PersistTerminal, CommitterFails, SealAndObserve, SealPublication,
       GuardianJoins, GuardianSettles,
       LoseWorker, CloseDisplaced, RequestCancel, SealNewRequests, CancelToken, CancelTooLate,
       ObserveTerminal, Tick, callVars, vars

LEMMA CallTypeStep ==
    ASSUME TypeInv, [Next]_vars
    PROVE  CallTyped'
<1>1. CASE ~(\E c \in Callers : Submission(c))
  BY <1>1, CallFrame DEF callVars, TypeInv, CallTyped
<1>2. ASSUME NEW c \in Callers, Submission(c)  PROVE CallTyped'
  <2> DEFINE Places == {"idle", "entering", "hook", "submit", "fire", "record"}
             Record == [pc : Places, req : Requests \cup {None}, at : Nat]
  <2>1. call \in [Callers -> Record] /\ gate \in Callers \cup {None} /\ calls \in Nat /\ now \in Nat
    BY DEF TypeInv, CallTyped, RunTyped
  <2>2. ASSUME NEW at \in Places, Goto(c, at)  PROVE call' \in [Callers -> Record]
    BY <2>1, <2>2 DEF Goto
  <2>3. ASSUME Return(c)  PROVE call' \in [Callers -> Record]
    BY <2>1, <2>3 DEF Return
  <2>4. CASE BeginSubmit(c)
    BY <2>1, <2>4 DEF BeginSubmit, CallTyped
  <2>5. CASE EnterGate(c)
    BY <2>1, <2>2, <2>3, <2>5 DEF EnterGate, CallTyped
  <2>6. CASE HookRefuses(c) \/ SubmitRefused(c) \/ RecordAccepted(c) \/ DropSubmit(c)
    BY <2>1, <2>3, <2>6 DEF HookRefuses, SubmitRefused, RecordAccepted, DropSubmit, CallTyped
  <2>7. CASE HookContinues(c) \/ FireInterrupt(c)
    BY <2>1, <2>2, <2>7 DEF HookContinues, FireInterrupt, CallTyped
  <2>8. CASE SubmitAccepted(c)
    <3>1. PICK at \in Places : Goto(c, at)
      BY <2>8 DEF SubmitAccepted, NextAfterSubmit
    <3> QED BY <2>1, <2>2, <2>8, <3>1 DEF SubmitAccepted, CallTyped
  <2> QED BY <1>2, <2>4, <2>5, <2>6, <2>7, <2>8 DEF Submission
<1> QED BY <1>1, <1>2

(* closed is never reset. *)
LEMMA ClosedKept ==
    ASSUME TypeInv, [Next]_vars
    PROVE  closed' \in BOOLEAN /\ (closed => closed')
<1>0. closed \in BOOLEAN
  BY DEF TypeInv, InboxTyped
<1>1. CASE \E c \in Callers : SubmitAccepted(c)
  <2>1. PICK c \in Callers : SubmitAccepted(c)
    BY <1>1
  <2>2. PICK b \in BOOLEAN : closed' = (closed \/ b)
    BY <2>1 DEF SubmitAccepted
  <2> QED BY <1>0, <2>2
<1>2. CASE PersistSafePoint \/ PersistTerminal \/ GuardianSettles
  <2>1. PICK b \in BOOLEAN : closed' = (closed \/ b)
    BY <1>2 DEF PersistSafePoint, PersistTerminal, GuardianSettles, PersistPending
  <2> QED BY <1>0, <2>1
<1>3. CASE CloseDisplaced \/ FinishLoop \/ SealAndObserve \/ SealNewRequests
  <2>1. closed' = TRUE
    BY <1>3 DEF CloseDisplaced, FinishLoop, Close, SealAndObserve, SealNewRequests
  <2> QED BY <2>1
<1>4. CASE \E c \in Callers : Submission(c) /\ ~SubmitAccepted(c)
  <2>1. closed' = closed
    BY <1>4 DEF Submission, BeginSubmit, EnterGate, HookRefuses, HookContinues, SubmitRefused,
       FireInterrupt, RecordAccepted, DropSubmit, inboxVars
  <2> QED BY <1>0, <2>1
<1>5. CASE UpdateTurn \/ Drain \/ MarkApplied \/ EmitApplied \/ SafePointDone \/ CommitterFails
           \/ SealPublication \/ GuardianJoins \/ LoseWorker \/ RequestCancel
           \/ CancelToken \/ CancelTooLate \/ ObserveTerminal
           \/ Tick \/ UNCHANGED vars
  <2>1. closed' = closed
    BY <1>5 DEF UpdateTurn, Drain, MarkApplied, EmitApplied, SafePointDone, CommitterFails,
       SealPublication, GuardianJoins, LoseWorker, RequestCancel, CancelToken, CancelTooLate,
       ObserveTerminal, Tick,
       inboxVars, vars
  <2> QED BY <1>0, <2>1
<1> QED BY <1>1, <1>2, <1>3, <1>4, <1>5 DEF Next, Worker

(* The receipt that mark_applied decides. *)
LEMMA MarkEffect ==
    ASSUME TypeInv, MarkApplied
    PROVE  /\ gate = None /\ worker = "apply" /\ todo # <<>>
           /\ Head(todo) \in Control /\ Head(todo).req.id \in Ids
           /\ UNCHANGED <<closed, queue, lastSeq, evicted, log, events, proof, turn, posts,
                          callVars, hostVars, runVars>>
           /\ \/ /\ Head(todo).req.id \in Accepted(seen)
                 /\ seen' = [seen EXCEPT ![Head(todo).req.id] = Decision(Head(todo).req.id, "applied")]
                 /\ Decision(Head(todo).req.id, "applied") \in Receipt
                 /\ inFlight' = {j \in inFlight : j.req.id # Head(todo).req.id}
                 /\ owed' = owed \cup {[seq |-> seen[Head(todo).req.id].seq, state |-> "applied"]}
                 /\ worker' = "event" /\ todo' = todo
              \/ /\ UNCHANGED <<seen, inFlight, owed>>
                 /\ Head(todo).req.id \in Retained(seen) /\ seen[Head(todo).req.id].state = "applied"
                 /\ worker' = "event" /\ todo' = todo
              \/ /\ UNCHANGED <<seen, inFlight, owed>>
                 /\ worker' = worker /\ todo' = Tail(todo)
<1> DEFINE i == Head(todo).req.id
<1>1. /\ gate = None /\ worker = "apply" /\ todo # <<>>
      /\ UNCHANGED <<closed, queue, lastSeq, evicted, log, events, proof, turn, posts,
                     callVars, hostVars, runVars>>
  BY DEF MarkApplied
<1>2. Head(todo) \in Control
  BY <1>1 DEF TypeInv, WorkerTyped
<1>3. i \in Ids
  BY <1>2, ControlFacts
<1>4. \/ /\ i \in Accepted(seen)
         /\ seen' = [seen EXCEPT ![i].state = "applied"]
         /\ inFlight' = {j \in inFlight : j.req.id # i}
         /\ owed' = owed \cup {[seq |-> seen[i].seq, state |-> "applied"]}
         /\ worker' = "event" /\ todo' = todo
      \/ /\ UNCHANGED <<seen, inFlight, owed>>
         /\ i \in Retained(seen) /\ seen[i].state = "applied"
         /\ worker' = "event" /\ todo' = todo
      \/ /\ UNCHANGED <<seen, inFlight, owed>>
         /\ worker' = worker /\ todo' = Tail(todo)
  BY DEF MarkApplied, StillAccepted
<1> HIDE DEF i
<1>5. ASSUME i \in Accepted(seen), seen' = [seen EXCEPT ![i].state = "applied"]
      PROVE  /\ seen' = [seen EXCEPT ![i] = Decision(i, "applied")]
             /\ Decision(i, "applied") \in Receipt
  <2>1. seen[i] \in Receipt
    BY <1>5, RetainedFacts DEF Accepted, TypeInv
  <2>2. [seen[i] EXCEPT !.state = "applied"] = Decision(i, "applied")
    BY <2>1 DEF Decision, Receipt
  <2>3. Decision(i, "applied") \in Receipt
    BY <2>1 DEF Decision, Receipt, Terminal
  <2> QED BY <1>5, <2>2, <2>3
<1> QED BY <1>1, <1>2, <1>3, <1>4, <1>5 DEF i

LEMMA InboxTypeStep ==
    ASSUME TypeInv, CallInv, ReceiptInv, OwnedInv, [Next]_vars
    PROVE  InboxTyped'
<1>0. InboxTyped
  BY DEF TypeInv
<1>a. closed' \in BOOLEAN
  BY ClosedKept
<1>1. ASSUME NEW c \in Callers, SubmitAccepted(c)  PROVE InboxTyped'
  <2>1. PICK r \in Requests, n \in Nat : Takes(c, r, n)
    BY <1>1, SubmitTakes
  <2>2. NewControl(r, n) \in Control
    BY DEF NewControl, Control
  <2>3. queue' \in Seq(Control)
    BY <1>0, <2>1, <2>2 DEF Takes, InboxTyped
  <2> QED BY <1>0, <1>a, <2>1, <2>3 DEF Takes, TrimmedTo, InboxTyped
<1>2. CASE Drain
  <2>1. /\ queue' = <<>> /\ inFlight' = inFlight \cup Elements(queue)
        /\ UNCHANGED <<seen, lastSeq, evicted>>
    BY <1>2 DEF Drain
  <2>2. Elements(queue) \subseteq Control
    BY <1>0, ElementsFinite DEF InboxTyped
  <2> QED BY <1>0, <1>a, <2>1, <2>2 DEF InboxTyped
<1>3. CASE MarkApplied
  <2>1. UNCHANGED <<queue, lastSeq, evicted>> /\ inFlight' \subseteq inFlight
    BY <1>3, MarkEffect
  <2>2. seen' \in [Ids -> Receipt \cup {None}]
    BY <1>0, <1>3, MarkEffect DEF InboxTyped
  <2> QED BY <1>0, <1>a, <2>1, <2>2 DEF InboxTyped
<1>4. ASSUME NEW V, Decides(V)  PROVE InboxTyped'
  <2>1. /\ queue' = <<>> /\ inFlight' = {} /\ lastSeq' = lastSeq
        /\ seen' \in [Ids -> Receipt \cup {None}] /\ evicted' \in [Ids -> Nat]
    BY <1>4 DEF Decides, TrimmedTo
  <2> QED BY <1>0, <1>a, <2>1 DEF InboxTyped
<1>5. CASE Quiet
  BY <1>0, <1>a, <1>5 DEF Quiet, InboxTyped
<1> QED BY <1>1, <1>2, <1>3, <1>4, <1>5, Classify, CloseDecides, PersistDecides

LEMMA WorkerTypeStep ==
    ASSUME TypeInv, ReceiptInv, OwnedInv, TodoInv, [Next]_vars
    PROVE  WorkerTyped'
<1> DEFINE Places == {"turn", "drain", "apply", "event", "ending", "sealing", "observed",
                   "published", "joined", "ended", "gone"}
<1>0. WorkerTyped /\ queue \in Seq(Control)
  BY DEF TypeInv, InboxTyped
<1>1. ASSUME PersistStep  PROVE WorkerTyped'
  <2>1. PICK n \in 0..Len(Steers) :
              /\ Decides(Verdicts(n)) /\ log' = log \o SubSeq(Steers, 1, n)
              /\ worker' \in {"turn", "ending", "sealing", "ended"}
              /\ \/ proof' = proof
                 \/ proof' \in {"owing", "clear"}
    BY <1>1, PersistDecides
  <2>2. SubSeq(Steers, 1, n) \in Seq(Control)
    BY SteersListed
  <2>3. log' \in Seq(Control)
    BY <1>0, <2>1, <2>2 DEF WorkerTyped
  <2>4. UNCHANGED <<turn, todo, events>>
    BY <2>1 DEF Decides
  <2> QED BY <1>0, <2>1, <2>3, <2>4 DEF WorkerTyped
<1>2. CASE UpdateTurn
  BY <1>0, <1>2 DEF UpdateTurn, WorkerTyped
<1>3. CASE Drain
  BY <1>0, <1>3 DEF Drain, WorkerTyped
<1>4. CASE MarkApplied
  <2>1. /\ UNCHANGED <<turn, proof, log, events>> /\ worker' \in {"event", worker}
        /\ (todo' = todo \/ (todo # <<>> /\ todo' = Tail(todo)))
    BY <1>4, MarkEffect
  <2>2. todo' \in Seq(Control)
    <3>1. todo \in Seq(Control)
      BY <1>0 DEF WorkerTyped
    <3>2. CASE todo' = todo
      BY <3>1, <3>2
    <3>3. CASE todo # <<>> /\ todo' = Tail(todo)
      BY <3>1, <3>3
    <3> QED BY <2>1, <3>2, <3>3
  <2> QED BY <1>0, <2>1, <2>2 DEF WorkerTyped
<1>5. CASE LoseWorker
  BY <1>0, <1>5 DEF LoseWorker, WorkerTyped
<1>6. CASE SafePointDone \/ CommitterFails \/ SealAndObserve \/ SealPublication
           \/ GuardianJoins
  BY <1>0, <1>6 DEF SafePointDone, CommitterFails, SealAndObserve, SealPublication,
       GuardianJoins, WorkerTyped
<1>7. CASE CloseDisplaced \/ FinishLoop
  BY <1>0, <1>7 DEF CloseDisplaced, FinishLoop, workerVars, WorkerTyped
<1>8. CASE \/ \E c \in Callers : Submission(c)
           \/ RequestCancel \/ SealNewRequests \/ CancelToken \/ CancelTooLate
           \/ ObserveTerminal \/ Tick \/ UNCHANGED vars
  <2>1. UNCHANGED workerVars
    BY <1>8 DEF Submission, BeginSubmit, EnterGate, HookRefuses, HookContinues, SubmitRefused,
       SubmitAccepted, FireInterrupt, RecordAccepted, DropSubmit, RequestCancel,
       SealNewRequests, CancelToken, CancelTooLate, ObserveTerminal, Tick, workerVars, vars
  <2> QED BY <1>0, <2>1 DEF workerVars, WorkerTyped
<1>9. CASE EmitApplied
  <2>1. todo # <<>>
    BY <1>9 DEF EmitApplied, TodoInv
  <2>2. Head(todo) \in Control /\ Tail(todo) \in Seq(Control)
    BY <1>0, <2>1 DEF WorkerTyped
  <2>3. events' \in Seq(Control) /\ todo' \in Seq(Control)
    BY <1>0, <1>9, <2>2 DEF EmitApplied, WorkerTyped
  <2> QED BY <1>0, <1>9, <2>3 DEF EmitApplied, WorkerTyped
<1> QED BY <1>1, <1>2, <1>3, <1>4, <1>5, <1>6, <1>7, <1>8, <1>9 DEF Next, Worker, PersistStep

LEMMA DecideCases ==
    ASSUME TypeInv, ReceiptInv, OwnedInv, CloseDisplaced \/ FinishLoop \/ PersistStep
    PROVE  \E V \in [Ids -> Terminal] : Decides(V)
<1>1. CASE CloseDisplaced \/ FinishLoop
  <2>1. [i \in Ids |-> "settled"] \in [Ids -> Terminal]
    BY DEF Terminal
  <2> QED BY <1>1, <2>1, CloseDecides
<1>2. CASE PersistStep
  <2>1. PICK n \in 0..Len(Steers) : Decides(Verdicts(n))
    BY <1>2, PersistDecides
  <2>2. Verdicts(n) \in [Ids -> Terminal]
    BY DEF Verdicts, Terminal
  <2> QED BY <2>1, <2>2
<1> QED BY <1>1, <1>2

(* The receipts after each kind of step. *)
LEMMA DecideReceipts ==
    ASSUME TypeInv, NEW V \in [Ids -> Terminal], Decides(V)
    PROVE  /\ Accepted(seen)' = {}
           /\ \A i \in Retained(seen)' :
                /\ i \in Retained(seen)
                /\ seen'[i].req = seen[i].req /\ seen'[i].seq = seen[i].seq
                /\ seen'[i].state = (IF i \in Accepted(seen) THEN V[i] ELSE seen[i].state)
<1> DEFINE s == [i \in Ids |-> IF i \in Accepted(seen) THEN Decision(i, V[i]) ELSE seen[i]]
<1>1. \A i \in Ids : seen'[i] = s[i] \/ seen'[i] = None
  BY DEF Decides, TrimmedTo
<1>2. ASSUME NEW i \in Retained(seen)'
      PROVE  /\ i \in Retained(seen)
             /\ seen'[i].req = seen[i].req /\ seen'[i].seq = seen[i].seq
             /\ seen'[i].state = (IF i \in Accepted(seen) THEN V[i] ELSE seen[i].state)
             /\ seen'[i].state # "accepted"
  <2>1. i \in Ids /\ seen'[i] = s[i] /\ s[i] # None
    BY <1>1 DEF Retained
  <2>2. CASE i \in Accepted(seen)
    <3>1. seen'[i] = Decision(i, V[i]) /\ V[i] \in Terminal
      BY <2>1, <2>2
    <3>2. i \in Retained(seen)
      BY <2>2 DEF Accepted
    <3> QED BY <2>2, <3>1, <3>2 DEF Decision, Terminal
  <2>3. CASE i \notin Accepted(seen)
    BY <2>1, <2>3 DEF Accepted, Retained
  <2> QED BY <2>2, <2>3
<1>3. Accepted(seen)' = {}
  BY <1>2 DEF Accepted
<1> QED BY <1>2, <1>3

LEMMA TakeReceipts ==
    ASSUME TypeInv, NEW c \in Callers, NEW r \in Requests, NEW n \in Nat, Takes(c, r, n)
    PROVE  /\ r.id \in Ids /\ r.id \notin Retained(seen)
           /\ seen'[r.id] = NewReceipt(r, n) /\ r.id \in Retained(seen)'
           /\ Accepted(seen)' = Accepted(seen) \cup {r.id}
           /\ \A i \in Retained(seen)' : i = r.id \/ (i \in Retained(seen) /\ seen'[i] = seen[i])
           /\ \A i \in Accepted(seen) : i # r.id /\ i \in Retained(seen)' /\ seen'[i] = seen[i]
<1> DEFINE s == [seen EXCEPT ![r.id] = NewReceipt(r, n)]
<1>1. r.id \in Ids /\ seen[r.id] = None /\ seen \in [Ids -> Receipt \cup {None}]
  BY RequestFacts DEF Takes, TypeInv, InboxTyped
<1>2. \A i \in Ids : seen'[i] = s[i] \/ (s[i] # None /\ s[i].state # "accepted" /\ seen'[i] = None)
  BY DEF Takes, TrimmedTo
<1>3. NewReceipt(r, n) \in Receipt /\ NewReceipt(r, n).state = "accepted" /\ NewReceipt(r, n) # None
  BY NoneAssumption DEF NewReceipt, Receipt, Terminal
<1>4. s[r.id] = NewReceipt(r, n) /\ \A i \in Ids : i # r.id => s[i] = seen[i]
  BY <1>1
<1>5. seen'[r.id] = NewReceipt(r, n)
  BY <1>1, <1>2, <1>3, <1>4
<1> HIDE DEF s
<1>6. ASSUME NEW i \in Retained(seen)', i # r.id
      PROVE  i \in Retained(seen) /\ seen'[i] = seen[i]
  BY <1>2, <1>4, <1>6 DEF Retained
<1>7. ASSUME NEW i \in Accepted(seen)
      PROVE  i # r.id /\ i \in Retained(seen)' /\ seen'[i] = seen[i]
  <2>1. i \in Ids /\ seen[i] # None /\ seen[i].state = "accepted"
    BY DEF Accepted, Retained
  <2>2. i # r.id
    BY <1>1, <2>1
  <2>3. seen'[i] = seen[i]
    BY <1>2, <1>4, <2>1, <2>2
  <2> QED BY <2>1, <2>2, <2>3 DEF Retained
<1>8. r.id \in Retained(seen)' /\ r.id \notin Retained(seen)
  BY <1>1, <1>3, <1>5 DEF Retained
<1>9. Accepted(seen)' = Accepted(seen) \cup {r.id}
  <2>1. r.id \in Accepted(seen)'
    BY <1>3, <1>5, <1>8 DEF Accepted
  <2>2. \A i \in Accepted(seen) : i \in Accepted(seen)'
    BY <1>7 DEF Accepted
  <2>3. \A i \in Accepted(seen)' : i = r.id \/ i \in Accepted(seen)
    BY <1>6 DEF Accepted
  <2> QED BY <2>1, <2>2, <2>3
<1> QED BY <1>1, <1>5, <1>6, <1>7, <1>8, <1>9

LEMMA MarkReceipts ==
    ASSUME TypeInv, NEW i \in Accepted(seen),
           seen' = [seen EXCEPT ![i] = Decision(i, "applied")],
           Decision(i, "applied") \in Receipt
    PROVE  /\ Retained(seen)' = Retained(seen)
           /\ Accepted(seen)' = Accepted(seen) \ {i}
           /\ seen'[i].req = seen[i].req /\ seen'[i].seq = seen[i].seq
           /\ seen'[i].state = "applied"
           /\ \A j \in Ids : j # i => seen'[j] = seen[j]
<1>1. i \in Ids /\ i \in Retained(seen) /\ seen \in [Ids -> Receipt \cup {None}]
  BY DEF Accepted, Retained, TypeInv, InboxTyped
<1>2. seen'[i] = Decision(i, "applied") /\ \A j \in Ids : j # i => seen'[j] = seen[j]
  BY <1>1
<1>3. /\ seen'[i].req = seen[i].req /\ seen'[i].seq = seen[i].seq
      /\ seen'[i].state = "applied" /\ seen'[i] # None
  BY <1>2, NoneAssumption DEF Decision
<1>4. Retained(seen)' = Retained(seen)
  BY <1>1, <1>2, <1>3 DEF Retained
<1>5. Accepted(seen)' = Accepted(seen) \ {i}
  BY <1>1, <1>2, <1>3, <1>4 DEF Accepted, Retained
<1> QED BY <1>2, <1>3, <1>4, <1>5

-----------------------------------------------------------------------------
(* Receipts and controls. *)

LEMMA ReceiptStep ==
    ASSUME TypeInv, CallInv, ReceiptInv, OwnedInv, [Next]_vars
    PROVE  ReceiptInv'
<1>0. lastSeq \in Nat
  BY DEF TypeInv, InboxTyped
<1>1. ASSUME NEW c \in Callers, SubmitAccepted(c)  PROVE ReceiptInv'
  <2>1. PICK r \in Requests, n \in Nat : Takes(c, r, n)
    BY <1>1, SubmitTakes
  <2>2. n = lastSeq + 1 /\ lastSeq' = n
    BY <2>1 DEF Takes
  <2>3. /\ seen'[r.id].req = r /\ seen'[r.id].seq = n
        /\ \A i \in Retained(seen)' : i = r.id \/ (i \in Retained(seen) /\ seen'[i] = seen[i])
    <3>1. /\ seen'[r.id] = NewReceipt(r, n)
          /\ \A i \in Retained(seen)' : i = r.id \/ (i \in Retained(seen) /\ seen'[i] = seen[i])
      BY <2>1, TakeReceipts
    <3> QED BY <3>1 DEF NewReceipt
  <2>4. \A i \in Retained(seen) : seen[i].seq \in 1..lastSeq
    BY DEF ReceiptInv
  <2> QED BY <1>0, <2>2, <2>3, <2>4 DEF ReceiptInv
<1>2. CASE CloseDisplaced \/ FinishLoop \/ PersistStep
  <2>1. PICK V \in [Ids -> Terminal] : Decides(V)
    BY <1>2, DecideCases
  <2>2. lastSeq' = lastSeq
    BY <2>1 DEF Decides
  <2>3. \A i \in Retained(seen)' :
           i \in Retained(seen) /\ seen'[i].req = seen[i].req /\ seen'[i].seq = seen[i].seq
    BY <2>1, DecideReceipts
  <2> QED BY <2>2, <2>3 DEF ReceiptInv
<1>3. CASE MarkApplied
  <2>1. lastSeq' = lastSeq
    BY <1>3, MarkEffect
  <2>2. CASE seen' = seen
    BY <2>1, <2>2 DEF ReceiptInv, Retained
  <2>3. CASE seen' # seen
    <3>1. PICK i \in Accepted(seen) : /\ seen' = [seen EXCEPT ![i] = Decision(i, "applied")]
                                      /\ Decision(i, "applied") \in Receipt
      BY <1>3, <2>3, MarkEffect
    <3>2. \A j \in Retained(seen)' :
             j \in Retained(seen) /\ seen'[j].req = seen[j].req /\ seen'[j].seq = seen[j].seq
      BY <3>1, MarkReceipts DEF Retained
    <3> QED BY <2>1, <3>2 DEF ReceiptInv
  <2> QED BY <2>2, <2>3
<1>4. CASE Drain \/ Quiet
  <2>1. UNCHANGED <<seen, lastSeq>>
    BY <1>4 DEF Drain, Quiet
  <2> QED BY <2>1 DEF ReceiptInv, Retained
<1> QED BY <1>1, <1>2, <1>3, <1>4, Classify

LEMMA OwnedStep ==
    ASSUME TypeInv, CallInv, ReceiptInv, OwnedInv, TodoInv, [Next]_vars
    PROVE  OwnedInv'
<1>0. queue \in Seq(Control) /\ inFlight \subseteq Control /\ lastSeq \in Nat
  BY DEF TypeInv, InboxTyped
<1>1. ASSUME NEW c \in Callers, SubmitAccepted(c)  PROVE OwnedInv'
  <2>1. PICK r \in Requests, n \in Nat : Takes(c, r, n)
    BY <1>1, SubmitTakes
  <2> DEFINE k == NewControl(r, n)
  <2>2. k \in Control /\ k.req = r /\ k.seq = n
    BY DEF NewControl, Control
  <2>3. queue' = Append(queue, k) /\ inFlight' = inFlight
    BY <2>1 DEF Takes
  <2> HIDE DEF k
  <2>4. /\ r.id \notin Retained(seen) /\ seen'[r.id] = NewReceipt(r, n)
        /\ Accepted(seen)' = Accepted(seen) \cup {r.id}
        /\ \A i \in Accepted(seen) : i # r.id /\ seen'[i] = seen[i]
    BY <2>1, TakeReceipts
  <2>5. Elements(queue)' = Elements(queue) \cup {k}
    BY <1>0, <2>2, <2>3, ElementsAppend DEF Elements
  <2>6. Pending' = Pending \cup {k}
    BY <2>3, <2>5 DEF Pending
  <2>7. k \notin Pending
    BY <2>2, <2>4 DEF OwnedInv, Accepted
  <2>8. ControlOf(r.id)' = k
    BY <2>4 DEF ControlOf, NewReceipt, NewControl, k
  <2>9. \A i \in Accepted(seen) : ControlOf(i)' = ControlOf(i)
    BY <2>4 DEF ControlOf
  <2>10. \A l \in Pending' : l.req.id \in Accepted(seen)' /\ l = ControlOf(l.req.id)'
    BY <2>2, <2>4, <2>6, <2>8, <2>9 DEF OwnedInv
  <2>11. \A i \in Accepted(seen)' : ControlOf(i)' \in Pending'
    BY <2>4, <2>6, <2>8, <2>9 DEF OwnedInv
  <2>12. \A i, j \in 1..Len(queue') : queue'[i] = queue'[j] => i = j
    <3>1. /\ Len(queue') = Len(queue) + 1 /\ queue'[Len(queue) + 1] = k /\ Len(queue) \in Nat
          /\ \A i \in 1..Len(queue) : queue'[i] = queue[i]
      BY <1>0, <2>2, <2>3
    <3>2. \A i \in 1..Len(queue) : queue[i] # k
      BY <2>7 DEF Pending, Elements
    <3> QED BY <3>1, <3>2 DEF OwnedInv
  <2>13. Elements(queue)' \cap inFlight' = {}
    BY <2>3, <2>5, <2>7 DEF OwnedInv, Pending
  <2> QED BY <2>3, <2>10, <2>11, <2>12, <2>13 DEF OwnedInv
<1>2. CASE Drain
  <2>1. queue' = <<>> /\ inFlight' = inFlight \cup Elements(queue) /\ seen' = seen
    BY <1>2 DEF Drain
  <2>2. Elements(queue)' = {} /\ Pending' = Pending
    BY <2>1 DEF Pending, Elements
  <2>3. IsFiniteSet(inFlight')
    BY <1>0, <2>1, ElementsFinite, FS_Union DEF OwnedInv
  <2>4. \A k \in Pending' : k.req.id \in Accepted(seen)' /\ k = ControlOf(k.req.id)'
    BY <2>1, <2>2 DEF OwnedInv, Accepted, Retained, ControlOf
  <2>5. \A i \in Accepted(seen)' : ControlOf(i)' \in Pending'
    BY <2>1, <2>2 DEF OwnedInv, Accepted, Retained, ControlOf
  <2>6. \A i, j \in 1..Len(queue') : queue'[i] = queue'[j] => i = j
    BY <2>1
  <2> QED BY <2>2, <2>3, <2>4, <2>5, <2>6 DEF OwnedInv
<1>3. CASE MarkApplied
  <2>1. CASE UNCHANGED <<seen, inFlight>>
    <3>1. UNCHANGED <<seen, inFlight, queue>>
      BY <1>3, <2>1, MarkEffect
    <3> QED BY <3>1 DEF OwnedInv, Accepted, Retained, ControlOf, Pending, Elements
  <2>2. CASE ~(UNCHANGED <<seen, inFlight>>)
    <3>1. PICK i \in Accepted(seen) :
             /\ i = Head(todo).req.id
             /\ seen' = [seen EXCEPT ![i] = Decision(i, "applied")]
             /\ Decision(i, "applied") \in Receipt
             /\ inFlight' = {j \in inFlight : j.req.id # i}
      BY <1>3, <2>2, MarkEffect
    <3>2. queue' = queue /\ worker = "apply" /\ todo # <<>>
      BY <1>3, MarkEffect
    <3>3. Head(todo) \in inFlight
      <4>1. todo \in Seq(Control)
        BY DEF TypeInv, WorkerTyped
      <4>2. 1 \in 1..Len(todo) /\ Head(todo) = todo[1]
        BY <3>2, <4>1
      <4>3. ~Decided(seen, i)
        BY DEF Decided, Accepted
      <4> QED BY <3>1, <3>2, <4>2, <4>3 DEF TodoInv
    <3>4. Head(todo) = ControlOf(i)
      BY <3>1, <3>3 DEF OwnedInv, Pending
    <3>5. \A k \in Pending : k.req.id = i => k = Head(todo)
      BY <3>4 DEF OwnedInv
    <3>6. \A k \in Elements(queue) : k.req.id # i
      BY <3>3, <3>5 DEF OwnedInv, Pending
    <3>7. Pending' = {k \in Pending : k.req.id # i}
      BY <3>1, <3>2, <3>6 DEF Pending, Elements
    <3>8. Accepted(seen)' = Accepted(seen) \ {i} /\ \A j \in Ids : j # i => seen'[j] = seen[j]
      BY <3>1, MarkReceipts
    <3>9. \A j \in Accepted(seen)' : j # i /\ j \in Accepted(seen) /\ ControlOf(j)' = ControlOf(j)
      BY <3>8 DEF ControlOf, Accepted, Retained
    <3>10. \A k \in Pending' : k.req.id \in Accepted(seen)' /\ k = ControlOf(k.req.id)'
      BY <3>7, <3>8, <3>9 DEF OwnedInv
    <3>11. ASSUME NEW j \in Accepted(seen)'  PROVE ControlOf(j)' \in Pending'
      <4>1. ControlOf(j) \in Pending /\ ControlOf(j).req.id = j
        BY <3>9, AcceptedControlsOwned DEF OwnedInv
      <4> QED BY <3>7, <3>9, <4>1
    <3>12. IsFiniteSet(inFlight') /\ Elements(queue)' \cap inFlight' = {}
      BY <3>1, <3>2, FS_Subset DEF OwnedInv, Elements
    <3>13. \A p, q \in 1..Len(queue') : queue'[p] = queue'[q] => p = q
      BY <3>2 DEF OwnedInv
    <3> QED BY <3>10, <3>11, <3>12, <3>13 DEF OwnedInv
  <2> QED BY <2>1, <2>2
<1>4. CASE CloseDisplaced \/ FinishLoop \/ PersistStep
  <2>1. PICK V \in [Ids -> Terminal] : Decides(V)
    BY <1>4, DecideCases
  <2>2. queue' = <<>> /\ inFlight' = {}
    BY <2>1 DEF Decides
  <2>3. Accepted(seen)' = {}
    BY <2>1, DecideReceipts
  <2>4. Pending' = {} /\ Elements(queue)' = {} /\ Len(queue') = 0
    BY <2>2 DEF Pending, Elements
  <2> QED BY <2>2, <2>3, <2>4, FS_EmptySet DEF OwnedInv
<1>5. CASE Quiet
  BY <1>5 DEF Quiet, OwnedInv, Accepted, Retained, ControlOf, Pending, Elements
<1> QED BY <1>1, <1>2, <1>3, <1>4, <1>5, Classify

-----------------------------------------------------------------------------
(* Submissions. *)

LEMMA PostFrame ==
    ASSUME [Next]_vars, ~MarkApplied, ~CloseDisplaced, ~FinishLoop, ~PersistStep,
           ~ObserveTerminal, ~(\E c \in Callers : RecordAccepted(c))
    PROVE  UNCHANGED postVars
BY DEF Next, Submission, BeginSubmit, EnterGate, HookRefuses, HookContinues, SubmitRefused,
       SubmitAccepted, FireInterrupt, DropSubmit, Worker, UpdateTurn, Drain, EmitApplied,
       SafePointDone, PersistStep, CommitterFails, SealAndObserve, SealPublication,
       GuardianJoins, LoseWorker, RequestCancel,
       SealNewRequests, CancelToken, CancelTooLate, Tick, postVars, vars

LEMMA AppendTyped ==
    ASSUME NEW D, NEW S, NEW f \in [D -> Seq(S)], NEW x \in S, NEW m
    PROVE  [f EXCEPT ![m] = Append(@, x)] \in [D -> Seq(S)]
<1>1. \A n \in D : Append(f[n], x) \in Seq(S)
  OBVIOUS
<1>2. \A n \in D : [f EXCEPT ![m] = Append(f[m], x)][n] \in Seq(S)
  BY <1>1
<1> QED BY <1>2

LEMMA PostTypeStep ==
    ASSUME TypeInv, ReceiptInv, OwnedInv, [Next]_vars
    PROVE  PostTyped'
<1>0. PostTyped /\ InboxTyped
  BY DEF TypeInv
<1>1. CASE MarkApplied
  <2>1. CASE UNCHANGED owed
    BY <1>0, <1>1, <2>1, MarkEffect DEF PostTyped
  <2>2. CASE ~(UNCHANGED owed)
    <3>1. /\ Head(todo).req.id \in Accepted(seen) /\ posts' = posts
          /\ owed' = owed \cup {[seq |-> seen[Head(todo).req.id].seq, state |-> "applied"]}
      BY <1>1, <2>2, MarkEffect
    <3>2. seen[Head(todo).req.id].seq \in Nat
      BY <1>0, <3>1, RetainedFacts DEF Accepted
    <3> QED BY <1>0, <3>1, <3>2 DEF PostTyped, Terminal
  <2> QED BY <2>1, <2>2
<1>2. CASE CloseDisplaced \/ FinishLoop \/ PersistStep
  <2>1. PICK V \in [Ids -> Terminal] : Decides(V)
    BY <1>2, DecideCases
  <2>2. /\ posts' = posts
        /\ owed' = owed \cup {[seq |-> seen[i].seq, state |-> V[i]] : i \in Accepted(seen)}
    BY <2>1 DEF Decides
  <2>3. \A i \in Accepted(seen) : i \in Ids /\ seen[i].seq \in Nat /\ V[i] \in Terminal
    BY <1>0, RetainedFacts DEF Accepted
  <2> QED BY <1>0, <2>2, <2>3 DEF PostTyped
<1>3. CASE ObserveTerminal
  <2>1. PICK o \in owed : posts' = [posts EXCEPT ![o.seq] = Append(@, o.state)] /\ owed' = owed \ {o}
    BY <1>3 DEF ObserveTerminal
  <2>2. o.state \in {"accepted"} \cup Terminal
    BY <1>0 DEF PostTyped
  <2>3. posts' \in [1..MaxCalls -> Seq({"accepted"} \cup Terminal)]
    BY <1>0, <2>1, <2>2, AppendTyped DEF PostTyped
  <2> QED BY <1>0, <2>1, <2>3 DEF PostTyped
<1>4. CASE \E c \in Callers : RecordAccepted(c)
  <2>1. PICK c \in Callers : posts' = [posts EXCEPT ![Submitted(c)] = Append(@, "accepted")]
    BY <1>4 DEF RecordAccepted
  <2>2. owed' = owed
    BY <1>4 DEF RecordAccepted
  <2>3. posts' \in [1..MaxCalls -> Seq({"accepted"} \cup Terminal)]
    BY <1>0, <2>1, AppendTyped DEF PostTyped
  <2> QED BY <1>0, <2>2, <2>3 DEF PostTyped
<1>5. CASE UNCHANGED postVars
  BY <1>0, <1>5 DEF PostTyped, postVars
<1> QED BY <1>1, <1>2, <1>3, <1>4, <1>5, PostFrame

(* The token is fired once and for all. *)
LEMMA FiredKept ==
    ASSUME TypeInv, [Next]_vars
    PROVE  fired' = fired \/ fired' = TRUE
BY DEF Next, Submission, BeginSubmit, EnterGate, HookRefuses, HookContinues, SubmitRefused,
       SubmitAccepted, FireInterrupt, RecordAccepted, DropSubmit, Worker, UpdateTurn, Drain,
       MarkApplied, EmitApplied, SafePointDone, FinishLoop, PersistSafePoint, PersistTerminal,
       CommitterFails, SealAndObserve, SealPublication, GuardianJoins, GuardianSettles,
       LoseWorker, CloseDisplaced,
       RequestCancel, SealNewRequests, CancelToken, CancelTooLate, ObserveTerminal, Tick,
       hostVars, vars

LEMMA RunTypeStep ==
    ASSUME TypeInv, [Next]_vars
    PROVE  RunTyped' /\ mode' = mode
<1>0. RunTyped
  BY DEF TypeInv
<1>1. fired' \in BOOLEAN
  BY <1>0, FiredKept DEF RunTyped
<1>2. UNCHANGED <<mode, hooks>> /\ now' \in {now, now + 1}
  BY DEF Next, Submission, BeginSubmit, EnterGate, HookRefuses, HookContinues, SubmitRefused,
       SubmitAccepted, FireInterrupt, RecordAccepted, DropSubmit, Worker, UpdateTurn, Drain,
       MarkApplied, EmitApplied, SafePointDone, FinishLoop, PersistSafePoint, PersistTerminal,
       CommitterFails, SealAndObserve, SealPublication, GuardianJoins, GuardianSettles,
       LoseWorker, CloseDisplaced,
       RequestCancel, SealNewRequests, CancelToken, CancelTooLate, ObserveTerminal, Tick,
       runVars, vars
<1>3. host' \in {host, "requested", "sealed", "cancelled", "refused"}
  BY DEF Next, Submission, BeginSubmit, EnterGate, HookRefuses, HookContinues, SubmitRefused,
       SubmitAccepted, FireInterrupt, RecordAccepted, DropSubmit, Worker, UpdateTurn, Drain,
       MarkApplied, EmitApplied, SafePointDone, FinishLoop, PersistSafePoint, PersistTerminal,
       CommitterFails, SealAndObserve, SealPublication, GuardianJoins, GuardianSettles,
       LoseWorker, CloseDisplaced,
       RequestCancel, SealNewRequests, CancelToken, CancelTooLate, ObserveTerminal, Tick,
       hostVars, vars
<1> QED BY <1>0, <1>1, <1>2, <1>3 DEF RunTyped

(* A submission about to be admitted still has a number to take. *)
LEMMA NumberLeft ==
    ASSUME TypeInv, CountInv, NEW c \in Entered
    PROVE  lastSeq + 1 \in 1..MaxCalls
<1>1. lastSeq \in Nat /\ calls \in Nat /\ MaxCalls \in Nat
  BY BoundsAssumption DEF TypeInv, InboxTyped, CallTyped
<1>2. Cardinality(Entered) \in Nat /\ Cardinality(Entered) # 0
  BY FS_CardinalityType, FS_EmptySet DEF CountInv
<1> QED BY <1>1, <1>2 DEF CountInv

LEMMA CallStep ==
    ASSUME TypeInv, CallInv, CountInv, ReceiptInv, OwnedInv, PostInv, [Next]_vars
    PROVE  CallInv'
<1> SUFFICES ASSUME NEW d \in Callers PROVE CallerInv(d)'
  BY DEF CallInv
<1>0. /\ call \in [Callers -> [pc : {"idle", "entering", "hook", "submit", "fire", "record"},
                               req : Requests \cup {None}, at : Nat]]
      /\ gate \in Callers \cup {None} /\ None \notin Callers
  BY BoundsAssumption DEF TypeInv, CallTyped
<1>a. CallerInv(d)
  BY DEF CallInv
<1>1. ASSUME NEW c \in Callers, Submission(c)  PROVE CallerInv(d)'
  <2>0. CallerInv(c)
    BY DEF CallInv
  <2>1. ASSUME call'[d] = call[d], UNCHANGED <<seen, lastSeq, posts, fired, gate>>
        PROVE  CallerInv(d)'
    BY <1>a, <2>1 DEF CallerInv, Accepted, Retained
  <2>2. ASSUME d # c, call'[d] = call[d], gate \in {None, c}, gate' \in {None, c}
        PROVE  CallerInv(d)'
    BY <1>0, <1>a, <2>2 DEF CallerInv, Inside
  <2>3. ASSUME c = d, Return(c), gate' # c  PROVE CallerInv(d)'
    <3>1. call'[c].pc = "idle"
      BY <1>0, <2>3 DEF Return
    <3> QED BY <2>3, <3>1 DEF CallerInv, Inside
  <2>4. CASE BeginSubmit(c)
    <3>1. PICK r \in Requests : call' = [call EXCEPT ![c] = [pc |-> "entering", req |-> r, at |-> now]]
      BY <2>4 DEF BeginSubmit
    <3>2. UNCHANGED <<seen, lastSeq, posts, fired, gate>> /\ call[c].pc = "idle"
      BY <2>4 DEF BeginSubmit, inboxVars, postVars, hostVars
    <3>3. CASE d # c
      BY <1>0, <2>1, <3>1, <3>2, <3>3
    <3>4. CASE d = c
      <4>1. call'[c].pc = "entering" /\ call'[c].req = r
        BY <1>0, <3>1
      <4>2. gate' # c
        BY <2>0, <3>2 DEF CallerInv, Inside
      <4> QED BY <3>4, <4>1, <4>2 DEF CallerInv, Inside
    <3> QED BY <3>3, <3>4
  <2>5. CASE EnterGate(c)
    <3>1. UNCHANGED <<seen, lastSeq, posts, fired>> /\ call[c].pc = "entering" /\ gate = None
      BY <2>5 DEF EnterGate, inboxVars, postVars, hostVars
    <3>2. CASE Return(c) /\ gate' = gate
      <4>1. \A e \in Callers : e # c => call'[e] = call[e]
        BY <1>0, <3>2 DEF Return
      <4> QED BY <1>0, <2>1, <2>3, <3>1, <3>2, <4>1
    <3>3. CASE Goto(c, "hook") /\ gate' = c
      <4>1. /\ \A e \in Callers : e # c => call'[e] = call[e]
            /\ call'[c].pc = "hook" /\ call'[c].req = call[c].req
        BY <1>0, <3>3 DEF Goto
      <4>2. CASE d = c
        BY <2>0, <3>1, <3>3, <4>1, <4>2 DEF CallerInv, Inside
      <4> QED BY <2>2, <3>1, <3>3, <4>1, <4>2
    <3> QED BY <2>5, <3>2, <3>3 DEF EnterGate
  <2>6. CASE HookRefuses(c) \/ SubmitRefused(c) \/ RecordAccepted(c)
    <3>1. Return(c) /\ gate' = None /\ call[c].pc \in Inside
      BY <2>6 DEF HookRefuses, SubmitRefused, RecordAccepted, Inside
    <3>2. gate = c
      BY <2>0, <3>1 DEF CallerInv
    <3>3. \A e \in Callers : e # c => call'[e] = call[e]
      BY <1>0, <3>1 DEF Return
    <3> QED BY <1>0, <2>2, <2>3, <3>1, <3>2, <3>3
  <2>7. CASE DropSubmit(c)
    <3>1. /\ Return(c) /\ gate' = (IF gate = c THEN None ELSE gate)
          /\ UNCHANGED <<seen, lastSeq, posts, fired>>
      BY <2>7 DEF DropSubmit, inboxVars, postVars, hostVars
    <3>2. \A e \in Callers : e # c => call'[e] = call[e]
      BY <1>0, <3>1 DEF Return
    <3> QED BY <1>0, <2>1, <2>2, <2>3, <3>1, <3>2
  <2>8. CASE HookContinues(c)
    <3>1. UNCHANGED <<seen, lastSeq, posts, fired, gate>> /\ call[c].pc = "hook"
      BY <2>8 DEF HookContinues, inboxVars, postVars, hostVars
    <3>2. /\ \A e \in Callers : e # c => call'[e] = call[e]
          /\ call'[c].pc = "submit" /\ call'[c].req = call[c].req
      BY <1>0, <2>8 DEF HookContinues, Goto
    <3>3. CASE d = c
      BY <2>0, <3>1, <3>2, <3>3 DEF CallerInv, Inside
    <3> QED BY <2>1, <3>1, <3>2, <3>3
  <2>9. CASE SubmitAccepted(c)
    <3>1. PICK r \in Requests, n \in Nat : Takes(c, r, n)
      BY <2>9, SubmitTakes
    <3>2. /\ call[c].pc = "submit" /\ call[c].req = r /\ n = lastSeq + 1 /\ lastSeq' = n
          /\ UNCHANGED <<gate, posts>>
          /\ call' = [call EXCEPT ![c].pc = IF r.op = "interrupt" THEN "fire" ELSE "record"]
      BY <3>1 DEF Takes, postVars
    <3>3. gate = c
      BY <2>0, <3>2 DEF CallerInv, Inside
    <3>4. \A e \in Callers : e # c => call'[e] = call[e]
      BY <1>0, <3>2
    <3>5. CASE d = c
      <4>1. /\ call'[c].pc \in {"fire", "record"} /\ call'[c].req = r
            /\ call'[c].pc = "record" => r.op # "interrupt"
        BY <1>0, <3>2
      <4>2. seen'[r.id] = NewReceipt(r, n) /\ r.id \in Accepted(seen)'
        BY <3>1, TakeReceipts
      <4>3. seen'[r.id].req = r /\ seen'[r.id].seq = n
        BY <4>2 DEF NewReceipt
      <4>4. n \in 1..MaxCalls
        BY <3>2, NumberLeft DEF Entered
      <4>5. posts'[n] = <<>>
        <5>1. DOMAIN posts = 1..MaxCalls /\ lastSeq \in Nat
          BY DEF TypeInv, PostTyped, InboxTyped
        <5>2. n > lastSeq
          BY <3>2, <5>1
        <5> QED BY <3>2, <4>4, <5>1, <5>2 DEF PostInv
      <4> QED BY <3>2, <3>3, <3>5, <4>1, <4>2, <4>3, <4>5 DEF CallerInv, Inside
    <3> QED BY <2>2, <3>2, <3>3, <3>4, <3>5
  <2>10. CASE FireInterrupt(c)
    <3>1. /\ UNCHANGED <<seen, lastSeq, posts, gate>> /\ fired' = TRUE /\ call[c].pc = "fire"
      BY <2>10 DEF FireInterrupt, inboxVars, postVars
    <3>2. /\ \A e \in Callers : e # c => call'[e] = call[e]
          /\ call'[c].pc = "record" /\ call'[c].req = call[c].req
      BY <1>0, <2>10 DEF FireInterrupt, Goto
    <3>3. gate = c
      BY <2>0, <3>1 DEF CallerInv, Inside
    <3>4. CASE d = c
      BY <2>0, <3>1, <3>2, <3>3, <3>4 DEF CallerInv, Inside, Accepted, Retained
    <3> QED BY <2>2, <3>1, <3>2, <3>3, <3>4
  <2> QED BY <1>1, <2>4, <2>5, <2>6, <2>7, <2>8, <2>9, <2>10 DEF Submission
<1>2. CASE ~(\E c \in Callers : Submission(c))
  <2>1. call' = call /\ gate' = gate
    BY <1>2, CallFrame DEF callVars
  <2>2. CASE d # gate
    BY <1>a, <2>1, <2>2 DEF CallerInv, Inside
  <2>3. CASE d = gate
    <3>1. ~MarkApplied /\ ~Drain /\ ~CloseDisplaced /\ ~FinishLoop /\ ~PersistStep
      BY <1>0, <2>3 DEF MarkApplied, Drain, CloseDisplaced, FinishLoop, Close, PersistStep,
         PersistSafePoint, PersistTerminal, GuardianSettles, PersistPending
    <3>2. seen' = seen /\ lastSeq' = lastSeq
      BY <1>2, <3>1, Classify DEF Quiet, Submission
    <3>3. fired => fired'
      BY FiredKept
    <3>4. ASSUME call[d].pc \in {"fire", "record"}  PROVE posts'[lastSeq] = <<>>
      <4>1. CASE ObserveTerminal
        <5>1. PICK o \in owed : posts' = [posts EXCEPT ![o.seq] = Append(@, o.state)]
          BY <4>1 DEF ObserveTerminal
        <5>2. call[d].req.id \in Accepted(seen) /\ seen[call[d].req.id].seq = lastSeq /\ posts[lastSeq] = <<>>
          BY <1>a, <3>4 DEF CallerInv
        <5>3. o.seq # lastSeq
          BY <5>2 DEF PostInv
        <5>4. posts'[lastSeq] = posts[lastSeq]
          BY <5>1, <5>3 DEF TypeInv, PostTyped
        <5> QED BY <5>2, <5>4
      <4>2. CASE ~ObserveTerminal
        <5>1. UNCHANGED postVars
          BY <1>2, <3>1, <4>2, PostFrame DEF Submission
        <5> QED BY <1>a, <3>4, <5>1 DEF CallerInv, postVars
      <4> QED BY <4>1, <4>2
    <3> QED BY <1>a, <2>1, <3>2, <3>3, <3>4 DEF CallerInv, Accepted, Retained
  <2> QED BY <2>2, <2>3
<1> QED BY <1>1, <1>2

(* Numbers left to give. *)
LEMMA CountStep ==
    ASSUME TypeInv, CallInv, CountInv, ReceiptInv, OwnedInv, [Next]_vars
    PROVE  CountInv'
<1>0. /\ call \in [Callers -> [pc : {"idle", "entering", "hook", "submit", "fire", "record"},
                               req : Requests \cup {None}, at : Nat]]
      /\ calls \in Nat /\ lastSeq \in Nat /\ MaxCalls \in Nat
  BY BoundsAssumption DEF TypeInv, CallTyped, InboxTyped
<1>1. IsFiniteSet(Entered) /\ Cardinality(Entered) \in Nat
  BY FS_CardinalityType DEF CountInv
<1>2. ASSUME NEW c \in Callers, BeginSubmit(c)  PROVE CountInv'
  <2>1. PICK r : call' = [call EXCEPT ![c] = [pc |-> "entering", req |-> r, at |-> now]]
    BY <1>2 DEF BeginSubmit
  <2>2. call[c].pc = "idle" /\ calls < MaxCalls /\ calls' = calls + 1 /\ lastSeq' = lastSeq
    BY <1>2 DEF BeginSubmit, inboxVars
  <2>3. Entered' = Entered \cup {c} /\ c \notin Entered
    <3>1. call'[c].pc = "entering" /\ \A e \in Callers : e # c => call'[e] = call[e]
      BY <1>0, <2>1
    <3> QED BY <2>2, <3>1 DEF Entered
  <2>4. IsFiniteSet(Entered') /\ Cardinality(Entered') = Cardinality(Entered) + 1
    BY <1>1, <2>3, FS_AddElement
  <2> QED BY <1>0, <1>1, <2>2, <2>4 DEF CountInv
<1>3. ASSUME NEW c \in Callers, SubmitAccepted(c)  PROVE CountInv'
  <2>1. PICK r \in Requests, n \in Nat : Takes(c, r, n)
    BY <1>3, SubmitTakes
  <2>2. /\ call[c].pc = "submit" /\ n = lastSeq + 1 /\ lastSeq' = n /\ calls' = calls
        /\ call' = [call EXCEPT ![c].pc = IF r.op = "interrupt" THEN "fire" ELSE "record"]
    BY <2>1 DEF Takes
  <2>3. Entered' = Entered \ {c} /\ c \in Entered
    <3>1. call'[c].pc \in {"fire", "record"} /\ \A e \in Callers : e # c => call'[e] = call[e]
      BY <1>0, <2>2
    <3> QED BY <2>2, <3>1 DEF Entered
  <2>4. IsFiniteSet(Entered') /\ Cardinality(Entered') = Cardinality(Entered) - 1
    BY <1>1, <2>3, FS_RemoveElement
  <2> QED BY <1>0, <1>1, <2>2, <2>4 DEF CountInv
<1>4. ASSUME Entered' \subseteq Entered, calls' = calls, lastSeq' = lastSeq  PROVE CountInv'
  <2>1. IsFiniteSet(Entered') /\ Cardinality(Entered') <= Cardinality(Entered)
    BY <1>1, <1>4, FS_Subset
  <2>2. Cardinality(Entered') \in Nat
    BY <2>1, FS_CardinalityType
  <2> QED BY <1>0, <1>1, <1>4, <2>1, <2>2 DEF CountInv
<1>5. ASSUME NEW c \in Callers, Submission(c), ~BeginSubmit(c), ~SubmitAccepted(c)
      PROVE  CountInv'
  <2>1. calls' = calls /\ lastSeq' = lastSeq
    BY <1>5 DEF Submission, EnterGate, HookRefuses, HookContinues, SubmitRefused,
       FireInterrupt, RecordAccepted, DropSubmit, inboxVars
  <2>2. CASE Return(c)
    BY <1>0, <1>4, <2>1, <2>2 DEF Return, Entered
  <2>3. CASE EnterGate(c) /\ Goto(c, "hook")
    <3>1. call[c].pc = "entering"
      BY <2>3 DEF EnterGate
    <3> QED BY <1>0, <1>4, <2>1, <2>3, <3>1 DEF Goto, Entered
  <2>4. CASE HookContinues(c)
    <3>1. call[c].pc = "hook" /\ Goto(c, "submit")
      BY <2>4 DEF HookContinues
    <3> QED BY <1>0, <1>4, <2>1, <3>1 DEF Goto, Entered
  <2>5. CASE FireInterrupt(c)
    <3>1. Goto(c, "record")
      BY <2>5 DEF FireInterrupt
    <3> QED BY <1>0, <1>4, <2>1, <3>1 DEF Goto, Entered
  <2> QED BY <1>5, <2>2, <2>3, <2>4, <2>5 DEF Submission, EnterGate, HookRefuses,
             SubmitRefused, RecordAccepted, DropSubmit
<1>6. CASE ~(\E c \in Callers : Submission(c))
  <2>1. call' = call /\ calls' = calls
    BY <1>6, CallFrame DEF callVars
  <2>2. lastSeq' = lastSeq
    <3>1. CASE CloseDisplaced \/ FinishLoop \/ PersistStep
      BY <3>1, DecideCases DEF Decides
    <3>2. CASE Drain \/ MarkApplied \/ Quiet
      BY <3>2 DEF Drain, MarkApplied, Quiet
    <3> QED BY <1>6, <3>1, <3>2, Classify DEF Submission
  <2> QED BY <1>4, <2>1, <2>2 DEF Entered
<1> QED BY <1>2, <1>3, <1>5, <1>6
-----------------------------------------------------------------------------
(* Post-hooks. *)

LEMMA SecondSeen ==
    ASSUME NEW x
    PROVE  /\ Len(Append(<<"accepted">>, x)) = 2
           /\ Append(<<"accepted">>, x)[1] = "accepted"
           /\ Append(<<"accepted">>, x)[2] = x
<1>1. <<"accepted">> \in Seq({"accepted", x}) /\ Len(<<"accepted">>) = 1 /\ <<"accepted">>[1] = "accepted"
  OBVIOUS
<1> QED BY <1>1

LEMMA PostStep ==
    ASSUME TypeInv, CallInv, CountInv, ReceiptInv, OwnedInv, PostInv, [Next]_vars
    PROVE  PostInv'
<1>0. /\ lastSeq \in 0..MaxCalls /\ DOMAIN posts = 1..MaxCalls /\ MaxCalls \in Nat
      /\ posts \in [1..MaxCalls -> Seq({"accepted"} \cup Terminal)]
  <2>1. /\ lastSeq \in Nat /\ calls \in Nat /\ MaxCalls \in Nat
        /\ posts \in [1..MaxCalls -> Seq({"accepted"} \cup Terminal)]
    BY BoundsAssumption DEF TypeInv, InboxTyped, CallTyped, PostTyped
  <2>2. Cardinality(Entered) \in Nat
    BY FS_CardinalityType DEF CountInv
  <2> QED BY <2>1, <2>2 DEF CountInv
<1>a. InboxTyped
  BY DEF TypeInv
<1>b. \A i \in Accepted(seen) : i \in Retained(seen) /\ i \in Ids /\ seen[i].seq \in 1..lastSeq
  BY <1>a, RetainedFacts DEF ReceiptInv, Accepted
<1>1. ASSUME NEW c \in Callers, SubmitAccepted(c)  PROVE PostInv'
  <2>1. PICK r \in Requests, n \in Nat : Takes(c, r, n)
    BY <1>1, SubmitTakes
  <2>2. n = lastSeq + 1 /\ lastSeq' = n /\ posts' = posts /\ owed' = owed /\ call[c].pc = "submit"
    BY <2>1 DEF Takes, postVars
  <2>3. n \in 1..MaxCalls
    BY <2>2, NumberLeft DEF Entered
  <2>4. posts[n] = <<>>
    BY <1>0, <2>2, <2>3 DEF PostInv
  <2>5. /\ seen'[r.id].seq = n
        /\ Accepted(seen)' = Accepted(seen) \cup {r.id}
        /\ \A i \in Accepted(seen) : seen'[i] = seen[i]
    <3>1. /\ seen'[r.id] = NewReceipt(r, n)
          /\ Accepted(seen)' = Accepted(seen) \cup {r.id}
          /\ \A i \in Accepted(seen) : seen'[i] = seen[i]
      BY <2>1, TakeReceipts
    <3> QED BY <3>1 DEF NewReceipt
  <2>6. \A o \in owed' : o.seq \in 1..lastSeq' /\ posts'[o.seq] \in Unseen
    BY <1>0, <2>2 DEF PostInv
  <2>7. \A o \in owed' : o.seq # n
    BY <1>0, <2>2 DEF PostInv
  <2>8. \A i \in Accepted(seen)' :
          posts'[seen'[i].seq] \in Unseen /\ \A o \in owed' : o.seq # seen'[i].seq
    BY <2>2, <2>4, <2>5, <2>7 DEF PostInv, Unseen
  <2>9. \A m \in DOMAIN posts' : m > lastSeq' => posts'[m] = <<>>
    BY <1>0, <2>2 DEF PostInv
  <2> QED BY <2>2, <2>6, <2>8, <2>9 DEF PostInv, PostsInOrder, Unseen
<1>2. ASSUME NEW i \in Accepted(seen), NEW v \in Terminal,
             UNCHANGED <<posts, lastSeq>>, Accepted(seen)' = Accepted(seen) \ {i},
             \A j \in Accepted(seen)' : seen'[j] = seen[j],
             owed' = owed \cup {[seq |-> seen[i].seq, state |-> v]}
      PROVE  PostInv'
  <2>1. /\ \A o \in owed : o.seq # seen[i].seq /\ posts[seen[i].seq] \in Unseen
        /\ posts[seen[i].seq] \in Unseen
    BY DEF PostInv
  <2>2. \A o \in owed' : o.seq \in 1..lastSeq' /\ posts'[o.seq] \in Unseen
    BY <1>2, <1>b, <2>1 DEF PostInv
  <2>3. \A o, p \in owed' : o.seq = p.seq => o = p
    BY <1>2, <2>1 DEF PostInv
  <2>4. \A j \in Accepted(seen)' : j \in Accepted(seen) /\ j # i /\ seen'[j].seq # seen[i].seq
    BY <1>2, <1>b DEF ReceiptInv
  <2>5. \A j \in Accepted(seen)' :
          posts'[seen'[j].seq] \in Unseen /\ \A o \in owed' : o.seq # seen'[j].seq
    BY <1>2, <2>4 DEF PostInv
  <2> QED BY <1>2, <2>2, <2>3, <2>5 DEF PostInv, PostsInOrder
<1>3. CASE MarkApplied
  <2>1. UNCHANGED <<posts, lastSeq>>
    BY <1>3, MarkEffect
  <2>2. CASE UNCHANGED <<seen, owed>>
    BY <2>1, <2>2 DEF PostInv, PostsInOrder, Accepted, Retained
  <2>3. CASE ~(UNCHANGED <<seen, owed>>)
    <3>1. PICK i \in Accepted(seen) :
             /\ seen' = [seen EXCEPT ![i] = Decision(i, "applied")]
             /\ Decision(i, "applied") \in Receipt
             /\ owed' = owed \cup {[seq |-> seen[i].seq, state |-> "applied"]}
      BY <1>3, <2>3, MarkEffect
    <3>2. Accepted(seen)' = Accepted(seen) \ {i} /\ \A j \in Ids : j # i => seen'[j] = seen[j]
      BY <3>1, MarkReceipts
    <3>3. \A j \in Accepted(seen)' : seen'[j] = seen[j]
      BY <1>b, <3>2
    <3>4. "applied" \in Terminal
      BY DEF Terminal
    <3> QED BY <1>2, <2>1, <3>1, <3>2, <3>3, <3>4
  <2> QED BY <2>2, <2>3
<1>4. CASE CloseDisplaced \/ FinishLoop \/ PersistStep
  <2>1. PICK V \in [Ids -> Terminal] : Decides(V)
    BY <1>4, DecideCases
  <2>2. /\ UNCHANGED <<posts, lastSeq>>
        /\ owed' = owed \cup {[seq |-> seen[i].seq, state |-> V[i]] : i \in Accepted(seen)}
    BY <2>1 DEF Decides
  <2>3. Accepted(seen)' = {}
    BY <2>1, DecideReceipts
  <2>4. ASSUME NEW o \in owed'
        PROVE  \/ o \in owed
               \/ \E i \in Accepted(seen) : o = [seq |-> seen[i].seq, state |-> V[i]]
    BY <2>2
  <2>5. \A o \in owed' : o.seq \in 1..lastSeq' /\ posts'[o.seq] \in Unseen
    BY <1>b, <2>2, <2>4 DEF PostInv
  <2>6. ASSUME NEW o \in owed', NEW p \in owed', o.seq = p.seq  PROVE o = p
    <3>1. CASE o \in owed /\ p \in owed
      BY <2>6, <3>1 DEF PostInv
    <3>2. CASE \E i \in Accepted(seen) : o = [seq |-> seen[i].seq, state |-> V[i]]
      <4>1. PICK i \in Accepted(seen) : o = [seq |-> seen[i].seq, state |-> V[i]]
        BY <3>2
      <4>2. p \notin owed
        BY <2>6, <4>1 DEF PostInv
      <4>3. PICK j \in Accepted(seen) : p = [seq |-> seen[j].seq, state |-> V[j]]
        BY <2>4, <4>2
      <4>4. i = j
        BY <1>b, <2>6, <4>1, <4>3 DEF ReceiptInv
      <4> QED BY <4>1, <4>3, <4>4
    <3>3. CASE \E i \in Accepted(seen) : p = [seq |-> seen[i].seq, state |-> V[i]]
      <4>1. PICK i \in Accepted(seen) : p = [seq |-> seen[i].seq, state |-> V[i]]
        BY <3>3
      <4>2. o \notin owed
        BY <2>6, <4>1 DEF PostInv
      <4> QED BY <2>4, <3>2, <4>2
    <3> QED BY <2>4, <3>1, <3>2, <3>3
  <2> QED BY <2>2, <2>3, <2>5, <2>6 DEF PostInv, PostsInOrder
<1>5. ASSUME NEW m \in 1..MaxCalls, NEW x \in {"accepted"} \cup Terminal,
             posts' = [posts EXCEPT ![m] = Append(@, x)]
      PROVE  /\ DOMAIN posts' = 1..MaxCalls
             /\ posts'[m] = Append(posts[m], x)
             /\ \A n \in 1..MaxCalls : n # m => posts'[n] = posts[n]
  BY <1>0, <1>5
<1>6. ASSUME NEW c \in Callers, RecordAccepted(c)  PROVE PostInv'
  <2> DEFINE m == lastSeq
  <2>1. /\ call[c].pc = "record" /\ UNCHANGED <<owed, seen, lastSeq>>
        /\ posts' = [posts EXCEPT ![Submitted(c)] = Append(@, "accepted")]
    BY <1>6 DEF RecordAccepted, inboxVars
  <2>2. CallerInv(c)
    BY DEF CallInv
  <2>3. /\ call[c].req.id \in Accepted(seen) /\ Submitted(c) = m /\ posts[m] = <<>>
        /\ seen[call[c].req.id].seq = m
    BY <2>1, <2>2 DEF CallerInv, Submitted
  <2>4. m \in 1..MaxCalls
    BY <1>0, <1>b, <2>3
  <2>5. /\ DOMAIN posts' = 1..MaxCalls
        /\ posts'[m] = Append(<<>>, "accepted")
        /\ \A n \in 1..MaxCalls : n # m => posts'[n] = posts[n]
    BY <1>5, <2>1, <2>3, <2>4
  <2>6. posts'[m] = <<"accepted">> /\ Len(posts'[m]) = 1
    BY <2>5
  <2>7. \A o \in owed : o.seq # m
    BY <2>3 DEF PostInv
  <2>8. \A o \in owed' : o.seq \in 1..lastSeq' /\ posts'[o.seq] \in Unseen
    BY <1>0, <2>1, <2>5, <2>7 DEF PostInv
  <2>9. ASSUME NEW i \in Accepted(seen)  PROVE posts'[seen[i].seq] \in Unseen
    <3>1. CASE seen[i].seq = m
      BY <2>6, <3>1 DEF Unseen
    <3>2. CASE seen[i].seq # m
      <4>1. posts'[seen[i].seq] = posts[seen[i].seq]
        BY <1>0, <1>b, <2>5, <3>2
      <4> QED BY <4>1 DEF PostInv
    <3> QED BY <3>1, <3>2
  <2>10. \A n \in DOMAIN posts' : n > lastSeq => posts'[n] = <<>>
    BY <1>0, <2>5 DEF PostInv
  <2>11. PostsInOrder'
    <3> SUFFICES ASSUME NEW n \in 1..MaxCalls
                 PROVE  /\ Len(posts'[n]) <= 2
                        /\ Len(posts'[n]) = 2 => posts'[n][1] = "accepted" /\ posts'[n][2] \in Terminal
      BY <2>5 DEF PostsInOrder
    <3>1. CASE n = m
      BY <2>6, <3>1
    <3>2. CASE n # m
      BY <1>0, <2>5, <3>2 DEF PostInv, PostsInOrder
    <3> QED BY <3>1, <3>2
  <2>12. \A o, p \in owed' : o.seq = p.seq => o = p
    BY <2>1 DEF PostInv
  <2>13. \A i \in Accepted(seen)' :
          posts'[seen'[i].seq] \in Unseen /\ \A o \in owed' : o.seq # seen'[i].seq
    BY <2>1, <2>9 DEF PostInv, Accepted, Retained
  <2> QED BY <2>1, <2>8, <2>10, <2>11, <2>12, <2>13 DEF PostInv
<1>7. CASE ObserveTerminal
  <2>1. PICK o \in owed : /\ posts' = [posts EXCEPT ![o.seq] = Append(@, o.state)]
                          /\ owed' = owed \ {o}
    BY <1>7 DEF ObserveTerminal
  <2>2. UNCHANGED <<seen, lastSeq>>
    BY <1>7 DEF ObserveTerminal, inboxVars
  <2>3. /\ o.seq \in 1..MaxCalls /\ o.seq \in 1..lastSeq /\ posts[o.seq] \in Unseen
        /\ o.state \in Terminal
    BY <1>0 DEF PostInv, TypeInv, PostTyped
  <2>4. /\ DOMAIN posts' = 1..MaxCalls
        /\ posts'[o.seq] = Append(posts[o.seq], o.state)
        /\ \A n \in 1..MaxCalls : n # o.seq => posts'[n] = posts[n]
    BY <1>5, <2>1, <2>3
  <2>5. \A p \in owed' : p \in owed /\ p.seq # o.seq
    BY <2>1 DEF PostInv
  <2>6. \A p \in owed' : p.seq \in 1..lastSeq' /\ posts'[p.seq] \in Unseen
    BY <1>0, <2>2, <2>4, <2>5 DEF PostInv
  <2>7. \A i \in Accepted(seen) : posts'[seen[i].seq] \in Unseen /\ \A p \in owed' : p.seq # seen[i].seq
    BY <1>0, <1>b, <2>4, <2>5 DEF PostInv
  <2>8. \A n \in DOMAIN posts' : n > lastSeq => posts'[n] = <<>>
    BY <1>0, <2>3, <2>4 DEF PostInv
  <2>9. PostsInOrder'
    <3> SUFFICES ASSUME NEW n \in 1..MaxCalls
                 PROVE  /\ Len(posts'[n]) <= 2
                        /\ Len(posts'[n]) = 2 => posts'[n][1] = "accepted" /\ posts'[n][2] \in Terminal
      BY <2>4 DEF PostsInOrder
    <3>1. CASE n = o.seq
      <4>1. CASE posts[o.seq] = <<>>
        BY <2>4, <3>1, <4>1
      <4>2. CASE posts[o.seq] = <<"accepted">>
        <5>1. posts'[n] = Append(<<"accepted">>, o.state)
          BY <2>4, <3>1, <4>2
        <5>2. /\ Len(Append(<<"accepted">>, o.state)) = 2
              /\ Append(<<"accepted">>, o.state)[1] = "accepted"
              /\ Append(<<"accepted">>, o.state)[2] = o.state
          BY SecondSeen
        <5> QED BY <2>3, <5>1, <5>2
      <4> QED BY <2>3, <4>1, <4>2 DEF Unseen
    <3>2. CASE n # o.seq
      BY <1>0, <2>4, <3>2 DEF PostInv, PostsInOrder
    <3> QED BY <3>1, <3>2
  <2>10. \A p, q \in owed' : p.seq = q.seq => p = q
    BY <2>5 DEF PostInv
  <2>11. \A i \in Accepted(seen)' :
          posts'[seen'[i].seq] \in Unseen /\ \A p \in owed' : p.seq # seen'[i].seq
    BY <2>2, <2>7 DEF Accepted, Retained
  <2> QED BY <2>2, <2>6, <2>8, <2>9, <2>10, <2>11 DEF PostInv
<1>8. CASE UNCHANGED <<seen, lastSeq, owed, posts>>
  BY <1>8 DEF PostInv, PostsInOrder, Accepted, Retained
<1>9. ASSUME ~MarkApplied, ~CloseDisplaced, ~FinishLoop, ~PersistStep,
             ~ObserveTerminal, ~(\E c \in Callers : RecordAccepted(c)),
             ~(\E c \in Callers : SubmitAccepted(c))
      PROVE  UNCHANGED <<seen, lastSeq, owed, posts>>
  <2>1. UNCHANGED <<owed, posts>>
    BY <1>9, PostFrame DEF postVars
  <2>2. UNCHANGED <<seen, lastSeq>>
    BY <1>9, Classify DEF Quiet, Drain
  <2> QED BY <2>1, <2>2
<1> QED BY <1>1, <1>3, <1>4, <1>6, <1>7, <1>8, <1>9

-----------------------------------------------------------------------------
(* Interrupts. *)

LEMMA FiringKept ==
    ASSUME TypeInv, CallInv, [Next]_vars, NEW c \in Callers, call[c].pc = "fire"
    PROVE  fired' \/ (call'[c].pc = "fire" /\ call'[c].req = call[c].req)
<1>0. call \in [Callers -> [pc : {"idle", "entering", "hook", "submit", "fire", "record"},
                            req : Requests \cup {None}, at : Nat]]
  BY DEF TypeInv, CallTyped
<1>1. CASE ~(\E e \in Callers : Submission(e))
  BY <1>1, CallFrame DEF callVars
<1>2. CASE FireInterrupt(c)
  BY <1>2 DEF FireInterrupt
<1>3. ASSUME NEW e \in Callers, Submission(e), e # c  PROVE call'[c] = call[c]
  BY <1>0, <1>3 DEF Submission, BeginSubmit, EnterGate, HookRefuses, HookContinues,
     SubmitRefused, SubmitAccepted, FireInterrupt, RecordAccepted, DropSubmit, Goto, Return
<1>4. ASSUME Submission(c)  PROVE FireInterrupt(c)
  BY <1>4 DEF Submission, BeginSubmit, EnterGate, HookRefuses, HookContinues, SubmitRefused,
     SubmitAccepted, RecordAccepted, DropSubmit
<1> QED BY <1>1, <1>2, <1>3, <1>4

LEMMA InterruptStep ==
    ASSUME TypeInv, CallInv, ReceiptInv, OwnedInv, InterruptInv, [Next]_vars
    PROVE  InterruptInv'
<1>0. call \in [Callers -> [pc : {"idle", "entering", "hook", "submit", "fire", "record"},
                            req : Requests \cup {None}, at : Nat]]
  BY DEF TypeInv, CallTyped
<1>1. ASSUME NEW c \in Callers, SubmitAccepted(c)  PROVE InterruptInv'
  <2>1. PICK r \in Requests, n \in Nat : Takes(c, r, n)
    BY <1>1, SubmitTakes
  <2>2. /\ ~closed /\ closed' = (r.op = "interrupt") /\ lastSeq' = n
        /\ call[c].req = r
        /\ call' = [call EXCEPT ![c].pc = IF r.op = "interrupt" THEN "fire" ELSE "record"]
    BY <2>1 DEF Takes
  <2>3. /\ seen'[r.id] = NewReceipt(r, n)
        /\ \A i \in Retained(seen)' : i = r.id \/ (i \in Retained(seen) /\ seen'[i] = seen[i])
    BY <2>1, TakeReceipts
  <2>4. seen'[r.id].req = r /\ seen'[r.id].seq = n
    BY <2>3 DEF NewReceipt
  <2>5. ASSUME NEW i \in Retained(seen)', seen'[i].req.op = "interrupt"  PROVE i = r.id
    BY <2>2, <2>3, <2>5 DEF InterruptInv
  <2>6. ASSUME r.op = "interrupt"  PROVE call'[c].pc = "fire" /\ call'[c].req.id = r.id /\ closed'
    BY <1>0, <2>2, <2>6
  <2> QED BY <2>2, <2>4, <2>5, <2>6 DEF InterruptInv
<1>2. ASSUME lastSeq' = lastSeq,
             \A i \in Retained(seen)' :
               i \in Retained(seen) /\ seen'[i].req = seen[i].req /\ seen'[i].seq = seen[i].seq
      PROVE  InterruptInv'
  <2> SUFFICES ASSUME NEW i \in Retained(seen)', seen'[i].req.op = "interrupt"
               PROVE  /\ closed' /\ seen'[i].seq = lastSeq'
                      /\ fired' \/ \E c \in Callers : call'[c].pc = "fire" /\ call'[c].req.id = i
    BY DEF InterruptInv
  <2>1. /\ closed /\ seen[i].seq = lastSeq
        /\ fired \/ \E c \in Callers : call[c].pc = "fire" /\ call[c].req.id = i
    BY <1>2 DEF InterruptInv
  <2>2. closed'
    BY <2>1, ClosedKept
  <2>3. CASE fired
    BY <1>2, <2>1, <2>2, <2>3, FiredKept
  <2>4. CASE \E c \in Callers : call[c].pc = "fire" /\ call[c].req.id = i
    BY <1>2, <2>1, <2>2, <2>4, FiringKept
  <2> QED BY <2>1, <2>3, <2>4
<1>3. CASE CloseDisplaced \/ FinishLoop \/ PersistStep
  <2>1. PICK V \in [Ids -> Terminal] : Decides(V)
    BY <1>3, DecideCases
  <2>2. lastSeq' = lastSeq
    BY <2>1 DEF Decides
  <2> QED BY <1>2, <2>1, <2>2, DecideReceipts
<1>4. CASE MarkApplied
  <2>1. lastSeq' = lastSeq
    BY <1>4, MarkEffect
  <2>2. CASE seen' = seen
    BY <1>2, <2>1, <2>2 DEF Retained
  <2>3. CASE seen' # seen
    <3>1. PICK i \in Accepted(seen) : /\ seen' = [seen EXCEPT ![i] = Decision(i, "applied")]
                                      /\ Decision(i, "applied") \in Receipt
      BY <1>4, <2>3, MarkEffect
    <3>2. \A j \in Retained(seen)' :
             j \in Retained(seen) /\ seen'[j].req = seen[j].req /\ seen'[j].seq = seen[j].seq
      BY <3>1, MarkReceipts DEF Retained
    <3> QED BY <1>2, <2>1, <3>2
  <2> QED BY <2>2, <2>3
<1>5. CASE Drain \/ Quiet
  <2>1. UNCHANGED <<seen, lastSeq>>
    BY <1>5 DEF Drain, Quiet
  <2> QED BY <1>2, <2>1 DEF Retained
<1> QED BY <1>1, <1>3, <1>4, <1>5, Classify
-----------------------------------------------------------------------------
(* The release, the log and the drained controls. *)

LEMMA SealStep ==
    ASSUME TypeInv, CallInv, ReceiptInv, OwnedInv, SealInv, [Next]_vars
    PROVE  SealInv'
<1>1. mode' = "fact" => worker' \notin {"drain", "apply", "event"}
  <2> SUFFICES ASSUME mode = "fact" PROVE worker' \notin {"drain", "apply", "event"}
    BY RunTypeStep
  <2>1. worker \notin {"drain", "apply", "event"}
    BY DEF SealInv
  <2> QED BY <2>1 DEF Next, Submission, BeginSubmit, EnterGate, HookRefuses, HookContinues,
       SubmitRefused, SubmitAccepted, FireInterrupt, RecordAccepted, DropSubmit, Worker,
       UpdateTurn, Drain, MarkApplied, EmitApplied, SafePointDone, FinishLoop,
       PersistSafePoint, PersistTerminal, CommitterFails, SealAndObserve, SealPublication,
       GuardianJoins, GuardianSettles,
       LoseWorker, CloseDisplaced, RequestCancel, SealNewRequests, CancelToken, CancelTooLate,
       ObserveTerminal, Tick, workerVars, vars
<1>2. ASSUME proof' = "clear"
      PROVE  closed' /\ queue' = <<>> /\ inFlight' = {} /\ Accepted(seen)' = {}
  <2>1. ASSUME NEW c \in Callers, SubmitAccepted(c)  PROVE FALSE
    <3>1. PICK r \in Requests, n \in Nat : Takes(c, r, n)
      BY <2>1, SubmitTakes
    <3>2. proof' = proof /\ ~closed
      BY <3>1 DEF Takes, workerVars
    <3> QED BY <1>2, <3>2 DEF SealInv
  <2>2. CASE CloseDisplaced \/ FinishLoop \/ PersistStep
    <3>1. PICK V \in [Ids -> Terminal] : Decides(V)
      BY <2>2, DecideCases
    <3>2. queue' = <<>> /\ inFlight' = {}
      BY <3>1 DEF Decides
    <3>3. Accepted(seen)' = {}
      BY <3>1, DecideReceipts
    <3>4. proof' = proof \/ closed' = TRUE
      <4>1. CASE CloseDisplaced \/ FinishLoop
        BY <4>1, CloseDecides
      <4>2. CASE PersistStep
        BY <4>2, PersistDecides
      <4> QED BY <2>2, <4>1, <4>2
    <3>5. closed'
      <4>1. CASE proof' = proof
        <5>1. closed
          BY <1>2, <4>1 DEF SealInv
        <5> QED BY <5>1, ClosedKept
      <4> QED BY <3>4, <4>1
    <3> QED BY <3>2, <3>3, <3>5
  <2>3. CASE SealAndObserve
    <3>1. /\ closed' = TRUE /\ ~HasAccepted /\ UNCHANGED <<queue, inFlight, seen>>
      BY <1>2, <2>3 DEF SealAndObserve
    <3> QED BY <3>1 DEF HasAccepted, Accepted, Retained
  <2>4. ASSUME proof' = proof
        PROVE  closed' /\ queue = <<>> /\ inFlight = {} /\ Accepted(seen) = {}
    <3>1. closed /\ queue = <<>> /\ inFlight = {} /\ Accepted(seen) = {}
      BY <1>2, <2>4 DEF SealInv
    <3> QED BY <3>1, ClosedKept
  <2>5. CASE Drain
    <3>1. proof' = proof /\ queue' = <<>> /\ inFlight' = inFlight \cup Elements(queue) /\ seen' = seen
      BY <2>5 DEF Drain
    <3>2. Elements(queue) = {}
      BY <2>4, <3>1 DEF Elements
    <3> QED BY <2>4, <3>1, <3>2 DEF Accepted, Retained
  <2>6. CASE MarkApplied
    <3>1. proof' = proof /\ queue' = queue
      BY <2>6, MarkEffect
    <3>2. Accepted(seen) = {}
      BY <2>4, <3>1
    <3>3. UNCHANGED <<seen, inFlight>>
      BY <2>6, <3>2, MarkEffect
    <3> QED BY <2>4, <3>1, <3>3 DEF Accepted, Retained
  <2>7. CASE Quiet /\ ~SealAndObserve /\ ~PersistStep
    <3>1. proof' = proof
      BY <2>7 DEF Next, Submission, BeginSubmit, EnterGate, HookRefuses, HookContinues,
       SubmitRefused, SubmitAccepted, FireInterrupt, RecordAccepted, DropSubmit, Worker,
       UpdateTurn, Drain, MarkApplied, EmitApplied, SafePointDone, FinishLoop, PersistStep,
       CommitterFails, SealPublication, GuardianJoins, LoseWorker, CloseDisplaced,
       RequestCancel, SealNewRequests,
       CancelToken, CancelTooLate, ObserveTerminal, Tick, workerVars, vars
    <3>2. UNCHANGED <<queue, inFlight, seen>>
      BY <2>7 DEF Quiet
    <3> QED BY <2>4, <3>1, <3>2 DEF Accepted, Retained
  <2> QED BY <2>1, <2>2, <2>3, <2>5, <2>6, <2>7, Classify
<1> QED BY <1>1, <1>2 DEF SealInv

(* What a log holds after an append of the first n steers. *)
LEMMA ElementsConcat ==
    ASSUME NEW D, NEW s \in Seq(D), NEW t \in Seq(D), NEW n \in 0..Len(t)
    PROVE  /\ s \o SubSeq(t, 1, n) \in Seq(D)
           /\ Len(s \o SubSeq(t, 1, n)) = Len(s) + n
           /\ \A j \in 1..Len(s) : (s \o SubSeq(t, 1, n))[j] = s[j]
           /\ \A j \in 1..n : (s \o SubSeq(t, 1, n))[Len(s) + j] = t[j]
           /\ Elements(s \o SubSeq(t, 1, n)) = Elements(s) \cup {t[j] : j \in 1..n}
<1> DEFINE u == SubSeq(t, 1, n)  w == s \o u
<1>1. u \in Seq(D) /\ Len(u) = n /\ \A j \in 1..n : u[j] = t[j]
  OBVIOUS
<1>2. Len(s) \in Nat /\ n \in Nat
  OBVIOUS
<1> HIDE DEF u
<1>3. /\ w \in Seq(D) /\ Len(w) = Len(s) + n
      /\ \A j \in 1..Len(s) : w[j] = s[j]
      /\ \A j \in (Len(s) + 1)..(Len(s) + n) : w[j] = u[j - Len(s)]
  BY <1>1, <1>2
<1> HIDE DEF w
<1>4. \A j \in 1..n : w[Len(s) + j] = t[j]
  <2> SUFFICES ASSUME NEW j \in 1..n PROVE w[Len(s) + j] = t[j]
    OBVIOUS
  <2>1. Len(s) + j \in (Len(s) + 1)..(Len(s) + n) /\ (Len(s) + j) - Len(s) = j
    BY <1>2
  <2>2. w[Len(s) + j] = u[(Len(s) + j) - Len(s)]
    BY <1>3, <2>1
  <2> QED BY <1>1, <2>1, <2>2
<1>5. ASSUME NEW j \in 1..Len(w)  PROVE w[j] \in Elements(s) \cup {t[k] : k \in 1..n}
  <2>1. CASE j \in 1..Len(s)
    BY <1>3, <2>1 DEF Elements
  <2>2. CASE j \notin 1..Len(s)
    <3>1. j - Len(s) \in 1..n /\ j = Len(s) + (j - Len(s))
      BY <1>2, <1>3, <2>2
    <3> QED BY <1>4, <3>1
  <2> QED BY <2>1, <2>2
<1>6. Elements(s) \subseteq Elements(w)
  BY <1>2, <1>3 DEF Elements
<1>7. ASSUME NEW j \in 1..n  PROVE t[j] \in Elements(w)
  <2>1. Len(s) + j \in 1..Len(w)
    BY <1>2, <1>3
  <2> QED BY <1>4, <2>1 DEF Elements
<1>8. Elements(w) = Elements(s) \cup {t[j] : j \in 1..n}
  <2>1. Elements(w) \subseteq Elements(s) \cup {t[j] : j \in 1..n}
    BY <1>5 DEF Elements
  <2> QED BY <1>6, <1>7, <2>1
<1> QED BY <1>3, <1>4, <1>8 DEF u, w

LEMMA LogStep ==
    ASSUME TypeInv, CallInv, ReceiptInv, OwnedInv, SealInv, LogInv, [Next]_vars
    PROVE  LogInv'
<1>0. InboxTyped /\ lastSeq \in Nat /\ log \in Seq(Control)
  BY DEF TypeInv, InboxTyped, WorkerTyped
<1>1. ASSUME NEW c \in Callers, SubmitAccepted(c)  PROVE LogInv'
  <2>1. PICK r \in Requests, n \in Nat : Takes(c, r, n)
    BY <1>1, SubmitTakes
  <2>2. n = lastSeq + 1 /\ lastSeq' = n /\ log' = log /\ mode' = mode
    BY <2>1 DEF Takes, workerVars, runVars
  <2>3. \A j \in 1..Len(log) : log[j].seq \in Nat /\ log[j].seq <= lastSeq
    BY <1>0, ControlFacts DEF LogInv
  <2>4. \A j \in 1..Len(log') : log'[j].seq <= lastSeq'
    BY <1>0, <2>2, <2>3
  <2>5. /\ seen'[r.id] = NewReceipt(r, n)
        /\ \A i \in Retained(seen)' : i = r.id \/ (i \in Retained(seen) /\ seen'[i] = seen[i])
    BY <2>1, TakeReceipts
  <2>6. seen'[r.id].req = r /\ seen'[r.id].seq = n /\ seen'[r.id].state = "accepted"
    BY <2>5 DEF NewReceipt
  <2>7. NewControl(r, n) \notin Elements(log)
    <3>1. NewControl(r, n).seq = n
      BY DEF NewControl
    <3> QED BY <1>0, <2>2, <2>3, <3>1 DEF Elements
  <2>8. ASSUME mode = "fact", NEW i \in Retained(seen)', seen'[i].req.op = "steer"
        PROVE  (seen'[i].state = "applied")
                  = ([req |-> seen'[i].req, seq |-> seen'[i].seq] \in Elements(log))
    <3>1. CASE i = r.id
      BY <2>6, <2>7, <3>1 DEF NewControl
    <3>2. CASE i # r.id
      BY <2>5, <2>8, <3>2 DEF LogInv, AppliedMeansLogged
    <3> QED BY <3>1, <3>2
  <2> QED BY <2>2, <2>4, <2>8 DEF LogInv, AppliedMeansLogged, Elements
<1>2. CASE PersistStep
  <2>1. PICK n \in 0..Len(Steers) : /\ Decides(Verdicts(n)) /\ mode = "fact"
                                    /\ log' = log \o SubSeq(Steers, 1, n)
    BY <1>2, PersistDecides
  <2>2. /\ Steers \in Seq(Control) /\ Len(Steers) \in Nat
        /\ \A j \in 1..Len(Steers) : Steers[j] \in AcceptedControls /\ Steers[j].req.op = "steer"
    BY SteersListed
  <2>3. Verdicts(n) \in [Ids -> Terminal] /\ lastSeq' = lastSeq
    BY <2>1 DEF Verdicts, Terminal, Decides
  <2>4. /\ Elements(log') = Elements(log) \cup {Steers[j] : j \in 1..n}
        /\ log' \in Seq(Control)
    BY <1>0, <2>1, <2>2, ElementsConcat
  <2>5. ASSUME NEW k \in AcceptedControls
        PROVE  \E i \in Accepted(seen) : i \in Retained(seen) /\ k = ControlOf(i)
    BY AcceptedControlsOwned
  <2>6. \A k \in AcceptedControls : k.seq <= lastSeq
    BY <1>0, <2>5 DEF ReceiptInv, ControlOf
  <2>7. \A j \in 1..n : Steers[j] \in AcceptedControls
    BY <2>2
  <2>8. \A k \in Elements(log') : k.seq <= lastSeq
    BY <2>4, <2>6, <2>7 DEF LogInv, Elements
  <2>9. \A j \in 1..Len(log') : log'[j].seq <= lastSeq'
    BY <2>3, <2>8 DEF Elements
  <2>10. ASSUME NEW i \in Retained(seen)', seen'[i].req.op = "steer"
         PROVE  (seen'[i].state = "applied") <=> ([req |-> seen'[i].req, seq |-> seen'[i].seq] \in Elements(log'))
    <3>1. /\ i \in Retained(seen) /\ seen'[i].req = seen[i].req /\ seen'[i].seq = seen[i].seq
          /\ seen'[i].state = (IF i \in Accepted(seen) THEN Verdicts(n)[i] ELSE seen[i].state)
      BY <2>1, <2>3, DecideReceipts
    <3>2. [req |-> seen'[i].req, seq |-> seen'[i].seq] = ControlOf(i) /\ seen[i].req.op = "steer"
      BY <2>10, <3>1 DEF ControlOf
    <3>3. (seen[i].state = "applied") <=> (ControlOf(i) \in Elements(log))
      BY <2>1, <3>1, <3>2 DEF LogInv, AppliedMeansLogged, ControlOf
    <3>4. CASE i \in Accepted(seen)
      <4>1. ControlOf(i) \notin Elements(log) /\ i \in Ids
        BY <3>3, <3>4 DEF Accepted, Retained
      <4>2. ControlOf(i) \in AcceptedControls
        BY <3>4, AcceptedControlsOwned
      <4>3. ControlOf(i).req.op = "steer"
        BY <3>2 DEF ControlOf
      <4>4. (ControlOf(i) \in Kept(n)) <=> (\E j \in 1..n : Steers[j] = ControlOf(i))
        BY <4>2, <4>3 DEF Kept
      <4>5. (Verdicts(n)[i] = "applied") <=> (ControlOf(i) \in Kept(n))
        BY <4>1 DEF Verdicts
      <4> QED BY <2>4, <3>1, <3>2, <3>4, <4>1, <4>4, <4>5
    <3>5. CASE i \notin Accepted(seen)
      <4>1. ASSUME NEW j \in 1..n, Steers[j] = ControlOf(i)  PROVE FALSE
        <5>1. PICK e \in Accepted(seen) : e \in Retained(seen) /\ ControlOf(i) = ControlOf(e)
          BY <2>5, <2>7, <4>1
        <5>2. seen[i].seq = seen[e].seq
          BY <5>1 DEF ControlOf
        <5> QED BY <3>1, <3>5, <5>1, <5>2 DEF ReceiptInv
      <4> QED BY <2>4, <3>1, <3>2, <3>3, <3>5, <4>1
    <3> QED BY <3>4, <3>5
  <2>11. Elements(log)' = Elements(log')
    BY DEF Elements
  <2>12. AppliedMeansLogged'
    BY <2>10, <2>11 DEF AppliedMeansLogged
  <2> QED BY <2>9, <2>12 DEF LogInv
<1>3. CASE CloseDisplaced \/ FinishLoop
  <2>1. mode = "loop" /\ log' = log /\ lastSeq' = lastSeq
    BY <1>3, CloseDecides DEF Decides
  <2>2. mode' = "loop"
    BY <2>1, RunTypeStep
  <2> QED BY <2>1, <2>2 DEF LogInv, AppliedMeansLogged
<1>4. CASE MarkApplied
  <2>1. log' = log /\ lastSeq' = lastSeq /\ worker = "apply"
    BY <1>4, MarkEffect
  <2>2. mode' # "fact"
    BY <2>1, RunTypeStep DEF SealInv
  <2> QED BY <2>1, <2>2 DEF LogInv, AppliedMeansLogged
<1>5. CASE Drain \/ Quiet
  <2>1. UNCHANGED <<seen, lastSeq, log>>
    BY <1>5 DEF Drain, Quiet
  <2> QED BY <2>1, RunTypeStep DEF LogInv, AppliedMeansLogged, Retained, Elements
<1> QED BY <1>1, <1>2, <1>3, <1>4, <1>5, Classify
(* Where the worker goes in the steps that leave the inbox alone. *)
LEMMA QuietWorker ==
    ASSUME TypeInv, [Next]_vars, ~EmitApplied, ~Drain, ~MarkApplied,
           worker' \in {"apply", "event"}
    PROVE  worker' = worker /\ todo' = todo
BY DEF Next, Submission, BeginSubmit, EnterGate, HookRefuses, HookContinues, SubmitRefused,
       SubmitAccepted, FireInterrupt, RecordAccepted, DropSubmit, Worker, UpdateTurn,
       SafePointDone, FinishLoop, PersistSafePoint, PersistTerminal, CommitterFails,
       SealAndObserve, SealPublication, GuardianJoins, GuardianSettles, LoseWorker,
       CloseDisplaced, RequestCancel,
       SealNewRequests, CancelToken, CancelTooLate, ObserveTerminal, Tick, workerVars, vars

(* The rest of what was drained. *)
LEMMA TailTodo ==
    ASSUME NEW s \in Seq(Control), s # <<>>
    PROVE  /\ Tail(s) \in Seq(Control) /\ Len(Tail(s)) = Len(s) - 1 /\ Len(s) \in Nat \ {0}
           /\ Head(s) = s[1] /\ 1 \in 1..Len(s)
           /\ \A j \in 1..Len(Tail(s)) : j + 1 \in 1..Len(s) /\ j + 1 # 1 /\ Tail(s)[j] = s[j + 1]
<1>1. Len(s) \in Nat \ {0}
  OBVIOUS
<1>2. Tail(s) \in Seq(Control) /\ Len(Tail(s)) = Len(s) - 1 /\ Head(s) = s[1]
  BY <1>1
<1>3. \A j \in 1..Len(Tail(s)) : Tail(s)[j] = s[j + 1]
  BY <1>1, <1>2
<1> QED BY <1>1, <1>2, <1>3

LEMMA TodoStep ==
    ASSUME TypeInv, CallInv, ReceiptInv, OwnedInv, SealInv, TodoInv, [Next]_vars
    PROVE  TodoInv'
<1> SUFFICES ASSUME worker' \in {"apply", "event"} PROVE TodoInv'
  BY DEF TodoInv
<1>0. /\ todo \in Seq(Control) /\ queue \in Seq(Control) /\ closed \in BOOLEAN
      /\ seen \in [Ids -> Receipt \cup {None}]
  BY DEF TypeInv, WorkerTyped, InboxTyped
<1>a. closed => closed'
  BY ClosedKept
<1>1. CASE Drain
  <2>1. todo' = queue /\ inFlight' = inFlight \cup Elements(queue) /\ worker' = "apply"
    BY <1>1 DEF Drain
  <2>2. \A j \in 1..Len(queue) : queue[j] \in Pending /\ queue[j] \in Elements(queue)
    BY DEF Pending, Elements
  <2>3. ASSUME NEW i \in 1..Len(queue), NEW j \in 1..Len(queue), queue[i].req.id = queue[j].req.id
        PROVE  i = j
    <3>1. queue[i] = ControlOf(queue[i].req.id) /\ queue[j] = ControlOf(queue[j].req.id)
      BY <2>2 DEF OwnedInv
    <3>2. queue[i] = queue[j]
      BY <2>3, <3>1
    <3> QED BY <3>2 DEF OwnedInv
  <2> QED BY <2>1, <2>2, <2>3 DEF TodoInv
<1>2. CASE MarkApplied
  <2>1. /\ worker = "apply" /\ todo # <<>> /\ closed' = closed
    BY <1>2, MarkEffect
  <2>2. /\ \A i, j \in 1..Len(todo) : todo[i].req.id = todo[j].req.id => i = j
        /\ \A j \in 1..Len(todo) : todo[j] \in inFlight \/ (closed /\ Decided(seen, todo[j].req.id))
    BY <2>1 DEF TodoInv
  <2>3. CASE /\ Head(todo).req.id \in Accepted(seen)
             /\ seen' = [seen EXCEPT ![Head(todo).req.id] = Decision(Head(todo).req.id, "applied")]
             /\ Decision(Head(todo).req.id, "applied") \in Receipt
             /\ inFlight' = {j \in inFlight : j.req.id # Head(todo).req.id}
             /\ worker' = "event" /\ todo' = todo
    <3>1. PICK e \in Accepted(seen) : e = Head(todo).req.id
      BY <2>3
    <3>2. Head(todo) = todo[1] /\ 1 \in 1..Len(todo)
      BY <1>0, <2>1, TailTodo
    <3>3. \A j \in 1..Len(todo) : j # 1 => todo[j].req.id # e
      BY <2>2, <3>1, <3>2
    <3>4. \A i \in Ids : i # e => seen'[i] = seen[i]
      BY <1>0, <2>3, <3>1
    <3>5. ASSUME NEW j \in 1..Len(todo), j # 1
          PROVE  todo[j] \in inFlight' \/ (closed' /\ Decided(seen', todo[j].req.id))
      <4>1. CASE todo[j] \in inFlight
        BY <2>3, <3>1, <3>3, <3>5, <4>1
      <4>2. CASE closed /\ Decided(seen, todo[j].req.id)
        <5>1. todo[j].req.id \in Ids /\ seen'[todo[j].req.id] = seen[todo[j].req.id]
          BY <3>3, <3>4, <3>5, <4>2 DEF Decided
        <5> QED BY <2>1, <4>2, <5>1 DEF Decided
      <4> QED BY <2>2, <4>1, <4>2
    <3> QED BY <2>1, <2>2, <2>3, <3>5 DEF TodoInv
  <2>4. CASE UNCHANGED <<seen, inFlight>> /\ worker' = "event" /\ todo' = todo
    <3> QED BY <2>1, <2>2, <2>4 DEF TodoInv
  <2>5. CASE UNCHANGED <<seen, inFlight>> /\ worker' = worker /\ todo' = Tail(todo)
    <3>2. \A j \in 1..Len(todo') : j + 1 \in 1..Len(todo) /\ todo'[j] = todo[j + 1]
      BY <1>0, <2>1, <2>5, TailTodo
    <3>3. ASSUME NEW i \in 1..Len(todo'), NEW j \in 1..Len(todo'), todo'[i].req.id = todo'[j].req.id
          PROVE  i = j
      <4>1. i + 1 = j + 1
        <5>1. todo[i + 1].req.id = todo[j + 1].req.id
          BY <3>2, <3>3
        <5> QED BY <2>2, <3>2, <5>1
      <4> QED BY <4>1
    <3>4. \A j \in 1..Len(todo') : todo'[j] \in inFlight' \/ (closed' /\ Decided(seen', todo'[j].req.id))
      BY <2>1, <2>2, <2>5, <3>2
    <3> QED BY <2>1, <2>5, <3>3, <3>4 DEF TodoInv
  <2> QED BY <1>2, <2>3, <2>4, <2>5, MarkEffect
<1>3. CASE EmitApplied
  <2>1. /\ worker = "event" /\ worker' = "apply" /\ todo' = Tail(todo)
        /\ UNCHANGED <<seen, inFlight, closed>>
    BY <1>3 DEF EmitApplied, inboxVars
  <2>2. /\ todo # <<>>
        /\ \A i, j \in 1..Len(todo) : todo[i].req.id = todo[j].req.id => i = j
        /\ \A j \in 1..Len(todo) : j = 1 \/ todo[j] \in inFlight \/ (closed /\ Decided(seen, todo[j].req.id))
    BY <2>1 DEF TodoInv
  <2>4. \A j \in 1..Len(todo') : j + 1 \in 1..Len(todo) /\ j + 1 # 1 /\ todo'[j] = todo[j + 1]
    BY <1>0, <2>1, <2>2, TailTodo
  <2>5. \A i, j \in 1..Len(todo') : todo'[i].req.id = todo'[j].req.id => i = j
    <3>1. \A i, j \in 1..Len(todo') : todo'[i].req.id = todo'[j].req.id => i + 1 = j + 1
      BY <2>2, <2>4
    <3> QED BY <3>1
  <2>6. \A j \in 1..Len(todo') : todo'[j] \in inFlight' \/ (closed' /\ Decided(seen', todo'[j].req.id))
    BY <2>1, <2>2, <2>4
  <2> QED BY <2>1, <2>5, <2>6 DEF TodoInv
<1>4. ASSUME worker' = worker, todo' = todo,
             \A j \in 1..Len(todo) :
                todo[j] \in inFlight => todo[j] \in inFlight' \/ (closed' /\ Decided(seen', todo[j].req.id)),
             \A i \in Ids : closed /\ Decided(seen, i) => Decided(seen', i)
      PROVE  TodoInv'
  <2>1. /\ worker' \in {"apply", "event"} /\ worker \in {"apply", "event"}
    BY <1>4
  <2>2. /\ worker = "event" => todo # <<>>
        /\ \A i, j \in 1..Len(todo) : todo[i].req.id = todo[j].req.id => i = j
        /\ \A j \in 1..Len(todo) :
             \/ worker = "event" /\ j = 1
             \/ todo[j] \in inFlight
             \/ closed /\ Decided(seen, todo[j].req.id)
    BY <2>1 DEF TodoInv
  <2>3. \A j \in 1..Len(todo) : todo[j].req.id \in Ids
    BY <1>0, ControlFacts
  <2>4. ASSUME NEW j \in 1..Len(todo)
        PROVE  \/ worker' = "event" /\ j = 1
               \/ todo[j] \in inFlight'
               \/ closed' /\ Decided(seen', todo[j].req.id)
    BY <1>4, <1>a, <2>2, <2>3
  <2> QED BY <1>4, <2>2, <2>4 DEF TodoInv
<1>5. ASSUME NEW c \in Callers, SubmitAccepted(c)  PROVE TodoInv'
  <2>1. PICK r \in Requests, n \in Nat : Takes(c, r, n)
    BY <1>5, SubmitTakes
  <2>2. UNCHANGED <<worker, todo, inFlight>> /\ ~closed
    BY <2>1 DEF Takes, workerVars
  <2> QED BY <1>4, <2>2
<1>6. CASE CloseDisplaced \/ FinishLoop
  <2>1. /\ closed' = TRUE /\ worker' \in {worker, "ended"} /\ Decides([i \in Ids |-> "settled"])
        /\ \A i \in Ids : seen'[i] = IF i \in Accepted(seen) THEN Decision(i, "settled") ELSE seen[i]
    BY <1>6, CloseDecides
  <2>2. worker' = worker /\ todo' = todo
    BY <2>1 DEF Decides
  <2>3. ASSUME NEW i \in Accepted(seen)  PROVE Decided(seen', i)
    <3>1. i \in Ids /\ seen'[i] = Decision(i, "settled") /\ seen[i] \in Receipt
      BY <2>1, RetainedFacts DEF Accepted, TypeInv
    <3>2. Decision(i, "settled") \in Receipt
      BY <3>1 DEF Decision, Receipt, Terminal
    <3>3. seen'[i] # None /\ seen'[i].state = "settled"
      BY <3>1, <3>2, NoneAssumption DEF Decision
    <3> QED BY <3>1, <3>3 DEF Decided
  <2>4. \A j \in 1..Len(todo) : todo[j] \in inFlight => todo[j].req.id \in Accepted(seen)
    BY DEF OwnedInv, Pending
  <2>5. ASSUME NEW i \in Ids, Decided(seen, i)  PROVE Decided(seen', i)
    <3>1. i \notin Accepted(seen)
      BY <2>5 DEF Decided, Accepted
    <3>2. seen'[i] = seen[i]
      BY <2>1, <3>1
    <3> QED BY <2>5, <3>2 DEF Decided
  <2> QED BY <1>4, <2>1, <2>2, <2>3, <2>4, <2>5
<1>7. CASE PersistStep
  BY <1>7, PersistDecides
<1>8. CASE Quiet /\ ~EmitApplied /\ ~Drain /\ ~MarkApplied
  <2>1. worker' = worker /\ todo' = todo
    BY <1>8, QuietWorker
  <2>2. UNCHANGED <<seen, inFlight>>
    BY <1>8 DEF Quiet
  <2> QED BY <1>4, <2>1, <2>2 DEF Decided
<1> QED BY <1>1, <1>2, <1>3, <1>5, <1>6, <1>7, <1>8, Classify

-----------------------------------------------------------------------------
(* Effects. *)

LEMMA MarkedIsReceipt ==
    ASSUME TypeInv, NEW i \in Accepted(seen), NEW v \in Terminal
    PROVE  Decision(i, v) \in Receipt /\ Decision(i, v) # None
<1>1. seen[i] \in Receipt
  BY RetainedFacts DEF Accepted, TypeInv
<1>2. Decision(i, v) \in Receipt
  BY <1>1 DEF Decision, Receipt
<1> QED BY <1>2, NoneAssumption

LEMMA TimesType ==
    ASSUME NEW s \in Seq(Control), NEW i
    PROVE  /\ IsFiniteSet({j \in 1..Len(s) : s[j].req.id = i})
           /\ Times(s, i) \in Nat
<1>1. IsFiniteSet(1..Len(s))
  BY FS_Interval
<1>2. IsFiniteSet({j \in 1..Len(s) : s[j].req.id = i})
  BY <1>1, FS_Subset
<1> QED BY <1>2, FS_CardinalityType DEF Times

LEMMA TimesAppend ==
    ASSUME NEW s \in Seq(Control), NEW x \in Control, NEW i
    PROVE  Times(Append(s, x), i) = Times(s, i) + (IF x.req.id = i THEN 1 ELSE 0)
<1> DEFINE w == Append(s, x)
           A == {j \in 1..Len(s) : s[j].req.id = i}  B == {j \in 1..Len(w) : w[j].req.id = i}
<1>1. /\ Len(s) \in Nat /\ Len(w) = Len(s) + 1 /\ w[Len(s) + 1] = x
      /\ \A j \in 1..Len(s) : w[j] = s[j]
  OBVIOUS
<1> HIDE DEF w
<1>2. CASE x.req.id = i
  <2>1. B = A \cup {Len(s) + 1} /\ Len(s) + 1 \notin A
    BY <1>1, <1>2
  <2>2. Cardinality(B) = Cardinality(A) + 1
    <3>1. IsFiniteSet(A)
      BY TimesType
    <3> HIDE DEF A, B
    <3> QED BY <2>1, <3>1, FS_AddElement
  <2> QED BY <1>2, <2>2 DEF Times, w
<1>3. CASE x.req.id # i
  <2>1. B = A
    BY <1>1, <1>3
  <2>2. Times(w, i) = Cardinality(B) /\ Times(s, i) = Cardinality(A)
    BY DEF Times
  <2>3. Times(s, i) \in Nat
    BY TimesType
  <2> HIDE DEF A, B
  <2>4. Times(w, i) = Times(s, i) + 0
    BY <2>1, <2>2, <2>3
  <2> QED BY <1>3, <2>4 DEF w
<1> QED BY <1>2, <1>3

(* An append of steers with different ids adds one at most. *)
LEMMA TimesConcat ==
    ASSUME NEW s \in Seq(Control), NEW t \in Seq(Control), NEW n \in 0..Len(t), NEW i,
           \A p, q \in 1..n : t[p].req.id = i /\ t[q].req.id = i => p = q
    PROVE  /\ Times(s \o SubSeq(t, 1, n), i) <= Times(s, i) + 1
           /\ (\A p \in 1..n : t[p].req.id # i) => Times(s \o SubSeq(t, 1, n), i) = Times(s, i)
<1> DEFINE w == s \o SubSeq(t, 1, n)
           A == {j \in 1..Len(s) : s[j].req.id = i}  B == {j \in 1..Len(w) : w[j].req.id = i}
<1>1. /\ Len(s) \in Nat /\ n \in Nat /\ w \in Seq(Control) /\ Len(w) = Len(s) + n
      /\ \A j \in 1..Len(s) : w[j] = s[j]
      /\ \A j \in 1..n : w[Len(s) + j] = t[j]
  BY ElementsConcat
<1> HIDE DEF w
<1>2. IsFiniteSet(A) /\ Times(s, i) = Cardinality(A) /\ Cardinality(A) \in Nat
  BY TimesType DEF Times
<1>3. Times(w, i) = Cardinality(B) /\ IsFiniteSet(B) /\ Cardinality(B) \in Nat
  BY <1>1, TimesType DEF Times
<1>4. ASSUME NEW j \in B  PROVE j \in A \/ \E p \in 1..n : j = Len(s) + p /\ t[p].req.id = i
  <2>1. CASE j \in 1..Len(s)
    BY <1>1, <2>1
  <2>2. CASE j \notin 1..Len(s)
    <3>1. j - Len(s) \in 1..n /\ j = Len(s) + (j - Len(s))
      BY <1>1, <2>2
    <3> QED BY <1>1, <3>1
  <2> QED BY <2>1, <2>2
<1>5. A \subseteq B
  BY <1>1
<1>6. ASSUME \A p \in 1..n : t[p].req.id # i  PROVE Times(w, i) = Times(s, i)
  <2>1. A = B
    BY <1>4, <1>5, <1>6
  <2> QED BY <1>2, <1>3, <2>1
<1>7. CASE \A p \in 1..n : t[p].req.id # i
  BY <1>2, <1>6, <1>7 DEF w
<1>8. ASSUME NEW p \in 1..n, t[p].req.id = i  PROVE Times(w, i) <= Times(s, i) + 1
  <2>1. B \subseteq A \cup {Len(s) + p}
    BY <1>4, <1>8
  <2>2. Len(s) + p \notin A
    BY <1>1
  <2>3. /\ IsFiniteSet(A \cup {Len(s) + p})
        /\ Cardinality(A \cup {Len(s) + p}) = Cardinality(A) + 1
    BY <1>2, <2>2, FS_AddElement
  <2>4. Cardinality(B) <= Cardinality(A \cup {Len(s) + p})
    BY <2>1, <2>3, FS_Subset
  <2> QED BY <1>2, <1>3, <2>3, <2>4
<1> QED BY <1>6, <1>7, <1>8 DEF w

(* What an event on its way and the retained receipt count for. *)
OnItsWay(i) == IF worker = "event" /\ Head(todo).req.id = i THEN 1 ELSE 0

AppliedNow(s, i) == IF i \in Retained(s) /\ s[i].state = "applied" THEN 1 ELSE 0

LEMMA EffectForm ==
    EffectInv <=> \A i \in Ids : Times(log, i) + Times(events, i) + OnItsWay(i)
                                    <= evicted[i] + AppliedNow(seen, i)
BY DEF EffectInv, OnItsWay, AppliedNow

LEMMA EffectStep ==
    ASSUME TypeInv, CallInv, ReceiptInv, OwnedInv, SealInv, TodoInv, EffectInv, [Next]_vars
    PROVE  EffectInv'
<1> SUFFICES ASSUME NEW i \in Ids
             PROVE  (Times(log, i) + Times(events, i) + OnItsWay(i))'
                       <= evicted'[i] + AppliedNow(seen', i)
  BY DEF EffectInv, OnItsWay, AppliedNow, Retained
<1>0. /\ log \in Seq(Control) /\ events \in Seq(Control) /\ todo \in Seq(Control)
      /\ evicted[i] \in Nat /\ Times(log, i) \in Nat /\ Times(events, i) \in Nat
      /\ seen \in [Ids -> Receipt \cup {None}]
  BY TimesType DEF TypeInv, WorkerTyped, InboxTyped
<1>a. OnItsWay(i) \in {0, 1} /\ AppliedNow(seen, i) \in {0, 1} /\ AppliedNow(seen', i) \in {0, 1}
  BY DEF OnItsWay, AppliedNow
<1>b. Times(log, i) + Times(events, i) + OnItsWay(i) <= evicted[i] + AppliedNow(seen, i)
  BY EffectForm
<1>c. (Times(log, i) + Times(events, i) + OnItsWay(i))' = Times(log', i) + Times(events', i) + OnItsWay(i)'
  BY DEF Times
<1>d. OnItsWay(i)' \in {0, 1}
  BY DEF OnItsWay
(* A step that adds no effect and, trimmed or not, drops none. *)
<1>1. ASSUME log' = log, events' = events, OnItsWay(i)' <= OnItsWay(i),
             \/ evicted'[i] = evicted[i] /\ AppliedNow(seen', i) = AppliedNow(seen, i)
             \/ evicted'[i] = evicted[i] + 1
      PROVE  (Times(log, i) + Times(events, i) + OnItsWay(i))' <= evicted'[i] + AppliedNow(seen', i)
  BY <1>0, <1>a, <1>b, <1>c, <1>d, <1>1
<1>2. ASSUME NEW c \in Callers, SubmitAccepted(c)
      PROVE  (Times(log, i) + Times(events, i) + OnItsWay(i))' <= evicted'[i] + AppliedNow(seen', i)
  <2>1. PICK r \in Requests, n \in Nat : Takes(c, r, n)
    BY <1>2, SubmitTakes
  <2>2. UNCHANGED <<log, events, worker, todo>> /\ seen[r.id] = None
    BY <2>1 DEF Takes, workerVars
  <2>3. OnItsWay(i)' = OnItsWay(i)
    BY <2>2 DEF OnItsWay
  <2>4. \/ seen'[i] = [seen EXCEPT ![r.id] = NewReceipt(r, n)][i] /\ evicted'[i] = evicted[i]
        \/ evicted'[i] = evicted[i] + 1
    BY <2>1 DEF Takes, TrimmedTo
  <2>5. ASSUME seen'[i] = [seen EXCEPT ![r.id] = NewReceipt(r, n)][i]
        PROVE  AppliedNow(seen', i) = AppliedNow(seen, i)
    <3>1. CASE i = r.id
      <4>1. seen'[i] = NewReceipt(r, n) /\ seen[i] = None
        BY <1>0, <2>2, <2>5, <3>1
      <4>2. seen'[i].state = "accepted"
        BY <4>1 DEF NewReceipt
      <4> QED BY <4>1, <4>2 DEF AppliedNow, Retained
    <3>2. CASE i # r.id
      BY <1>0, <2>5, <3>2 DEF AppliedNow, Retained
    <3> QED BY <3>1, <3>2
  <2> QED BY <1>1, <1>a, <2>2, <2>3, <2>4, <2>5
<1>3. CASE Drain
  <2>1. UNCHANGED <<log, events, seen, evicted>> /\ worker' = "apply"
    BY <1>3 DEF Drain
  <2>2. OnItsWay(i)' = 0
    BY <2>1 DEF OnItsWay
  <2> QED BY <1>1, <1>a, <2>1, <2>2
<1>4. CASE MarkApplied
  <2> DEFINE e == Head(todo).req.id
  <2>1. UNCHANGED <<log, events, evicted>> /\ worker = "apply" /\ todo # <<>>
    BY <1>4, MarkEffect
  <2>2. OnItsWay(i) = 0
    BY <2>1 DEF OnItsWay
  <2>3. CASE /\ e \in Accepted(seen)
             /\ seen' = [seen EXCEPT ![e] = Decision(e, "applied")]
             /\ Decision(e, "applied") \in Receipt
             /\ worker' = "event" /\ todo' = todo
    <3>1. /\ Retained(seen)' = Retained(seen) /\ seen'[e].state = "applied"
          /\ \A j \in Ids : j # e => seen'[j] = seen[j]
      BY <2>3, MarkReceipts
    <3>2. CASE i = e
      <4>1. AppliedNow(seen, i) = 0
        BY <2>3, <3>2 DEF AppliedNow, Accepted
      <4>2. i \in Retained(seen')
        BY <2>3, <3>1, <3>2 DEF Accepted
      <4>3. AppliedNow(seen', i) = 1
        BY <3>1, <3>2, <4>2 DEF AppliedNow
      <4> QED BY <1>0, <1>b, <1>c, <1>d, <2>1, <2>2, <4>1, <4>3
    <3>3. CASE i # e
      <4>1. OnItsWay(i)' = 0
        BY <2>3, <3>3 DEF OnItsWay
      <4>2. AppliedNow(seen', i) = AppliedNow(seen, i)
        BY <3>1, <3>3 DEF AppliedNow, Retained
      <4> QED BY <1>1, <2>1, <2>2, <4>1, <4>2
    <3> QED BY <3>2, <3>3
  <2>4. ~(e \in Retained(seen) /\ seen[e].state = "applied")
    <3>1. Head(todo) = todo[1] /\ 1 \in 1..Len(todo)
      BY <1>0, <2>1, TailTodo
    <3>2. Head(todo) \in inFlight \/ Decided(seen, e)
      BY <2>1, <3>1 DEF TodoInv
    <3>3. CASE Head(todo) \in inFlight
      BY <3>3 DEF OwnedInv, Pending, Accepted
    <3>4. CASE Decided(seen, e)
      BY <3>4 DEF Decided
    <3> QED BY <3>2, <3>3, <3>4
  <2>5. CASE seen' = seen /\ worker' = worker
    <3>1. OnItsWay(i)' = 0
      BY <2>1, <2>5 DEF OnItsWay
    <3> QED BY <1>1, <2>1, <2>2, <2>5, <3>1
  <2> QED BY <1>4, <2>3, <2>4, <2>5, MarkEffect
<1>5. CASE EmitApplied
  <2>1. /\ worker = "event" /\ worker' = "apply" /\ events' = Append(events, Head(todo))
        /\ UNCHANGED <<log, seen, evicted>>
    BY <1>5 DEF EmitApplied, inboxVars
  <2>2. todo # <<>>
    BY <2>1 DEF TodoInv
  <2>3. Head(todo) \in Control
    BY <1>0, <2>2
  <2>4. Times(events', i) = Times(events, i) + OnItsWay(i)
    BY <1>0, <2>1, <2>3, TimesAppend DEF OnItsWay
  <2>5. OnItsWay(i)' = 0
    BY <2>1 DEF OnItsWay
  <2> QED BY <1>0, <1>a, <1>b, <1>c, <2>1, <2>4, <2>5
<1>6. ASSUME ~EmitApplied, ~Drain, ~MarkApplied  PROVE OnItsWay(i)' <= OnItsWay(i)
  <2>1. worker' = "event" => worker' = worker /\ todo' = todo
    BY <1>6, QuietWorker
  <2> QED BY <2>1 DEF OnItsWay
<1>7. CASE (CloseDisplaced \/ FinishLoop) /\ ~EmitApplied /\ ~Drain /\ ~MarkApplied
  <2>1. /\ Decides([j \in Ids |-> "settled"]) /\ log' = log
    BY <1>7, CloseDecides
  <2>2. events' = events
    BY <2>1 DEF Decides
  <2>3. \/ /\ seen'[i] = IF i \in Accepted(seen) THEN Decision(i, "settled") ELSE seen[i]
           /\ evicted'[i] = evicted[i]
        \/ evicted'[i] = evicted[i] + 1
    BY <2>1 DEF Decides, TrimmedTo
  <2>4. ASSUME seen'[i] = IF i \in Accepted(seen) THEN Decision(i, "settled") ELSE seen[i]
        PROVE  AppliedNow(seen', i) = AppliedNow(seen, i)
    <3>1. CASE i \in Accepted(seen)
      <4>1. seen'[i].state = "settled" /\ seen[i].state = "accepted"
        BY <2>4, <3>1 DEF Decision, Accepted
      <4> QED BY <4>1 DEF AppliedNow
    <3>2. CASE i \notin Accepted(seen)
      BY <2>4, <3>2 DEF AppliedNow, Retained
    <3> QED BY <3>1, <3>2
  <2> QED BY <1>1, <1>6, <1>7, <2>1, <2>2, <2>3, <2>4
<1>8. CASE PersistStep /\ ~EmitApplied /\ ~Drain /\ ~MarkApplied
  <2>1. PICK n \in 0..Len(Steers) : Decides(Verdicts(n)) /\ log' = log \o SubSeq(Steers, 1, n)
    BY <1>8, PersistDecides
  <2>2. /\ Steers \in Seq(Control) /\ Len(Steers) \in Nat
        /\ \A j \in 1..Len(Steers) : Steers[j] \in AcceptedControls /\ Steers[j].req.op = "steer"
        /\ \A p, q \in 1..Len(Steers) : Steers[p] = Steers[q] => p = q
    BY SteersListed
  <2>3. ASSUME NEW p \in 1..n, Steers[p].req.id = i
        PROVE  i \in Accepted(seen) /\ Steers[p] = ControlOf(i)
    BY <2>2, <2>3, AcceptedControlsOwned
  <2>4. \A p, q \in 1..n : Steers[p].req.id = i /\ Steers[q].req.id = i => p = q
    BY <2>2, <2>3
  <2>5. /\ Times(log', i) <= Times(log, i) + 1
        /\ (\A p \in 1..n : Steers[p].req.id # i) => Times(log', i) = Times(log, i)
    BY <1>0, <2>1, <2>2, <2>4, TimesConcat
  <2>6. events' = events /\ OnItsWay(i)' <= OnItsWay(i)
    BY <1>6, <1>8, <2>1 DEF Decides
  <2>7. \/ /\ seen'[i] = IF i \in Accepted(seen) THEN Decision(i, Verdicts(n)[i]) ELSE seen[i]
           /\ evicted'[i] = evicted[i]
        \/ /\ evicted'[i] = evicted[i] + 1
           /\ i \notin Accepted(seen) => seen[i] # None /\ seen'[i] = None
    BY <2>1 DEF Decides, TrimmedTo
  <2>8. Times(log', i) \in Nat
    <3>1. log' \in Seq(Control)
      BY <1>0, <2>1, <2>2, ElementsConcat
    <3> QED BY <3>1, TimesType
  <2>9. CASE \A p \in 1..n : Steers[p].req.id # i
    <3>1. Times(log', i) = Times(log, i)
      BY <2>5, <2>9
    <3>2. CASE evicted'[i] = evicted[i] + 1
      BY <1>0, <1>a, <1>b, <1>c, <1>d, <2>6, <3>1, <3>2
    <3>3. CASE seen'[i] = (IF i \in Accepted(seen) THEN Decision(i, Verdicts(n)[i]) ELSE seen[i])
               /\ evicted'[i] = evicted[i]
      <4>1. AppliedNow(seen', i) >= AppliedNow(seen, i)
        <5>1. CASE i \in Accepted(seen)
          <6>1. AppliedNow(seen, i) = 0
            BY <5>1 DEF AppliedNow, Accepted
          <6> QED BY <1>a, <6>1
        <5>2. CASE i \notin Accepted(seen)
          <6>1. AppliedNow(seen', i) = AppliedNow(seen, i)
            BY <3>3, <5>2 DEF AppliedNow, Retained
          <6> QED BY <1>a, <6>1
        <5> QED BY <5>1, <5>2
      <4> QED BY <1>0, <1>a, <1>b, <1>c, <1>d, <2>6, <3>1, <3>3, <4>1
    <3> QED BY <2>7, <3>2, <3>3
  <2>10. ASSUME NEW p \in 1..n, Steers[p].req.id = i
         PROVE  Times(log', i) + Times(events', i) + OnItsWay(i)' <= evicted'[i] + AppliedNow(seen', i)
    <3>1. i \in Accepted(seen) /\ Steers[p] = ControlOf(i)
      BY <2>3, <2>10
    <3>2. AppliedNow(seen, i) = 0
      BY <3>1 DEF AppliedNow, Accepted
    <3>3. evicted'[i] + AppliedNow(seen', i) >= evicted[i] + 1
      <4>1. CASE evicted'[i] = evicted[i] + 1
        BY <1>0, <1>a, <4>1
      <4>2. CASE seen'[i] = Decision(i, Verdicts(n)[i]) /\ evicted'[i] = evicted[i]
        <5>1. ControlOf(i) \in AcceptedControls
          BY <3>1, AcceptedControlsOwned
        <5>2. ControlOf(i) \in Kept(n)
          BY <3>1, <5>1 DEF Kept
        <5>3. Verdicts(n)[i] = "applied"
          BY <5>2 DEF Verdicts
        <5>4. seen'[i].state = "applied" /\ seen'[i] # None
          <6>1. Decision(i, "applied") # None /\ Decision(i, "applied").state = "applied"
            BY <3>1, MarkedIsReceipt DEF Decision, Terminal
          <6> QED BY <4>2, <5>3, <6>1
        <5>5. AppliedNow(seen', i) = 1
          BY <5>4 DEF AppliedNow, Retained
        <5> QED BY <1>0, <4>2, <5>5
      <4> QED BY <2>7, <3>1, <4>1, <4>2
    <3>4. evicted'[i] \in Nat
      BY <2>1 DEF Decides, TrimmedTo
    <3>5. Times(log, i) + Times(events, i) + OnItsWay(i) <= evicted[i]
      BY <1>0, <1>a, <1>b, <3>2
    <3>6. Times(log', i) + Times(events', i) + OnItsWay(i)' <= evicted[i] + 1
      BY <1>0, <1>a, <1>d, <2>5, <2>6, <2>8, <3>5
    <3>7. /\ Times(log', i) + Times(events', i) + OnItsWay(i)' \in Int
          /\ evicted'[i] + AppliedNow(seen', i) \in Int /\ evicted[i] + 1 \in Int
      BY <1>0, <1>a, <1>d, <2>6, <2>8, <3>4
    <3> QED BY <3>3, <3>6, <3>7
  <2> QED BY <1>c, <2>9, <2>10
<1>9. CASE Quiet /\ ~EmitApplied /\ ~Drain /\ ~MarkApplied /\ ~PersistStep
  <2>1. events' = events
    BY <1>9 DEF Next, Submission, BeginSubmit, EnterGate, HookRefuses, HookContinues,
       SubmitRefused, SubmitAccepted, FireInterrupt, RecordAccepted, DropSubmit, Worker,
       UpdateTurn, SafePointDone, FinishLoop, PersistStep, CommitterFails, SealAndObserve,
       SealPublication, GuardianJoins,
       LoseWorker, CloseDisplaced, RequestCancel, SealNewRequests, CancelToken,
       CancelTooLate, ObserveTerminal, Tick, workerVars, vars
  <2>2. UNCHANGED <<seen, evicted, log>>
    BY <1>9 DEF Quiet
  <2> QED BY <1>1, <1>6, <1>9, <2>1, <2>2
<1> QED BY <1>2, <1>3, <1>4, <1>5, <1>7, <1>8, <1>9, Classify

-----------------------------------------------------------------------------
(* The invariant, and what it gives. *)

LEMMA InboxInit == Init => InboxInv
<1> SUFFICES ASSUME Init PROVE InboxInv
  OBVIOUS
<1>1. TypeInv
  BY TypeInit
<1>2. /\ \A c \in Callers : call[c].pc = "idle" /\ gate # c
      /\ Entered = {} /\ lastSeq = 0 /\ calls = 0
  <2>1. call \in [Callers -> [pc : {"idle"}, req : {None}, at : {0}]] /\ gate = None /\ None \notin Callers
    BY BoundsAssumption DEF Init
  <2> QED BY <2>1 DEF Entered, Init
<1>3. Retained(seen) = {} /\ Accepted(seen) = {}
  BY DEF Init, Retained, Accepted
<1>4. /\ queue = <<>> /\ inFlight = {} /\ owed = {} /\ worker = "turn" /\ proof = "none"
      /\ log = <<>> /\ events = <<>> /\ posts = [n \in 1..MaxCalls |-> <<>>]
      /\ evicted = [i \in Ids |-> 0]
  BY DEF Init
<1>5. CallInv
  BY <1>2 DEF CallInv, CallerInv, Inside
<1>6. CountInv
  BY <1>2, BoundsAssumption, FS_EmptySet DEF CountInv
<1>7. ReceiptInv
  BY <1>3 DEF ReceiptInv
<1>8. OwnedInv
  <2>1. Elements(queue) = {} /\ Pending = {} /\ Len(queue) = 0
    BY <1>4 DEF Elements, Pending
  <2> QED BY <1>3, <1>4, <2>1, FS_EmptySet DEF OwnedInv
<1>9. PostInv
  <2>1. \A n \in DOMAIN posts : posts[n] = <<>> /\ Len(posts[n]) = 0
    BY <1>4
  <2> QED BY <1>3, <1>4, <2>1 DEF PostInv, PostsInOrder
<1>10. InterruptInv
  BY <1>3 DEF InterruptInv
<1>11. SealInv
  BY <1>4 DEF SealInv
<1>12. LogInv
  BY <1>3, <1>4 DEF LogInv, AppliedMeansLogged
<1>13. TodoInv
  BY <1>4 DEF TodoInv
<1>14. EffectInv
  <2>1. \A i \in Ids : {j \in 1..Len(log) : log[j].req.id = i} = {} /\ {j \in 1..Len(events) : events[j].req.id = i} = {}
    BY <1>4
  <2>2. \A i \in Ids : Times(log, i) = 0 /\ Times(events, i) = 0
    BY <2>1, FS_EmptySet DEF Times
  <2> QED BY <1>3, <1>4, <2>2 DEF EffectInv
<1> QED BY <1>1, <1>5, <1>6, <1>7, <1>8, <1>9, <1>10, <1>11, <1>12, <1>13, <1>14 DEF InboxInv

LEMMA InboxNext == InboxInv /\ [Next]_vars => InboxInv'
<1> SUFFICES ASSUME InboxInv, [Next]_vars PROVE InboxInv'
  OBVIOUS
<1> USE DEF InboxInv
<1>1. TypeInv'
  BY CallTypeStep, InboxTypeStep, WorkerTypeStep, PostTypeStep, RunTypeStep DEF TypeInv
<1>2. CallInv' /\ CountInv'
  BY CallStep, CountStep
<1>3. ReceiptInv' /\ OwnedInv' /\ PostInv'
  BY ReceiptStep, OwnedStep, PostStep
<1>4. InterruptInv' /\ SealInv' /\ LogInv'
  BY InterruptStep, SealStep, LogStep
<1>5. TodoInv' /\ EffectInv'
  BY TodoStep, EffectStep
<1> QED BY <1>1, <1>2, <1>3, <1>4, <1>5

(* The invariant of the inbox. *)
THEOREM InboxInvariant == Spec => []InboxInv
BY InboxInit, InboxNext, PTL DEF Spec

(* Every variable of the inbox, of its callers and of the worker keeps its *)
(* type; in particular no sequence number exceeds the submissions made.    *)
THEOREM RunControlTyped == Spec => []TypeOK
<1>1. InboxInv => TypeOK
  <2> SUFFICES ASSUME InboxInv PROVE TypeOK
    OBVIOUS
  <2>1. CallTyped /\ InboxTyped /\ WorkerTyped /\ PostTyped /\ RunTyped /\ CountInv
    BY DEF InboxInv, TypeInv
  <2>2. lastSeq \in 0..MaxCalls
    <3>1. lastSeq \in Nat /\ calls \in Nat /\ MaxCalls \in Nat /\ Cardinality(Entered) \in Nat
      BY <2>1, BoundsAssumption, FS_CardinalityType DEF CallTyped, InboxTyped, CountInv
    <3> QED BY <2>1, <3>1 DEF CountInv
  <2> QED BY <2>1, <2>2 DEF TypeOK, CallTyped, InboxTyped, WorkerTyped, PostTyped, RunTyped
<1> QED BY <1>1, InboxInvariant, PTL

(* AcceptedOwned: draining, acknowledging, closing, persisting and trimming*)
(* keep the receipts, the queue and the controls in flight in step.        *)
THEOREM AcceptedOwnedAlways == Spec => []AcceptedOwned
<1>1. InboxInv => AcceptedOwned
  <2> SUFFICES ASSUME InboxInv PROVE AcceptedOwned
    OBVIOUS
  <2> USE DEF InboxInv
  <2>1. queue \in Seq(Control) /\ inFlight \subseteq Control
    BY DEF TypeInv, InboxTyped
  <2>2. \A i \in Accepted(seen) : i \in Retained(seen) /\ ControlOf(i).req.id = i
    BY AcceptedControlsOwned
  <2>3. \A k \in Pending : k.req.id \in Accepted(seen) /\ k = ControlOf(k.req.id)
    BY DEF OwnedInv
  <2>4. \A i \in Accepted(seen) : ControlOf(i) \in Pending
    BY DEF OwnedInv
  <2>5. {seen[i].seq : i \in Accepted(seen)} = {k.seq : k \in Pending}
    <3>1. \A i : ControlOf(i).seq = seen[i].seq
      BY DEF ControlOf
    <3>2. \A i \in Accepted(seen) : seen[i].seq \in {k.seq : k \in Pending}
      BY <2>4, <3>1
    <3>3. \A k \in Pending : k.seq \in {seen[i].seq : i \in Accepted(seen)}
      BY <2>3, <3>1
    <3> QED BY <3>2, <3>3
  <2>6. \A k \in Pending : seen[k.req.id] # None /\ seen[k.req.id].req = k.req
    BY <2>2, <2>3 DEF Retained, ControlOf
  <2>7. Cardinality(Accepted(seen)) = Len(queue) + Cardinality(inFlight)
    <3>1. IsFiniteSet(Elements(queue)) /\ Cardinality(Elements(queue)) = Len(queue)
      BY <2>1, ElementsFinite DEF OwnedInv
    <3>2. IsFiniteSet(inFlight) /\ Elements(queue) \cap inFlight = {}
      BY DEF OwnedInv
    <3>3. /\ IsFiniteSet(Pending)
          /\ Cardinality(Pending) = Cardinality(Elements(queue)) + Cardinality(inFlight)
                                      - Cardinality(Elements(queue) \cap inFlight)
      BY <3>1, <3>2, FS_Union DEF Pending
    <3>4. Cardinality(Pending) = Len(queue) + Cardinality(inFlight)
      <4>1. Cardinality(Elements(queue) \cap inFlight) = 0
        BY <3>2, FS_EmptySet
      <4>2. Len(queue) \in Nat /\ Cardinality(inFlight) \in Nat
        BY <2>1, <3>2, FS_CardinalityType
      <4> QED BY <3>1, <3>3, <4>1, <4>2
    <3> DEFINE f == [k \in Pending |-> k.req.id]
    <3>5. f \in [Pending -> Accepted(seen)]
      BY <2>3
    <3>6. \A k, l \in Pending : f[k] = f[l] => k = l
      BY <2>3
    <3>7. \A i \in Accepted(seen) : \E k \in Pending : f[k] = i
      BY <2>2, <2>4
    <3>8. f \in Bijection(Pending, Accepted(seen))
      BY <3>5, <3>6, <3>7 DEF Bijection, Injection, Surjection, IsInjective
    <3>9. Cardinality(Accepted(seen)) = Cardinality(Pending)
      BY <3>3, <3>8, FS_Bijection DEF ExistsBijection
    <3> QED BY <3>4, <3>9
  <2> QED BY <2>5, <2>6, <2>7 DEF AcceptedOwned
<1> QED BY <1>1, InboxInvariant, PTL

(* AppliedMeansLogged: in the fact runtime an acknowledged steer is in the *)
(* log, whatever append fails and whenever the worker is lost.             *)
THEOREM AppliedMeansLoggedAlways == Spec => []AppliedMeansLogged
<1>1. InboxInv => AppliedMeansLogged
  BY DEF InboxInv, LogInv
<1> QED BY <1>1, InboxInvariant, PTL

(* PostsInOrder: the post-hooks of a control see Accepted first, if at all,*)
(* and one terminal state at most.                                         *)
THEOREM PostsInOrderAlways == Spec => []PostsInOrder
<1>1. InboxInv => PostsInOrder
  BY DEF InboxInv, PostInv
<1> QED BY <1>1, InboxInvariant, PTL

(* InterruptIsLast: an interrupt seals the inbox behind itself, and its    *)
(* receipt is observed after the token fired.                              *)
THEOREM InterruptIsLastAlways == Spec => []InterruptIsLast
<1>1. InboxInv => InterruptIsLast
  <2> SUFFICES ASSUME InboxInv, NEW i \in Retained(seen), seen[i].req.op = "interrupt"
               PROVE  closed /\ seen[i].seq = lastSeq /\ (posts[seen[i].seq] # <<>> => fired)
    BY DEF InterruptIsLast
  <2>1. /\ closed /\ seen[i].seq = lastSeq
        /\ fired \/ \E c \in Callers : call[c].pc = "fire" /\ call[c].req.id = i
    BY DEF InboxInv, InterruptInv
  <2>2. ASSUME NEW c \in Callers, call[c].pc = "fire"  PROVE posts[lastSeq] = <<>>
    BY <2>2 DEF InboxInv, CallInv, CallerInv
  <2> QED BY <2>1, <2>2
<1> QED BY <1>1, InboxInvariant, PTL

(* ReleaseProofSound: once the release observed that nothing is Accepted,  *)
(* nothing is ever again.                                                  *)
THEOREM ReleaseProofSoundAlways == Spec => []ReleaseProofSound
<1>1. InboxInv => ReleaseProofSound
  BY DEF InboxInv, SealInv, ReleaseProofSound, Pending, Elements
<1> QED BY <1>1, InboxInvariant, PTL

(* EffectOnce: a request takes effect once for as long as its receipt is   *)
(* retained, however often it is retried.                                  *)
THEOREM EffectOnceAlways == Spec => []EffectOnce
<1>1. InboxInv => EffectOnce
  <2> SUFFICES ASSUME InboxInv, NEW i \in Ids
               PROVE  Times(log, i) + Times(events, i) <= 1 + evicted[i]
    BY DEF EffectOnce
  <2>1. Times(log, i) \in Nat /\ Times(events, i) \in Nat /\ evicted[i] \in Nat
    BY TimesType DEF InboxInv, TypeInv, WorkerTyped, InboxTyped
  <2>2. OnItsWay(i) \in {0, 1} /\ AppliedNow(seen, i) \in {0, 1}
    BY DEF OnItsWay, AppliedNow
  <2>3. Times(log, i) + Times(events, i) + OnItsWay(i) <= evicted[i] + AppliedNow(seen, i)
    BY EffectForm DEF InboxInv
  <2> QED BY <2>1, <2>2, <2>3
<1> QED BY <1>1, InboxInvariant, PTL
=============================================================================
