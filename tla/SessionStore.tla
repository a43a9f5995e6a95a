---------------------------- MODULE SessionStore ----------------------------
(***************************************************************************)
(* The snapshot commit protocol of core/src/store/file_store.rs and        *)
(* wal.rs: handles of a file store, in one process or in several, replace  *)
(* session snapshots in a shared directory.                                *)
(*                                                                         *)
(* A commit holds the handle's write lock, so a handle has one operation   *)
(* under way, and the exclusive file lock.  It checks the writer lease,    *)
(* appends an Intent record, replaces the snapshot file and appends a      *)
(* Committed record.  Opening a handle recovers the log under the same     *)
(* lock.  Taking the writer lease and deleting a session do not use the    *)
(* file lock.  A snapshot stands for its digest.                           *)
(***************************************************************************)
EXTENDS Integers, Sequences, FiniteSets

CONSTANTS
    Handles,
    Sessions,
    Snapshots,
    Holders,      \* identities that callers pass to acquire_writer_lease
    MaxCalls,     \* bound of the model: operations
    MaxCrashes,   \* bound of the model: crashes of a handle's process
    None

ASSUME StoreAssumption ==
    /\ MaxCalls \in Nat /\ MaxCrashes \in Nat
    /\ None \notin Snapshots /\ None \notin Handles

VARIABLES
    wal,        \* the records of session-store.ndjson
    snap,       \* the session files: a snapshot or None
    lease,      \* writer_lease.json: a lease or None
    flock,      \* the handle that holds session-store.lock, or None
    pc,         \* where a handle is
    op,         \* the operation a handle has under way
    held,       \* held_writer_lease
    next,       \* next_wal_sequence
    open,       \* the open intents that recovery has still to look at
    stray,      \* effects of abandoned operations that the system has still to perform
    durable,    \* history: what each session file ever held
    aside,      \* history: the records of the logs that were put aside
    fresh,      \* history: stray appends since whose abandonment nobody has read the log
    overtaken,  \* history: a stray append came after another handle had read the log
    disturbed,  \* history: recoveries during which a stray effect took place
    calls,
    crashes

disk == <<wal, snap, lease, flock>>
local == <<pc, op, held, next, open>>
history == <<durable, aside, fresh, overtaken, disturbed>>
vars == <<disk, local, stray, history, calls, crashes>>

-----------------------------------------------------------------------------
(* Data. *)

(* Sequences and epochs are one-based. *)
Record == [seq : Nat \ {0}, session : Sessions, digest : Snapshots, phase : {"intent", "committed"}]

Lease == [epoch : Nat \ {0}, holder : Holders]

(* session, digest and seq of a commit, and the digest a CAS expects; epoch *)
(* and holder of a lease being acquired.                                   *)
Op == [session : Sessions \cup {None}, digest : Snapshots \cup {None},
       expected : Snapshots \cup {None}, seq : Nat, epoch : Nat,
       holder : Holders \cup {None}]

NoOp == [session |-> None, digest |-> None, expected |-> None, seq |-> 0, epoch |-> 0,
         holder |-> None]

Stray == [by : Handles, kind : {"intent", "replace", "committed", "lease"}, op : Op]

ASSUME LeaseAssumption == None \notin Lease

Records == {wal[i] : i \in 1..Len(wal)}

Intent(o) == [seq |-> o.seq, session |-> o.session, digest |-> o.digest, phase |-> "intent"]

Committed(o) == [Intent(o) EXCEPT !.phase = "committed"]

(* load_entries accepts the log: a sequence appears again only as Intent,  *)
(* then Committed, for one session.                                        *)
Loadable(log) ==
    \A i, j \in 1..Len(log) :
        i < j /\ log[i].seq = log[j].seq =>
            /\ log[i].phase = "intent" /\ log[j].phase = "committed"
            /\ log[i].session = log[j].session

(* One more than the greatest sequence of the log. *)
NextSequence(log) ==
    IF log = <<>> THEN 1
    ELSE 1 + (CHOOSE n \in {log[i].seq : i \in 1..Len(log)} :
                 \A i \in 1..Len(log) : log[i].seq <= n)

(* The intents of the log that no later Committed record closes. *)
OpenIntents(log) ==
    {log[i] : i \in {k \in 1..Len(log) :
        /\ log[k].phase = "intent"
        /\ \A j \in k..Len(log) : ~(log[j].phase = "committed" /\ log[j].seq = log[k].seq)}}

(* Fault: the digest is not compared. *)
HasSnapshot(r) == snap[r.session] # None

(* The durable snapshot is the one the intent announced. *)
Matches(r) == snap[r.session] = r.digest

(* The lease that acquire_writer_lease sees as current has this epoch. *)
Epoch == IF lease = None THEN 0 ELSE lease.epoch

(* No lease, or the one that h holds. *)
Current(h) == lease = None \/ held[h] = lease

(* ensure_writer_lease_allows_commit_unlocked *)
LeaseAllows(h) == Current(h)

-----------------------------------------------------------------------------
Init ==
    /\ wal = <<>>
    /\ snap = [s \in Sessions |-> None]
    /\ lease = None
    /\ flock = None
    /\ pc = [h \in Handles |-> "closed"]
    /\ op = [h \in Handles |-> NoOp]
    /\ held = [h \in Handles |-> None]
    /\ next = [h \in Handles |-> 1]
    /\ open = [h \in Handles |-> {}]
    /\ stray = {}
    /\ durable = [s \in Sessions |-> {}]
    /\ aside = {} /\ fresh = {} /\ overtaken = FALSE /\ disturbed = {}
    /\ calls = 0
    /\ crashes = 0

Goto(h, at) == pc' = [pc EXCEPT ![h] = at]

(* load_entries: what was abandoned before is behind this reader. *)
LogRead == fresh' = {} /\ UNCHANGED overtaken

(* Release of the file lock when h holds it. *)
Unlocked(h) == IF flock = h THEN None ELSE flock

(* What the handle remembers of the log is gone with it. *)
Gone(h) ==
    /\ next' = [next EXCEPT ![h] = 1]
    /\ open' = [open EXCEPT ![h] = {}]
    /\ disturbed' = disturbed \ {h}

(* The operation ends and its locks are dropped. *)
Return(h) ==
    /\ Goto(h, "ready")
    /\ op' = [op EXCEPT ![h] = NoOp]

-----------------------------------------------------------------------------
(* Opening a handle. *)

(* The file lock is taken and the log loaded; a log that cannot be loaded  *)
(* fails the open, or goes to quarantine.                                  *)
Open(h) ==
    /\ pc[h] = "closed"
    /\ flock = None
    /\ IF Loadable(wal)
       THEN /\ Goto(h, "recovering")
            /\ flock' = h
            /\ open' = [open EXCEPT ![h] = OpenIntents(wal)]
            /\ next' = [next EXCEPT ![h] = NextSequence(wal)]
       ELSE Goto(h, "conflict") /\ UNCHANGED <<flock, open, next>>
    /\ LogRead
    /\ UNCHANGED <<wal, snap, lease, op, held, stray, durable, aside, disturbed, calls, crashes>>

(* The next open intent in the order of sequences: a Committed record is   *)
(* appended when its snapshot is the durable one.                          *)
SealNext(h) ==
    /\ pc[h] = "recovering"
    /\ \E r \in open[h] :
         /\ \A q \in open[h] : r.seq <= q.seq
         /\ open' = [open EXCEPT ![h] = @ \ {r}]
         /\ wal' = IF Matches(r) THEN Append(wal, Committed(r)) ELSE wal
         /\ next' = [next EXCEPT ![h] = IF Matches(r) /\ r.seq >= @ THEN r.seq + 1 ELSE @]
    /\ UNCHANGED <<snap, lease, flock, pc, op, held, stray, history, calls, crashes>>

(* Fault: an open handle is handed out before recovery has ended. *)
OpenedEarly(h) ==
    /\ pc[h] = "recovering"
    /\ Goto(h, "ready")
    /\ flock' = None
    /\ disturbed' = disturbed \ {h}
    /\ UNCHANGED <<wal, snap, lease, op, held, next, open, stray, durable, aside, fresh, overtaken,
                   calls, crashes>>

(* Fault: the file lock is kept for as long as the handle is open. *)
OpenedKeepingLock(h) ==
    /\ pc[h] = "recovering"
    /\ open[h] = {}
    /\ Goto(h, "ready")
    /\ UNCHANGED <<disk, op, held, next, open, stray, history, calls, crashes>>

(* Recovery has ended, and the file lock with it. *)
Opened(h) ==
    /\ pc[h] = "recovering"
    /\ open[h] = {}
    /\ Goto(h, "ready")
    /\ flock' = None
    /\ disturbed' = disturbed \ {h}
    /\ UNCHANGED <<wal, snap, lease, op, held, next, open, stray, durable, aside, fresh, overtaken,
                   calls, crashes>>

(* new_recovering_corrupt_wal puts the log aside, without the file lock;   *)
(* the open is tried again.                                                *)
Quarantine(h) ==
    /\ pc[h] = "conflict"
    /\ wal' = <<>>
    /\ aside' = aside \cup Records
    /\ Goto(h, "closed")
    /\ UNCHANGED <<snap, lease, flock, op, held, next, open, stray, durable, fresh, overtaken,
                   disturbed, calls, crashes>>

(* The strict entry point, a log that is already put aside, or a file that *)
(* recovery can neither read nor append to.                                *)
OpenFails(h) ==
    /\ pc[h] \in {"conflict", "recovering"}
    /\ Goto(h, "closed")
    /\ Gone(h)
    /\ flock' = Unlocked(h)
    /\ UNCHANGED <<wal, snap, lease, op, held, stray, durable, aside, fresh, overtaken, calls,
                   crashes>>

-----------------------------------------------------------------------------
(* A commit. *)

Call == calls < MaxCalls /\ calls' = calls + 1

BeginSave(h) ==
    /\ pc[h] = "ready"
    /\ Call
    /\ \E s \in Sessions, d \in Snapshots :
         op' = [op EXCEPT ![h] = [NoOp EXCEPT !.session = s, !.digest = d]]
    /\ Goto(h, "locking")
    /\ UNCHANGED <<disk, held, next, open, stray, history, crashes>>

(* save_snapshot_cas compares before it takes the file lock; a mismatch    *)
(* returns false.                                                          *)
BeginCas(h) ==
    /\ pc[h] = "ready"
    /\ Call
    /\ \E s \in Sessions, d, e \in Snapshots :
         /\ snap[s] = e
         /\ op' = [op EXCEPT ![h] = [NoOp EXCEPT !.session = s, !.digest = d, !.expected = e]]
    /\ Goto(h, "locking")
    /\ UNCHANGED <<disk, held, next, open, stray, history, crashes>>

(* The file lock is taken, then the lease is checked. *)
Lock(h) ==
    /\ pc[h] = "locking"
    /\ flock = None
    /\ IF LeaseAllows(h)
       THEN Goto(h, "minting") /\ flock' = h /\ UNCHANGED op
       ELSE Return(h) /\ UNCHANGED flock
    /\ UNCHANGED <<wal, snap, lease, held, next, open, stray, history, calls,
                   crashes>>

(* Fault: the sequence this handle remembers is trusted. *)
MintFromMemory(h) ==
    /\ pc[h] = "minting"
    /\ op' = [op EXCEPT ![h].seq = next[h]]
    /\ next' = [next EXCEPT ![h] = @ + 1]
    /\ Goto(h, "intent")
    /\ UNCHANGED <<wal, snap, lease, flock, held, open, stray, history, calls, crashes>>

(* Fault: the snapshot is replaced without an intent. *)
MintWithoutIntent(h) ==
    /\ pc[h] = "minting"
    /\ op' = [op EXCEPT ![h].seq = NextSequence(wal)]
    /\ Goto(h, "replace")
    /\ LogRead
    /\ UNCHANGED <<disk, held, next, open, stray, durable, aside, disturbed, calls, crashes>>

(* The log is read again and the next sequence minted. *)
Mint(h) ==
    /\ pc[h] = "minting"
    /\ IF Loadable(wal)
       THEN /\ op' = [op EXCEPT ![h].seq = NextSequence(wal)]
            /\ next' = [next EXCEPT ![h] = NextSequence(wal) + 1]
            /\ Goto(h, "intent")
            /\ UNCHANGED flock
       ELSE Return(h) /\ flock' = Unlocked(h) /\ UNCHANGED next
    /\ LogRead
    /\ UNCHANGED <<wal, snap, lease, held, open, stray, durable, aside, disturbed, calls, crashes>>

AppendIntent(h) ==
    /\ pc[h] = "intent"
    /\ wal' = Append(wal, Intent(op[h]))
    /\ Goto(h, "replace")
    /\ UNCHANGED <<snap, lease, flock, op, held, next, open, stray, history, calls, crashes>>

(* The snapshot of operation o of h is put in place. *)
PutInPlace(o) ==
    /\ snap' = [snap EXCEPT ![o.session] = o.digest]
    /\ durable' = [durable EXCEPT ![o.session] = @ \cup {o.digest}]
    /\ UNCHANGED aside

Replace(h) ==
    /\ pc[h] = "replace"
    /\ PutInPlace(op[h])
    /\ Goto(h, "ack")
    /\ UNCHANGED <<wal, lease, flock, op, held, next, open, stray, fresh, overtaken, disturbed,
                   calls, crashes>>

(* The Committed record, then the event to the watchers. *)
AppendCommitted(h) ==
    /\ pc[h] = "ack"
    /\ wal' = Append(wal, Committed(op[h]))
    /\ Return(h)
    /\ flock' = Unlocked(h)
    /\ UNCHANGED <<snap, lease, held, next, open, stray, history, calls, crashes>>

(* A step of the call fails and the call returns the error.  An append may *)
(* fail in its sync, with the record already written.                      *)
Fail(h) ==
    /\ pc[h] \in {"locking", "minting", "intent", "replace", "ack", "leasing"}
    /\ \/ UNCHANGED wal
       \/ pc[h] = "intent" /\ wal' = Append(wal, Intent(op[h]))
       \/ pc[h] = "ack" /\ wal' = Append(wal, Committed(op[h]))
    /\ Return(h)
    /\ flock' = Unlocked(h)
    /\ UNCHANGED <<snap, lease, held, next, open, stray, history, calls, crashes>>

-----------------------------------------------------------------------------
(* The writer lease, and deletion. *)

(* acquire_writer_lease reads the durable lease ... *)
BeginAcquire(h) ==
    /\ pc[h] = "ready"
    /\ Call
    /\ \E i \in Holders :
         op' = [op EXCEPT ![h] = [NoOp EXCEPT !.epoch = Epoch + 1, !.holder = i]]
    /\ Goto(h, "leasing")
    /\ UNCHANGED <<disk, held, next, open, stray, history, crashes>>

(* ... and replaces it, with only this handle's write lock held. *)
WriteLease(h) ==
    /\ pc[h] = "leasing"
    /\ lease' = [epoch |-> op[h].epoch, holder |-> op[h].holder]
    /\ held' = [held EXCEPT ![h] = lease']
    /\ Return(h)
    /\ UNCHANGED <<wal, snap, flock, next, open, stray, history, calls, crashes>>

(* delete takes no lock: it also runs while this handle commits. *)
Delete(h) ==
    /\ pc[h] \notin {"closed", "recovering", "conflict"}
    /\ Call
    /\ \E s \in Sessions : snap[s] # None /\ snap' = [snap EXCEPT ![s] = None]
    /\ UNCHANGED <<wal, lease, flock, local, stray, history, crashes>>

-----------------------------------------------------------------------------
(* Failures. *)

(* The process dies between two effects: the system drops its file lock.   *)
Crash(h) ==
    /\ pc[h] # "closed"
    /\ crashes < MaxCrashes
    /\ crashes' = crashes + 1
    /\ pc' = [pc EXCEPT ![h] = "closed"]
    /\ op' = [op EXCEPT ![h] = NoOp]
    /\ held' = [held EXCEPT ![h] = None]
    /\ Gone(h)
    /\ stray' = {x \in stray : x.by # h}
    /\ fresh' = {x \in fresh : x.by # h}
    /\ flock' = Unlocked(h)
    /\ UNCHANGED <<wal, snap, lease, durable, aside, overtaken, calls>>

(* The effects that an operation at this place may have under way.         *)
Effects(at) ==
    CASE at = "intent" -> {"intent"} [] at = "replace" -> {"replace"}
      [] at = "ack" -> {"committed"} [] at = "leasing" -> {"lease"} [] OTHER -> {}

(* The locks of h are dropped while a blocking thread works for it: the    *)
(* effects E are still to come.                                            *)
Leave(h, E) ==
    /\ stray' = stray \cup E
    /\ fresh' = fresh \cup {x \in E : x.kind \in {"intent", "committed"}}
    /\ flock' = Unlocked(h)
    /\ UNCHANGED <<wal, snap, lease, held, durable, aside, overtaken, calls, crashes>>

(* The caller drops the future of a commit or of a lease acquisition. *)
Abandon(h) ==
    /\ pc[h] \in {"locking", "minting", "intent", "replace", "ack", "leasing"}
    /\ Leave(h, {[by |-> h, kind |-> k, op |-> op[h]] : k \in Effects(pc[h])})
    /\ Return(h)
    /\ UNCHANGED <<next, open, disturbed>>

(* The caller drops the future of an open while recovery seals an intent. *)
AbandonOpen(h) ==
    /\ pc[h] = "recovering"
    /\ \E r \in open[h] :
         /\ \A q \in open[h] : r.seq <= q.seq
         /\ Matches(r)
         /\ Leave(h, {[by |-> h, kind |-> "committed",
                       op |-> [NoOp EXCEPT !.session = r.session, !.digest = r.digest,
                                           !.seq = r.seq]]})
    /\ Goto(h, "closed")
    /\ Gone(h)
    /\ UNCHANGED op

(* The blocking threads end their work. *)
StrayAppend(x) ==
    /\ x.kind \in {"intent", "committed"}
    /\ wal' = Append(wal, IF x.kind = "intent" THEN Intent(x.op) ELSE Committed(x.op))
    /\ overtaken' = (overtaken \/ x \notin fresh)
    /\ UNCHANGED <<snap, lease, durable, aside>>

StrayReplace(x) ==
    /\ x.kind = "replace"
    /\ PutInPlace(x.op)
    /\ UNCHANGED <<wal, lease, overtaken>>

StrayLease(x) ==
    /\ x.kind = "lease"
    /\ lease' = [epoch |-> x.op.epoch, holder |-> x.op.holder]
    /\ UNCHANGED <<wal, snap, durable, aside, overtaken>>

Finish(x) ==
    /\ StrayAppend(x) \/ StrayReplace(x) \/ StrayLease(x)
    /\ stray' = stray \ {x}
    /\ fresh' = fresh \ {x}
    /\ disturbed' = disturbed \cup
          IF x.kind \in {"intent", "replace"} THEN {h \in Handles : pc[h] = "recovering"} ELSE {}
    /\ UNCHANGED <<flock, local, calls, crashes>>

StrayEffect == \E x \in stray : Finish(x)

-----------------------------------------------------------------------------
Opening(h) == Open(h) \/ SealNext(h) \/ Opened(h) \/ Quarantine(h) \/ OpenFails(h)

Committing(h) ==
    \/ Lock(h) \/ Mint(h) \/ AppendIntent(h) \/ Replace(h) \/ AppendCommitted(h)

Next ==
    \/ \E h \in Handles :
         \/ Opening(h) \/ BeginSave(h) \/ BeginCas(h) \/ Committing(h) \/ Fail(h)
         \/ BeginAcquire(h) \/ WriteLease(h) \/ Delete(h) \/ Crash(h) \/ Abandon(h)
         \/ AbandonOpen(h)
    \/ StrayEffect

Spec == Init /\ [][Next]_vars

(* The file system answers, so a started operation goes on without any     *)
(* need to fail, and the file lock is granted to a waiter that keeps       *)
(* asking.                                                                 *)
Fairness ==
    /\ \A h \in Handles :
         /\ SF_vars(Open(h)) /\ WF_vars(SealNext(h) \/ Opened(h) \/ Quarantine(h))
         /\ SF_vars(Lock(h)) /\ WF_vars(Committing(h) \/ WriteLease(h))
    /\ WF_vars(StrayEffect)

FairSpec == Spec /\ Fairness

-----------------------------------------------------------------------------
(* Properties. *)

(* Every variable of the store and of its handles stays in its type. *)
TypeOK ==
    /\ wal \in Seq(Record)
    /\ snap \in [Sessions -> Snapshots \cup {None}]
    /\ lease \in Lease \cup {None}
    /\ flock \in Handles \cup {None}
    /\ pc \in [Handles -> {"closed", "recovering", "conflict", "ready", "locking", "minting",
                           "intent", "replace", "ack", "leasing"}]
    /\ op \in [Handles -> Op]
    /\ held \in [Handles -> Lease \cup {None}]
    /\ next \in [Handles -> Nat]
    /\ open \in [Handles -> SUBSET Record]
    /\ stray \subseteq Stray
    /\ durable \in [Sessions -> SUBSET Snapshots]
    /\ aside \subseteq Record
    /\ fresh \subseteq stray
    /\ overtaken \in BOOLEAN
    /\ disturbed \subseteq Handles
    /\ calls \in Nat
    /\ crashes \in Nat

(* Whatever handles commit, crash, reopen and drop commits half way, the   *)
(* log can be loaded, unless the append of a dropped call comes after      *)
(* another handle has taken the lock it gave up and read the log.          *)
LogLoads == ~overtaken => Loadable(wal)

(* The lock keeps two commits from minting one sequence, as file_store.rs  *)
(* says where it takes it.                                                 *)
NoSequenceMintedTwice ==
    \A i, j \in 1..Len(wal) :
        wal[i].phase = "intent" /\ wal[j].phase = "intent" /\ wal[i].seq = wal[j].seq => i = j

(* Every snapshot in place was announced: its intent is in the log, or in  *)
(* a log that was put aside, so a crash between replacement and            *)
(* acknowledgement can be recovered; also when a dropped commit replaces   *)
(* its snapshot late.                                                      *)
SnapshotAnnounced ==
    \A s \in Sessions : snap[s] # None =>
        \E r \in Records \cup aside :
            r.phase = "intent" /\ r.session = s /\ r.digest = snap[s]

(* A Committed record, written by the commit or by a recovery, names a     *)
(* snapshot that its session really held.                                  *)
CommittedWasDurable ==
    \A r \in Records : r.phase = "committed" => r.digest \in durable[r.session]

(* A recovery leaves no snapshot in place whose intent is still open,      *)
(* unless a dropped commit of another handle wrote its intent or replaced  *)
(* its snapshot while the recovery ran.                                    *)
RecoveryComplete ==
    [][\A h \in Handles \ disturbed :
         pc[h] = "recovering" /\ pc'[h] = "ready" =>
             \A r \in OpenIntents(wal) : snap[r.session] # r.digest]_vars

(* Every call returns and every open ends, whoever crashed with the lock.  *)
OperationsEnd ==
    \A h \in Handles : pc[h] \notin {"ready", "closed"} ~> pc[h] \in {"ready", "closed"}

(* A stale holder cannot commit a snapshot after a takeover.               *)
FencedByLease ==
    [][\A h \in Handles : pc[h] = "replace" /\ pc'[h] = "ack" => Current(h)]_vars

=============================================================================
