------------------------- MODULE SessionStoreProofs -------------------------
(***************************************************************************)
(* Proofs about SessionStore, for any number of handles, sessions,         *)
(* snapshots, operations and crashes.                                      *)
(***************************************************************************)
EXTENDS SessionStore, NumberLemmas

(* What the operation of a handle holds, by the place the handle is at. *)
CommitOp == {o \in Op : o.session \in Sessions /\ o.digest \in Snapshots}
MintedOp == {o \in CommitOp : o.seq # 0}
LeaseOp == {o \in Op : o.epoch # 0 /\ o.holder \in Holders}

OpAt(at, o) ==
    /\ at \in {"locking", "minting"} => o \in CommitOp
    /\ at \in {"intent", "replace", "ack"} => o \in MintedOp
    /\ at = "leasing" => o \in LeaseOp

Places == {"closed", "recovering", "conflict", "ready", "locking", "minting", "intent",
           "replace", "ack", "leasing"}

DiskTyped ==
    /\ wal \in Seq(Record)
    /\ snap \in [Sessions -> Snapshots \cup {None}]
    /\ lease \in Lease \cup {None}
    /\ flock \in Handles \cup {None}
    /\ durable \in [Sessions -> SUBSET Snapshots]

PlacesTyped ==
    /\ pc \in [Handles -> Places]
    /\ op \in [Handles -> Op]
    /\ \A h \in Handles : OpAt(pc[h], op[h])

LocalTyped ==
    /\ held \in [Handles -> Lease \cup {None}]
    /\ next \in [Handles -> Nat]
    /\ open \in [Handles -> SUBSET Record]
    /\ calls \in Nat
    /\ crashes \in Nat

StrayTyped ==
    /\ stray \subseteq Stray
    /\ \A x \in stray : IF x.kind = "lease" THEN x.op \in LeaseOp ELSE x.op \in MintedOp

HistoryTyped ==
    /\ aside \subseteq Record
    /\ fresh \subseteq stray
    /\ overtaken \in BOOLEAN
    /\ disturbed \subseteq Handles

TypeInv == DiskTyped /\ PlacesTyped /\ LocalTyped /\ StrayTyped /\ HistoryTyped

(* What a commit acknowledges, now or after it was abandoned, and what a   *)
(* recovery can find in place, was once durable.                           *)
DurableInv ==
    /\ CommittedWasDurable
    /\ \A s \in Sessions : snap[s] # None => snap[s] \in durable[s]
    /\ \A h \in Handles : pc[h] = "ack" => op[h].digest \in durable[op[h].session]
    /\ \A x \in stray : x.kind = "committed" => x.op.digest \in durable[x.op.session]

Locked == {"recovering", "minting", "intent", "replace", "ack"}

(* Whoever reads or writes the log holds the file lock, save for the       *)
(* threads of the calls that were dropped.                                 *)
LockInv == \A h \in Handles : pc[h] \in Locked => flock = h

(* What is in place, or will be when a commit goes on or a dropped one     *)
(* ends, was announced.                                                    *)
AnnounceInv ==
    /\ SnapshotAnnounced
    /\ \A h \in Handles : pc[h] = "replace" => Intent(op[h]) \in Records \cup aside
    /\ \A x \in stray : x.kind = "replace" => Intent(x.op) \in Records \cup aside

(* A minted sequence is new until its intent is in the log, and the intent *)
(* is the only record with it until the commit ends; so are the intents    *)
(* that a recovery has still to look at.                                   *)
LogAt(h) ==
    /\ pc[h] = "intent" => \A r \in Records : r.seq < op[h].seq
    /\ pc[h] \in {"replace", "ack"} =>
         /\ Intent(op[h]) \in Records
         /\ \A r \in Records : r.seq = op[h].seq => r = Intent(op[h])
    /\ pc[h] = "recovering" =>
         \A r \in open[h] :
            /\ r \in Records /\ r.phase = "intent"
            /\ \A q \in Records : q.seq = r.seq => q = r

Writing == {"intent", "replace", "ack", "recovering"}

(* Until somebody reads the log, the append of a dropped call finds the    *)
(* log as the call left it.                                                *)
FreshAt(x) ==
    /\ \A h \in Handles : pc[h] \notin Writing
    /\ x.kind = "intent" => \A r \in Records : r.seq < x.op.seq
    /\ x.kind # "intent" =>
         /\ Intent(x.op) \in Records
         /\ \A r \in Records : r.seq = x.op.seq => r = Intent(x.op)

LogSound ==
    /\ Loadable(wal)
    /\ \A h \in Handles : pc[h] # "conflict" /\ LogAt(h)
    /\ \A x \in fresh : FreshAt(x) /\ x.kind \in {"intent", "committed"}
    /\ \A x, y \in fresh : x = y

LogInv == overtaken \/ LogSound

(* An open intent that a recovery has passed is not in place. *)
RecoveryInv ==
    \A h \in Handles \ disturbed : pc[h] = "recovering" =>
        \A r \in OpenIntents(wal) : r \in open[h] \/ snap[r.session] # r.digest

StoreInv == LockInv /\ LogInv /\ AnnounceInv /\ RecoveryInv

-----------------------------------------------------------------------------
(* Sequences and logs. *)

(* The sequences of a log are positive numbers. *)
LEMMA RecordSequences ==
  ASSUME NEW log \in Seq(Record)
  PROVE  /\ Len(log) \in Nat
         /\ log # <<>> => 1 <= Len(log)
         /\ \A i \in 1..Len(log) : log[i].seq \in Nat
<1>1. \A r \in Record : r.seq \in Nat
  BY DEF Record
<1>2. \A i \in 1..Len(log) : log[i] \in Record
  OBVIOUS
<1> QED BY <1>1, <1>2

(* Of finitely many numbers one is the greatest. *)
LEMMA GreatestOf ==
  ASSUME NEW n \in Nat, n # 0, NEW f, \A i \in 1..n : f[i] \in Nat
  PROVE  \E m \in 1..n : \A i \in 1..n : f[i] <= f[m]
<1> DEFINE Top(k) == \E m \in 1..k : \A i \in 1..k : f[i] <= f[m]
           Without == {k \in 1..n : ~Top(k)}
<1>1. Top(1)
  OBVIOUS
<1>2. ASSUME NEW k \in 1..n, k # 1, Top(k - 1)
      PROVE  Top(k)
  <2>1. PICK m \in 1..(k - 1) : \A i \in 1..(k - 1) : f[i] <= f[m]
    BY <1>2
  <2>2. \A i \in 1..k : f[i] \in Nat /\ (i = k \/ i \in 1..(k - 1))
    OBVIOUS
  <2>3. m \in 1..k /\ k \in 1..k
    OBVIOUS
  <2>4. CASE f[m] <= f[k]
    <3>1. \A i \in 1..k : f[i] <= f[k]
      BY <2>1, <2>2, <2>3, <2>4
    <3> QED BY <2>3, <3>1
  <2>5. CASE ~(f[m] <= f[k])
    <3>1. \A i \in 1..k : f[i] <= f[m]
      BY <2>1, <2>2, <2>3, <2>5
    <3> QED BY <2>3, <3>1
  <2> QED BY <2>4, <2>5
<1> HIDE DEF Top
<1>3. ASSUME Without # {} PROVE FALSE
  <2>1. Without \subseteq Nat
    OBVIOUS
  <2>2. PICK k \in Without : \A j \in Without : k <= j
    <3> HIDE DEF Without
    <3> QED BY <1>3, <2>1, LeastNumber
  <2>3. k \in 1..n /\ ~Top(k)
    OBVIOUS
  <2>4. k # 1
    BY <1>1, <2>3
  <2>5. k - 1 \in 1..n /\ ~(k <= k - 1)
    BY <2>3, <2>4
  <2>6. Top(k - 1)
    BY <2>2, <2>5
  <2> QED BY <1>2, <2>3, <2>4, <2>6
<1>4. n \notin Without /\ n \in 1..n
  BY <1>3
<1> QED BY <1>4 DEF Top

(* The greatest sequence of a log that is not empty. *)
LEMMA GreatestSequence ==
  ASSUME NEW log \in Seq(Record), log # <<>>
  PROVE  \E n \in {log[i].seq : i \in 1..Len(log)} :
            \A i \in 1..Len(log) : log[i].seq <= n
<1> DEFINE f == [i \in 1..Len(log) |-> log[i].seq]
<1>1. Len(log) \in Nat /\ Len(log) # 0 /\ \A i \in 1..Len(log) : f[i] \in Nat
  BY RecordSequences
<1>2. \A i \in 1..Len(log) : f[i] = log[i].seq
  OBVIOUS
<1> HIDE DEF f
<1>3. PICK m \in 1..Len(log) : \A i \in 1..Len(log) : f[i] <= f[m]
  BY <1>1, GreatestOf
<1> QED BY <1>2, <1>3

(* A minted sequence is positive and above all those of the log. *)
LEMMA NextSequenceAbove ==
  ASSUME NEW log \in Seq(Record)
  PROVE  /\ NextSequence(log) \in Nat \ {0}
         /\ \A i \in 1..Len(log) : log[i].seq < NextSequence(log)
<1>1. CASE log = <<>>
  BY <1>1 DEF NextSequence
<1>2. CASE log # <<>>
  <2> DEFINE S == {log[i].seq : i \in 1..Len(log)}
             Top(n) == \A i \in 1..Len(log) : log[i].seq <= n
             m == CHOOSE n \in S : Top(n)
  <2>1. \A i \in 1..Len(log) : log[i].seq \in Nat
    BY RecordSequences
  <2>2. \E n \in S : Top(n)
    BY <1>2, GreatestSequence
  <2>3. m \in S /\ Top(m)
    BY <2>2
  <2>4. NextSequence(log) = 1 + m
    BY <1>2 DEF NextSequence
  <2>5. m \in Nat
    BY <2>1, <2>3
  <2> HIDE DEF m
  <2> QED BY <2>1, <2>3, <2>4, <2>5
<1> QED BY <1>1, <1>2

-----------------------------------------------------------------------------
(* Types. *)

(* The operators that make operations and records. *)
LEMMA OpTypes ==
  /\ NoOp \in Op
  /\ \A s \in Sessions, d \in Snapshots :
       [NoOp EXCEPT !.session = s, !.digest = d] \in CommitOp
  /\ \A s \in Sessions, d \in Snapshots, e \in Snapshots :
       [NoOp EXCEPT !.session = s, !.digest = d, !.expected = e] \in CommitOp
  /\ \A n \in Nat \ {0}, i \in Holders :
       [NoOp EXCEPT !.epoch = n, !.holder = i] \in LeaseOp
  /\ \A o \in CommitOp, n \in Nat \ {0} : [o EXCEPT !.seq = n] \in MintedOp
  /\ \A o \in LeaseOp : [epoch |-> o.epoch, holder |-> o.holder] \in Lease
BY DEF NoOp, Op, CommitOp, MintedOp, LeaseOp, Lease

(* The operation of a recovery that seals the intent r. *)
LEMMA SealOp ==
  ASSUME NEW r \in Record
  PROVE  [NoOp EXCEPT !.session = r.session, !.digest = r.digest, !.seq = r.seq] \in MintedOp
BY DEF Record, NoOp, Op, CommitOp, MintedOp

LEMMA OpSubsets ==
  MintedOp \subseteq CommitOp /\ CommitOp \subseteq Op /\ LeaseOp \subseteq Op
BY DEF CommitOp, MintedOp, LeaseOp

LEMMA CommitFields ==
  ASSUME NEW o \in CommitOp
  PROVE  o.session \in Sessions /\ o.digest \in Snapshots
BY DEF CommitOp

LEMMA OpSeqs == \A o \in Op : o.seq \in Nat
BY DEF Op

LEMMA RecordTypes ==
  /\ \A o \in MintedOp : Intent(o) \in Record /\ Committed(o) \in Record
  /\ \A r \in Record : Committed(r) \in Record
BY DEF Intent, Committed, Record, Op, CommitOp, MintedOp

(* What an abandoned call leaves to be done is what it was doing. *)
LEMMA EffectsOf ==
  ASSUME NEW at, NEW k \in Effects(at)
  PROVE  \/ k = "intent" /\ at = "intent"
         \/ k = "replace" /\ at = "replace"
         \/ k = "committed" /\ at = "ack"
         \/ k = "lease" /\ at = "leasing"
BY DEF Effects

LEMMA OpenIntentsType ==
  ASSUME NEW log \in Seq(Record)
  PROVE  OpenIntents(log) \subseteq Record
BY DEF OpenIntents

LEMMA TypeInvTypes == TypeInv => TypeOK
BY DEF TypeInv, HistoryTyped, TypeOK, DiskTyped, PlacesTyped, LocalTyped, StrayTyped, Places

(* A handle moves on, with an operation that suits the place. *)
LEMMA PlaceStep ==
  ASSUME PlacesTyped, NEW h \in Handles, NEW at \in Places, NEW o \in Op, OpAt(at, o),
         pc' = [pc EXCEPT ![h] = at], op' = [op EXCEPT ![h] = o]
  PROVE  PlacesTyped'
<1>1. pc' \in [Handles -> Places] /\ op' \in [Handles -> Op]
  BY DEF PlacesTyped
<1>2. ASSUME NEW k \in Handles PROVE OpAt(pc'[k], op'[k])
  BY DEF PlacesTyped
<1> QED BY <1>1, <1>2 DEF PlacesTyped

(* A handle moves on with the operation it has. *)
LEMMA PlaceOnly ==
  ASSUME PlacesTyped, NEW h \in Handles, NEW at \in Places, OpAt(at, op[h]),
         pc' = [pc EXCEPT ![h] = at], op' = op
  PROVE  PlacesTyped'
<1>1. op' = [op EXCEPT ![h] = op[h]] /\ op[h] \in Op
  BY DEF PlacesTyped
<1> QED BY <1>1, PlaceStep

LEMMA ReturnStep ==
  ASSUME PlacesTyped, NEW h \in Handles, Return(h)
  PROVE  PlacesTyped'
<1>1. OpAt("ready", NoOp) /\ "ready" \in Places
  BY DEF OpAt, Places
<1> QED BY <1>1, OpTypes, PlaceStep DEF Return, Goto

LEMMA TypeInit == Init => TypeInv
<1> SUFFICES ASSUME Init PROVE TypeInv
  OBVIOUS
<1>1. DiskTyped
  BY StoreAssumption DEF Init, DiskTyped
<1>2. PlacesTyped
  BY OpTypes DEF Init, PlacesTyped, OpAt, Places
<1>3. LocalTyped
  BY DEF Init, LocalTyped
<1>4. StrayTyped
  BY DEF Init, StrayTyped
<1>5. HistoryTyped
  BY DEF Init, HistoryTyped
<1> QED BY <1>1, <1>2, <1>3, <1>4, <1>5 DEF TypeInv

LEMMA TypeStep ==
  ASSUME TypeInv, [Next]_vars
  PROVE  TypeInv'
<1> USE DEF history, LogRead, Gone, Leave
<1>a. DiskTyped /\ PlacesTyped /\ LocalTyped /\ StrayTyped /\ HistoryTyped
  BY DEF TypeInv
<1>b. Epoch + 1 \in Nat \ {0}
  BY <1>a DEF Epoch, DiskTyped, Lease
<1>1. ASSUME NEW h \in Handles, Open(h) PROVE TypeInv'
  <2>1. DiskTyped'
    BY <1>a, <1>1 DEF Open, DiskTyped
  <2>2. PlacesTyped'
    <3>1. PICK at \in {"recovering", "conflict"} : Goto(h, at) /\ op' = op
      BY <1>1 DEF Open
    <3>2. OpAt(at, op[h]) /\ at \in Places
      BY DEF OpAt, Places
    <3> QED BY <1>a, <3>1, <3>2, PlaceOnly DEF Goto
  <2>3. LocalTyped'
    BY <1>a, <1>1, NextSequenceAbove, OpenIntentsType DEF Open, LocalTyped, DiskTyped
  <2>4. StrayTyped'
    BY <1>a, <1>1 DEF Open, StrayTyped
  <2>5. HistoryTyped'
    BY <1>a, <1>1 DEF Open, HistoryTyped, StrayTyped
  <2> QED BY <2>1, <2>2, <2>3, <2>4, <2>5 DEF TypeInv
<1>2. ASSUME NEW h \in Handles, SealNext(h) PROVE TypeInv'
  <2>1. DiskTyped'
    BY <1>a, <1>2, RecordTypes DEF SealNext, DiskTyped, Matches, LocalTyped
  <2>2. PlacesTyped'
    BY <1>a, <1>2 DEF SealNext, local, PlacesTyped
  <2>b. \A r \in Record : r.seq \in Nat
    BY DEF Record
  <2>3. LocalTyped'
    BY <1>a, <1>2, <2>b DEF SealNext, LocalTyped
  <2>4. StrayTyped'
    BY <1>a, <1>2 DEF SealNext, StrayTyped
  <2>5. HistoryTyped'
    BY <1>a, <1>2 DEF SealNext, HistoryTyped, StrayTyped
  <2> QED BY <2>1, <2>2, <2>3, <2>4, <2>5 DEF TypeInv
<1>3. ASSUME NEW h \in Handles, Opened(h) PROVE TypeInv'
  <2>1. DiskTyped'
    BY <1>a, <1>3 DEF Opened, DiskTyped
  <2>2. PlacesTyped'
    <3>1. OpAt("ready", op[h]) /\ "ready" \in Places
      BY <1>3 DEF OpAt, Places
    <3> QED BY <1>a, <1>3, <3>1, PlaceOnly DEF Opened, Goto
  <2>3. LocalTyped'
    BY <1>a, <1>3 DEF Opened, LocalTyped
  <2>4. StrayTyped'
    BY <1>a, <1>3 DEF Opened, StrayTyped
  <2>5. HistoryTyped'
    BY <1>a, <1>3 DEF Opened, HistoryTyped, StrayTyped
  <2> QED BY <2>1, <2>2, <2>3, <2>4, <2>5 DEF TypeInv
<1>4. ASSUME NEW h \in Handles, Quarantine(h) PROVE TypeInv'
  <2>1. DiskTyped'
    BY <1>a, <1>4 DEF Quarantine, DiskTyped
  <2>2. PlacesTyped'
    <3>1. OpAt("closed", op[h]) /\ "closed" \in Places
      BY <1>4 DEF OpAt, Places
    <3> QED BY <1>a, <1>4, <3>1, PlaceOnly DEF Quarantine, Goto
  <2>3. LocalTyped'
    BY <1>a, <1>4 DEF Quarantine, LocalTyped
  <2>4. StrayTyped'
    BY <1>a, <1>4 DEF Quarantine, StrayTyped
  <2>5. HistoryTyped'
    BY <1>a, <1>4 DEF Quarantine, HistoryTyped, DiskTyped, Records
  <2> QED BY <2>1, <2>2, <2>3, <2>4, <2>5 DEF TypeInv
<1>5. ASSUME NEW h \in Handles, OpenFails(h) PROVE TypeInv'
  <2>1. DiskTyped'
    BY <1>a, <1>5 DEF OpenFails, DiskTyped, Unlocked
  <2>2. PlacesTyped'
    <3>1. OpAt("closed", op[h]) /\ "closed" \in Places
      BY <1>5 DEF OpAt, Places
    <3> QED BY <1>a, <1>5, <3>1, PlaceOnly DEF OpenFails, Goto
  <2>3. LocalTyped'
    BY <1>a, <1>5 DEF OpenFails, LocalTyped
  <2>4. StrayTyped'
    BY <1>a, <1>5 DEF OpenFails, StrayTyped
  <2>5. HistoryTyped'
    BY <1>a, <1>5 DEF OpenFails, HistoryTyped, StrayTyped
  <2> QED BY <2>1, <2>2, <2>3, <2>4, <2>5 DEF TypeInv
<1>6. ASSUME NEW h \in Handles, BeginSave(h) PROVE TypeInv'
  <2>1. DiskTyped'
    BY <1>a, <1>6 DEF BeginSave, DiskTyped, disk
  <2>2. PlacesTyped'
    <3>1. PICK o \in CommitOp : op' = [op EXCEPT ![h] = o]
      BY <1>6, <1>b, OpTypes DEF BeginSave
    <3>2. OpAt("locking", o) /\ "locking" \in Places /\ o \in Op
      BY OpSubsets DEF OpAt, Places
    <3> QED BY <1>a, <1>6, <3>1, <3>2, PlaceStep DEF BeginSave, Goto
  <2>3. LocalTyped'
    BY <1>a, <1>6 DEF BeginSave, LocalTyped, Call
  <2>4. StrayTyped'
    BY <1>a, <1>6 DEF BeginSave, StrayTyped
  <2>5. HistoryTyped'
    BY <1>a, <1>6 DEF BeginSave, HistoryTyped, StrayTyped
  <2> QED BY <2>1, <2>2, <2>3, <2>4, <2>5 DEF TypeInv
<1>7. ASSUME NEW h \in Handles, BeginCas(h) PROVE TypeInv'
  <2>1. DiskTyped'
    BY <1>a, <1>7 DEF BeginCas, DiskTyped, disk
  <2>2. PlacesTyped'
    <3>1. PICK o \in CommitOp : op' = [op EXCEPT ![h] = o]
      BY <1>7, <1>b, OpTypes DEF BeginCas
    <3>2. OpAt("locking", o) /\ "locking" \in Places /\ o \in Op
      BY OpSubsets DEF OpAt, Places
    <3> QED BY <1>a, <1>7, <3>1, <3>2, PlaceStep DEF BeginCas, Goto
  <2>3. LocalTyped'
    BY <1>a, <1>7 DEF BeginCas, LocalTyped, Call
  <2>4. StrayTyped'
    BY <1>a, <1>7 DEF BeginCas, StrayTyped
  <2>5. HistoryTyped'
    BY <1>a, <1>7 DEF BeginCas, HistoryTyped, StrayTyped
  <2> QED BY <2>1, <2>2, <2>3, <2>4, <2>5 DEF TypeInv
<1>8. ASSUME NEW h \in Handles, Lock(h) PROVE TypeInv'
  <2>1. DiskTyped'
    BY <1>a, <1>8 DEF Lock, DiskTyped
  <2>2. PlacesTyped'
    <3>1. OpAt("minting", op[h]) /\ "minting" \in Places
      BY <1>a, <1>8 DEF Lock, PlacesTyped, OpAt, Places
    <3> QED BY <1>a, <1>8, <3>1, PlaceOnly, ReturnStep DEF Lock, Goto
  <2>3. LocalTyped'
    BY <1>a, <1>8 DEF Lock, LocalTyped
  <2>4. StrayTyped'
    BY <1>a, <1>8 DEF Lock, StrayTyped
  <2>5. HistoryTyped'
    BY <1>a, <1>8 DEF Lock, HistoryTyped, StrayTyped
  <2> QED BY <2>1, <2>2, <2>3, <2>4, <2>5 DEF TypeInv
<1>9. ASSUME NEW h \in Handles, Mint(h) PROVE TypeInv'
  <2>1. DiskTyped'
    BY <1>a, <1>9 DEF Mint, DiskTyped, Unlocked
  <2>2. PlacesTyped'
    <3>1. CASE Loadable(wal)
      <4> DEFINE n == NextSequence(wal)
                 o == [op[h] EXCEPT !.seq = n]
      <4>1. n \in Nat \ {0}
        BY <1>a, NextSequenceAbove DEF DiskTyped
      <4>2. op[h] \in CommitOp
        BY <1>a, <1>9 DEF Mint, PlacesTyped, OpAt
      <4>3. o \in MintedOp
        BY <4>1, <4>2, OpTypes
      <4>4. op' = [op EXCEPT ![h] = o] /\ Goto(h, "intent")
        BY <1>9, <3>1 DEF Mint
      <4> HIDE DEF o, n
      <4>5. OpAt("intent", o) /\ "intent" \in Places /\ o \in Op
        BY <4>3, OpSubsets DEF OpAt, Places
      <4> QED BY <1>a, <4>4, <4>5, PlaceStep DEF Goto
    <3>2. CASE ~Loadable(wal)
      BY <1>a, <1>9, <3>2, ReturnStep DEF Mint
    <3> QED BY <3>1, <3>2
  <2>3. LocalTyped'
    <3>1. NextSequence(wal) + 1 \in Nat
      BY <1>a, NextSequenceAbove DEF DiskTyped
    <3> QED BY <1>a, <1>9, <3>1 DEF Mint, LocalTyped
  <2>4. StrayTyped'
    BY <1>a, <1>9 DEF Mint, StrayTyped
  <2>5. HistoryTyped'
    BY <1>a, <1>9 DEF Mint, HistoryTyped, StrayTyped
  <2> QED BY <2>1, <2>2, <2>3, <2>4, <2>5 DEF TypeInv
<1>10. ASSUME NEW h \in Handles, AppendIntent(h) PROVE TypeInv'
  <2>a. op[h] \in MintedOp
    BY <1>a, <1>10 DEF AppendIntent, PlacesTyped, OpAt
  <2>1. DiskTyped'
    BY <1>a, <1>10, RecordTypes, <2>a DEF AppendIntent, DiskTyped
  <2>2. PlacesTyped'
    <3>1. OpAt("replace", op[h]) /\ "replace" \in Places
      BY <1>10, <2>a DEF OpAt, Places
    <3> QED BY <1>a, <1>10, <3>1, PlaceOnly DEF AppendIntent, Goto
  <2>3. LocalTyped'
    BY <1>a, <1>10 DEF AppendIntent, LocalTyped
  <2>4. StrayTyped'
    BY <1>a, <1>10 DEF AppendIntent, StrayTyped
  <2>5. HistoryTyped'
    BY <1>a, <1>10 DEF AppendIntent, HistoryTyped, StrayTyped
  <2> QED BY <2>1, <2>2, <2>3, <2>4, <2>5 DEF TypeInv
<1>11. ASSUME NEW h \in Handles, Replace(h) PROVE TypeInv'
  <2>a. op[h] \in MintedOp
    BY <1>a, <1>11 DEF Replace, PlacesTyped, OpAt
  <2>1. DiskTyped'
    BY <1>a, <1>11, CommitFields, OpSubsets, <2>a DEF Replace, DiskTyped, PutInPlace
  <2>2. PlacesTyped'
    <3>1. OpAt("ack", op[h]) /\ "ack" \in Places
      BY <1>11, <2>a DEF OpAt, Places
    <3> QED BY <1>a, <1>11, <3>1, PlaceOnly DEF Replace, Goto
  <2>3. LocalTyped'
    BY <1>a, <1>11 DEF Replace, LocalTyped
  <2>4. StrayTyped'
    BY <1>a, <1>11 DEF Replace, StrayTyped
  <2>5. HistoryTyped'
    BY <1>a, <1>11 DEF Replace, PutInPlace, HistoryTyped
  <2> QED BY <2>1, <2>2, <2>3, <2>4, <2>5 DEF TypeInv
<1>12. ASSUME NEW h \in Handles, AppendCommitted(h) PROVE TypeInv'
  <2>a. op[h] \in MintedOp
    BY <1>a, <1>12 DEF AppendCommitted, PlacesTyped, OpAt
  <2>1. DiskTyped'
    BY <1>a, <1>12, RecordTypes, <2>a DEF AppendCommitted, DiskTyped, Unlocked
  <2>2. PlacesTyped'
    BY <1>a, <1>12, ReturnStep DEF AppendCommitted
  <2>3. LocalTyped'
    BY <1>a, <1>12 DEF AppendCommitted, LocalTyped
  <2>4. StrayTyped'
    BY <1>a, <1>12 DEF AppendCommitted, StrayTyped
  <2>5. HistoryTyped'
    BY <1>a, <1>12 DEF AppendCommitted, HistoryTyped, StrayTyped
  <2> QED BY <2>1, <2>2, <2>3, <2>4, <2>5 DEF TypeInv
<1>13. ASSUME NEW h \in Handles, Fail(h) PROVE TypeInv'
  <2>a. pc[h] \in {"intent", "ack"} => op[h] \in MintedOp
    BY <1>a, <1>13 DEF PlacesTyped, OpAt
  <2>1. DiskTyped'
    BY <1>a, <1>13, RecordTypes, <2>a DEF Fail, DiskTyped, Unlocked
  <2>2. PlacesTyped'
    BY <1>a, <1>13, ReturnStep DEF Fail
  <2>3. LocalTyped'
    BY <1>a, <1>13 DEF Fail, LocalTyped
  <2>4. StrayTyped'
    BY <1>a, <1>13 DEF Fail, StrayTyped
  <2>5. HistoryTyped'
    BY <1>a, <1>13 DEF Fail, HistoryTyped, StrayTyped
  <2> QED BY <2>1, <2>2, <2>3, <2>4, <2>5 DEF TypeInv
<1>14. ASSUME NEW h \in Handles, BeginAcquire(h) PROVE TypeInv'
  <2>1. DiskTyped'
    BY <1>a, <1>14 DEF BeginAcquire, DiskTyped, disk
  <2>2. PlacesTyped'
    <3>1. PICK o \in LeaseOp : op' = [op EXCEPT ![h] = o]
      <4>1. PICK i \in Holders :
              op' = [op EXCEPT ![h] = [NoOp EXCEPT !.epoch = Epoch + 1, !.holder = i]]
        BY <1>14 DEF BeginAcquire
      <4>2. [NoOp EXCEPT !.epoch = Epoch + 1, !.holder = i] \in LeaseOp
        BY <1>b, OpTypes
      <4> QED BY <4>1, <4>2
    <3>2. OpAt("leasing", o) /\ "leasing" \in Places /\ o \in Op
      BY OpSubsets DEF OpAt, Places
    <3> QED BY <1>a, <1>14, <3>1, <3>2, PlaceStep DEF BeginAcquire, Goto
  <2>3. LocalTyped'
    BY <1>a, <1>14 DEF BeginAcquire, LocalTyped, Call
  <2>4. StrayTyped'
    BY <1>a, <1>14 DEF BeginAcquire, StrayTyped
  <2>5. HistoryTyped'
    BY <1>a, <1>14 DEF BeginAcquire, HistoryTyped, StrayTyped
  <2> QED BY <2>1, <2>2, <2>3, <2>4, <2>5 DEF TypeInv
<1>15. ASSUME NEW h \in Handles, WriteLease(h) PROVE TypeInv'
  <2>a. op[h] \in LeaseOp
    BY <1>a, <1>15 DEF WriteLease, PlacesTyped, OpAt
  <2>1. DiskTyped'
    BY <1>a, <1>15, OpTypes, <2>a DEF WriteLease, DiskTyped
  <2>2. PlacesTyped'
    BY <1>a, <1>15, ReturnStep DEF WriteLease
  <2>3. LocalTyped'
    BY <1>a, <1>15, OpTypes, <2>a DEF WriteLease, LocalTyped
  <2>4. StrayTyped'
    BY <1>a, <1>15 DEF WriteLease, StrayTyped
  <2>5. HistoryTyped'
    BY <1>a, <1>15 DEF WriteLease, HistoryTyped, StrayTyped
  <2> QED BY <2>1, <2>2, <2>3, <2>4, <2>5 DEF TypeInv
<1>16. ASSUME NEW h \in Handles, Delete(h) PROVE TypeInv'
  <2>1. DiskTyped'
    BY <1>a, <1>16, StoreAssumption DEF Delete, DiskTyped
  <2>2. PlacesTyped'
    BY <1>a, <1>16 DEF Delete, local, PlacesTyped
  <2>3. LocalTyped'
    BY <1>a, <1>16 DEF Delete, LocalTyped, Call, local
  <2>4. StrayTyped'
    BY <1>a, <1>16 DEF Delete, StrayTyped
  <2>5. HistoryTyped'
    BY <1>a, <1>16 DEF Delete, HistoryTyped, StrayTyped
  <2> QED BY <2>1, <2>2, <2>3, <2>4, <2>5 DEF TypeInv
<1>17. ASSUME NEW h \in Handles, Crash(h) PROVE TypeInv'
  <2>1. DiskTyped'
    BY <1>a, <1>17 DEF Crash, DiskTyped, Unlocked
  <2>2. PlacesTyped'
    <3>1. OpAt("closed", NoOp) /\ "closed" \in Places
      BY DEF OpAt, Places
    <3> QED BY <1>a, <1>17, <3>1, OpTypes, PlaceStep DEF Crash
  <2>3. LocalTyped'
    BY <1>a, <1>17 DEF Crash, LocalTyped
  <2>4. StrayTyped'
    BY <1>a, <1>17 DEF Crash, StrayTyped
  <2>5. HistoryTyped'
    BY <1>a, <1>17 DEF Crash, HistoryTyped, StrayTyped
  <2> QED BY <2>1, <2>2, <2>3, <2>4, <2>5 DEF TypeInv
<1>18. ASSUME NEW h \in Handles, Abandon(h) PROVE TypeInv'
  <2>1. DiskTyped'
    BY <1>a, <1>18 DEF Abandon, DiskTyped, Unlocked
  <2>2. PlacesTyped'
    BY <1>a, <1>18, ReturnStep DEF Abandon
  <2>3. LocalTyped'
    BY <1>a, <1>18 DEF Abandon, LocalTyped
  <2>4. StrayTyped'
    <3>1. ASSUME NEW k \in Effects(pc[h])
          PROVE  /\ [by |-> h, kind |-> k, op |-> op[h]] \in Stray
                 /\ IF k = "lease" THEN op[h] \in LeaseOp ELSE op[h] \in MintedOp
      <4>1. op[h] \in Op
        BY <1>a DEF PlacesTyped
      <4>2. OpAt(pc[h], op[h])
        BY <1>a DEF PlacesTyped
      <4>3. k \in {"intent", "replace", "committed", "lease"}
        BY EffectsOf
      <4>4. IF k = "lease" THEN op[h] \in LeaseOp ELSE op[h] \in MintedOp
        BY <4>2, EffectsOf DEF OpAt
      <4> QED BY <4>1, <4>3, <4>4 DEF Stray
    <3> QED BY <1>a, <1>18, <3>1 DEF Abandon, StrayTyped
  <2>5. HistoryTyped'
    BY <1>a, <1>18 DEF Abandon, HistoryTyped, StrayTyped
  <2> QED BY <2>1, <2>2, <2>3, <2>4, <2>5 DEF TypeInv
<1>19. ASSUME StrayEffect PROVE TypeInv'
  <2>1. PICK x \in stray : Finish(x)
    BY <1>19 DEF StrayEffect
  <2>2. IF x.kind = "lease" THEN x.op \in LeaseOp ELSE x.op \in MintedOp
    BY <1>a DEF StrayTyped
  <2>3. DiskTyped'
    <3>1. CASE x.kind \in {"intent", "committed"}
      BY <1>a, <2>1, <2>2, <3>1, RecordTypes DEF Finish, StrayAppend, StrayReplace, StrayLease, DiskTyped
    <3>2. CASE x.kind = "replace"
      BY <1>a, <2>1, <2>2, <3>2, OpSubsets, CommitFields DEF Finish, StrayAppend, StrayReplace, StrayLease, DiskTyped, PutInPlace
    <3>3. CASE x.kind = "lease"
      BY <1>a, <2>1, <2>2, <3>3, OpTypes DEF Finish, StrayAppend, StrayReplace, StrayLease, DiskTyped
    <3> QED BY <2>1, <3>1, <3>2, <3>3 DEF Finish, StrayAppend, StrayReplace, StrayLease
  <2>4. PlacesTyped' /\ LocalTyped'
    BY <1>a, <2>1 DEF Finish, StrayAppend, StrayReplace, StrayLease, PlacesTyped, LocalTyped, local
  <2>5. StrayTyped'
    BY <1>a, <2>1 DEF Finish, StrayTyped
  <2>6. HistoryTyped'
    BY <1>a, <2>1 DEF Finish, StrayAppend, StrayReplace, StrayLease, PutInPlace, HistoryTyped
  <2> QED BY <2>3, <2>4, <2>5, <2>6 DEF TypeInv
<1>20. CASE UNCHANGED vars
  <2>1. UNCHANGED <<disk, local, stray, history, calls, crashes>>
    BY <1>20 DEF vars
  <2> QED
    BY <1>a, <2>1 DEF disk, local, TypeInv, DiskTyped, PlacesTyped, LocalTyped, StrayTyped,
                      HistoryTyped
<1>21. ASSUME NEW h \in Handles, AbandonOpen(h) PROVE TypeInv'
  <2>a. PICK r \in open[h] :
          Leave(h, {[by |-> h, kind |-> "committed",
                     op |-> [NoOp EXCEPT !.session = r.session, !.digest = r.digest,
                                         !.seq = r.seq]]})
    BY <1>21 DEF AbandonOpen
  <2>1. DiskTyped'
    BY <1>a, <2>a DEF DiskTyped, Unlocked
  <2>2. PlacesTyped'
    <3>1. OpAt("closed", op[h]) /\ "closed" \in Places
      BY DEF OpAt, Places
    <3> QED BY <1>a, <1>21, <3>1, PlaceOnly DEF AbandonOpen, Goto
  <2>3. LocalTyped'
    BY <1>a, <1>21, <2>a DEF AbandonOpen, LocalTyped
  <2>4. StrayTyped'
    <3> DEFINE o == [NoOp EXCEPT !.session = r.session, !.digest = r.digest, !.seq = r.seq]
               x == [by |-> h, kind |-> "committed", op |-> o]
    <3>1. r \in Record
      BY <1>a DEF LocalTyped
    <3>2. o \in MintedOp /\ o \in Op
      BY <3>1, SealOp, OpSubsets
    <3> HIDE DEF o
    <3>3. x \in Stray /\ x.kind # "lease" /\ x.op = o
      BY <3>2 DEF Stray
    <3>4. stray' = stray \cup {x}
      BY <2>a DEF o
    <3> HIDE DEF x
    <3> QED BY <1>a, <3>2, <3>3, <3>4 DEF StrayTyped
  <2>5. HistoryTyped'
    BY <1>a, <1>21, <2>a DEF AbandonOpen, HistoryTyped
  <2> QED BY <2>1, <2>2, <2>3, <2>4, <2>5 DEF TypeInv
<1> QED
  BY <1>1, <1>2, <1>3, <1>4, <1>5, <1>6, <1>7, <1>8, <1>9, <1>10, <1>11, <1>12, <1>13, <1>14, <1>15, <1>16, <1>17, <1>18, <1>19, <1>20,
     <1>21
  DEF Next, Opening, Committing

-----------------------------------------------------------------------------
(* Committed records and durable snapshots. *)

LEMMA AppendedRecords ==
  ASSUME wal \in Seq(Record), NEW r \in Record, wal' = Append(wal, r)
  PROVE  Records' = Records \cup {r}
BY DEF Records

LEMMA KeptRecords ==
  ASSUME wal' = wal PROVE Records' = Records
BY DEF Records

LEMMA RecordFields ==
  ASSUME DiskTyped, NEW r \in Records
  PROVE  r \in Record /\ r.session \in Sessions /\ r.digest \in Snapshots /\ r.seq \in Nat
<1>1. r \in Record
  BY DEF DiskTyped, Records
<1> QED BY <1>1 DEF Record

(* What durability asks of a step: the files' history grows, and what is   *)
(* new in the log, in place, or about to be acknowledged is part of it.    *)
LEMMA DurableKept ==
  ASSUME TypeInv, DurableInv,
         \A s \in Sessions : durable[s] \subseteq durable'[s],
         \A s \in Sessions : snap'[s] \in {snap[s], None} \cup durable'[s],
         \A r \in Records' : r \in Records \/ (r.phase = "committed" => r.digest \in durable'[r.session]),
         \A h \in Handles : pc'[h] = "ack" =>
            (pc[h] = "ack" /\ op'[h] = op[h]) \/ op'[h].digest \in durable'[op'[h].session],
         \A x \in stray' : x \in stray
            \/ (x.kind = "committed" => x.op.digest \in durable'[x.op.session])
  PROVE  DurableInv'
<1>1. CommittedWasDurable'
  <2> SUFFICES ASSUME NEW r \in Records', r.phase = "committed"
               PROVE  r.digest \in durable'[r.session]
    BY DEF CommittedWasDurable
  <2>1. CASE r \in Records
    BY <2>1, RecordFields DEF TypeInv, DurableInv, CommittedWasDurable
  <2> QED BY <2>1
<1>2. \A s \in Sessions : snap'[s] # None => snap'[s] \in durable'[s]
  BY DEF DurableInv
<1>3. ASSUME NEW h \in Handles, pc'[h] = "ack"
      PROVE  op'[h].digest \in durable'[op'[h].session]
  <2>1. CASE pc[h] = "ack" /\ op'[h] = op[h]
    <3>1. op[h] \in CommitOp
      BY <2>1, OpSubsets DEF TypeInv, PlacesTyped, OpAt
    <3> QED BY <2>1, <3>1, CommitFields DEF DurableInv
  <2> QED BY <1>3, <2>1
<1>4. ASSUME NEW x \in stray', x.kind = "committed"
      PROVE  x.op.digest \in durable'[x.op.session]
  <2>1. CASE x \in stray
    <3>1. x.op \in CommitOp
      BY <1>4, <2>1, OpSubsets DEF TypeInv, StrayTyped
    <3> QED BY <1>4, <2>1, <3>1, CommitFields DEF DurableInv
  <2> QED BY <1>4, <2>1
<1> QED BY <1>1, <1>2, <1>3, <1>4 DEF DurableInv

LEMMA DurableStep ==
  ASSUME TypeInv, DurableInv, [Next]_vars
  PROVE  DurableInv'
<1> USE DEF history, LogRead, Gone, Leave
<1>a. DiskTyped /\ PlacesTyped /\ LocalTyped /\ StrayTyped
  BY DEF TypeInv
<1>1. ASSUME NEW h \in Handles, Open(h) PROVE DurableInv'
  <2>1. /\ Records' = Records /\ durable' = durable /\ stray' \subseteq stray
        /\ \A s \in Sessions : snap'[s] \in {snap[s], None}
    BY <1>a, <1>1, KeptRecords DEF Open, DiskTyped
  <2>2. \A k \in Handles : pc'[k] = "ack" => pc[k] = "ack" /\ op'[k] = op[k]
    BY <1>a, <1>1 DEF Open, PlacesTyped, Goto
  <2> QED BY <2>1, <2>2, DurableKept
<1>2. ASSUME NEW h \in Handles, SealNext(h) PROVE DurableInv'
  <2>1. UNCHANGED <<snap, durable, stray, pc, op>>
    BY <1>2 DEF SealNext
  <2>2. PICK r \in open[h] : wal' = IF Matches(r) THEN Append(wal, Committed(r)) ELSE wal
    BY <1>2 DEF SealNext
  <2>3. r \in Record /\ Committed(r) \in Record
    BY <1>a, RecordTypes DEF LocalTyped
  <2>4. Committed(r).session = r.session /\ Committed(r).digest = r.digest /\ r.session \in Sessions
        /\ r.digest \in Snapshots
    BY <2>3 DEF Committed, Intent, Record
  <2>5. Matches(r) => r.digest \in durable[r.session]
    BY <2>4, StoreAssumption DEF Matches, DurableInv
  <2>6. Records' = Records \/ (Matches(r) /\ Records' = Records \cup {Committed(r)})
    BY <1>a, <2>2, <2>3, AppendedRecords, KeptRecords DEF DiskTyped
  <2>7. \A q \in Records' : q \in Records \/ q.digest \in durable[q.session]
    BY <2>4, <2>5, <2>6
  <2> QED BY <2>1, <2>7, DurableKept
<1>3. ASSUME NEW h \in Handles, Opened(h) PROVE DurableInv'
  <2>1. /\ Records' = Records /\ durable' = durable /\ stray' \subseteq stray
        /\ \A s \in Sessions : snap'[s] \in {snap[s], None}
    BY <1>a, <1>3, KeptRecords DEF Opened, DiskTyped
  <2>2. \A k \in Handles : pc'[k] = "ack" => pc[k] = "ack" /\ op'[k] = op[k]
    BY <1>a, <1>3 DEF Opened, PlacesTyped, Goto
  <2> QED BY <2>1, <2>2, DurableKept
<1>4. ASSUME NEW h \in Handles, Quarantine(h) PROVE DurableInv'
  <2>1. Records' = {} /\ UNCHANGED <<snap, durable, stray, op>>
    BY <1>4 DEF Quarantine, Records
  <2>2. \A k \in Handles : pc'[k] = "ack" => pc[k] = "ack"
    BY <1>a, <1>4 DEF Quarantine, PlacesTyped, Goto
  <2> QED BY <2>1, <2>2, DurableKept
<1>5. ASSUME NEW h \in Handles, OpenFails(h) PROVE DurableInv'
  <2>1. /\ Records' = Records /\ durable' = durable /\ stray' \subseteq stray
        /\ \A s \in Sessions : snap'[s] \in {snap[s], None}
    BY <1>a, <1>5, KeptRecords DEF OpenFails, DiskTyped
  <2>2. \A k \in Handles : pc'[k] = "ack" => pc[k] = "ack" /\ op'[k] = op[k]
    BY <1>a, <1>5 DEF OpenFails, PlacesTyped, Unlocked, Goto
  <2> QED BY <2>1, <2>2, DurableKept
<1>6. ASSUME NEW h \in Handles, BeginSave(h) PROVE DurableInv'
  <2>1. /\ Records' = Records /\ durable' = durable /\ stray' \subseteq stray
        /\ \A s \in Sessions : snap'[s] \in {snap[s], None}
    BY <1>a, <1>6, KeptRecords DEF BeginSave, DiskTyped, disk
  <2>2. \A k \in Handles : pc'[k] = "ack" => pc[k] = "ack" /\ op'[k] = op[k]
    BY <1>a, <1>6 DEF BeginSave, PlacesTyped, Goto, disk
  <2> QED BY <2>1, <2>2, DurableKept
<1>7. ASSUME NEW h \in Handles, BeginCas(h) PROVE DurableInv'
  <2>1. /\ Records' = Records /\ durable' = durable /\ stray' \subseteq stray
        /\ \A s \in Sessions : snap'[s] \in {snap[s], None}
    BY <1>a, <1>7, KeptRecords DEF BeginCas, DiskTyped, disk
  <2>2. \A k \in Handles : pc'[k] = "ack" => pc[k] = "ack" /\ op'[k] = op[k]
    BY <1>a, <1>7 DEF BeginCas, PlacesTyped, Goto, disk
  <2> QED BY <2>1, <2>2, DurableKept
<1>8. ASSUME NEW h \in Handles, Lock(h) PROVE DurableInv'
  <2>1. /\ Records' = Records /\ durable' = durable /\ stray' \subseteq stray
        /\ \A s \in Sessions : snap'[s] \in {snap[s], None}
    BY <1>a, <1>8, KeptRecords DEF Lock, DiskTyped
  <2>2. \A k \in Handles : pc'[k] = "ack" => pc[k] = "ack" /\ op'[k] = op[k]
    BY <1>a, <1>8 DEF Lock, PlacesTyped, Return, Goto
  <2> QED BY <2>1, <2>2, DurableKept
<1>9. ASSUME NEW h \in Handles, Mint(h) PROVE DurableInv'
  <2>1. /\ Records' = Records /\ durable' = durable /\ stray' \subseteq stray
        /\ \A s \in Sessions : snap'[s] \in {snap[s], None}
    BY <1>a, <1>9, KeptRecords DEF Mint, DiskTyped
  <2>2. \A k \in Handles : pc'[k] = "ack" => pc[k] = "ack" /\ op'[k] = op[k]
    BY <1>a, <1>9 DEF Mint, PlacesTyped, Return, Goto
  <2> QED BY <2>1, <2>2, DurableKept
<1>10. ASSUME NEW h \in Handles, AppendIntent(h) PROVE DurableInv'
  <2>1. UNCHANGED <<snap, durable, stray, op>>
    BY <1>10 DEF AppendIntent
  <2>2. \A k \in Handles : pc'[k] = "ack" => pc[k] = "ack"
    BY <1>a, <1>10 DEF AppendIntent, PlacesTyped, Goto
  <2>3. Records' = Records \cup {Intent(op[h])}
    <3>1. Intent(op[h]) \in Record
      BY <1>a, <1>10, RecordTypes DEF AppendIntent, PlacesTyped, OpAt
    <3> QED BY <1>a, <1>10, <3>1, AppendedRecords DEF AppendIntent, DiskTyped
  <2>4. Intent(op[h]).phase # "committed"
    BY DEF Intent
  <2>5. \A r \in Records' : r \in Records \/ r.phase # "committed"
    BY <2>3, <2>4
  <2> QED BY <2>1, <2>2, <2>5, DurableKept
<1>11. ASSUME NEW h \in Handles, Replace(h) PROVE DurableInv'
  <2>1. Records' = Records /\ UNCHANGED <<stray, op>>
    BY <1>11, KeptRecords DEF Replace
  <2>2. op[h].session \in Sessions
    BY <1>a, <1>11, OpSubsets, CommitFields DEF Replace, PlacesTyped, OpAt
  <2>3. /\ \A s \in Sessions : durable[s] \subseteq durable'[s]
        /\ op[h].digest \in durable'[op[h].session]
        /\ \A s \in Sessions : snap'[s] = snap[s] \/ snap'[s] \in durable'[s]
    BY <1>a, <1>11, <2>2 DEF Replace, PutInPlace, DiskTyped
  <2>4. \A k \in Handles : pc'[k] = "ack" => k = h \/ pc[k] = "ack"
    BY <1>a, <1>11 DEF Replace, PlacesTyped, Goto
  <2> QED BY <2>1, <2>3, <2>4, DurableKept
<1>12. ASSUME NEW h \in Handles, AppendCommitted(h) PROVE DurableInv'
  <2>1. UNCHANGED <<snap, durable, stray>>
    BY <1>12 DEF AppendCommitted
  <2>2. \A k \in Handles : pc'[k] = "ack" => pc[k] = "ack" /\ op'[k] = op[k]
    BY <1>a, <1>12 DEF AppendCommitted, PlacesTyped, Goto, Return
  <2>3. pc[h] \in {"intent", "ack"} => Intent(op[h]) \in Record /\ Committed(op[h]) \in Record
    BY <1>a, RecordTypes DEF PlacesTyped, OpAt
  <2>4. \/ Records' = Records
        \/ pc[h] = "intent" /\ Records' = Records \cup {Intent(op[h])}
        \/ pc[h] = "ack" /\ Records' = Records \cup {Committed(op[h])}
    BY <1>a, <1>12, <2>3, AppendedRecords, KeptRecords DEF AppendCommitted, DiskTyped
  <2>5. /\ Intent(op[h]).phase # "committed"
        /\ pc[h] = "ack" => op[h].digest \in durable[op[h].session]
        /\ Committed(op[h]).digest = op[h].digest /\ Committed(op[h]).session = op[h].session
    BY DEF Intent, Committed, DurableInv
  <2>6. \A r \in Records' : r \in Records \/ (r.phase = "committed" => r.digest \in durable[r.session])
    BY <2>4, <2>5
  <2> QED BY <2>1, <2>2, <2>6, DurableKept
<1>13. ASSUME NEW h \in Handles, Fail(h) PROVE DurableInv'
  <2>1. UNCHANGED <<snap, durable, stray>>
    BY <1>13 DEF Fail
  <2>2. \A k \in Handles : pc'[k] = "ack" => pc[k] = "ack" /\ op'[k] = op[k]
    BY <1>a, <1>13 DEF Fail, PlacesTyped, Goto, Return
  <2>3. pc[h] \in {"intent", "ack"} => Intent(op[h]) \in Record /\ Committed(op[h]) \in Record
    BY <1>a, RecordTypes DEF PlacesTyped, OpAt
  <2>4. \/ Records' = Records
        \/ pc[h] = "intent" /\ Records' = Records \cup {Intent(op[h])}
        \/ pc[h] = "ack" /\ Records' = Records \cup {Committed(op[h])}
    BY <1>a, <1>13, <2>3, AppendedRecords, KeptRecords DEF Fail, DiskTyped
  <2>5. /\ Intent(op[h]).phase # "committed"
        /\ pc[h] = "ack" => op[h].digest \in durable[op[h].session]
        /\ Committed(op[h]).digest = op[h].digest /\ Committed(op[h]).session = op[h].session
    BY DEF Intent, Committed, DurableInv
  <2>6. \A r \in Records' : r \in Records \/ (r.phase = "committed" => r.digest \in durable[r.session])
    BY <2>4, <2>5
  <2> QED BY <2>1, <2>2, <2>6, DurableKept
<1>14. ASSUME NEW h \in Handles, BeginAcquire(h) PROVE DurableInv'
  <2>1. /\ Records' = Records /\ durable' = durable /\ stray' \subseteq stray
        /\ \A s \in Sessions : snap'[s] \in {snap[s], None}
    BY <1>a, <1>14, KeptRecords DEF BeginAcquire, DiskTyped, disk
  <2>2. \A k \in Handles : pc'[k] = "ack" => pc[k] = "ack" /\ op'[k] = op[k]
    BY <1>a, <1>14 DEF BeginAcquire, PlacesTyped, Goto, disk
  <2> QED BY <2>1, <2>2, DurableKept
<1>15. ASSUME NEW h \in Handles, WriteLease(h) PROVE DurableInv'
  <2>1. /\ Records' = Records /\ durable' = durable /\ stray' \subseteq stray
        /\ \A s \in Sessions : snap'[s] \in {snap[s], None}
    BY <1>a, <1>15, KeptRecords DEF WriteLease, DiskTyped
  <2>2. \A k \in Handles : pc'[k] = "ack" => pc[k] = "ack" /\ op'[k] = op[k]
    BY <1>a, <1>15 DEF WriteLease, PlacesTyped, Goto, Return
  <2> QED BY <2>1, <2>2, DurableKept
<1>16. ASSUME NEW h \in Handles, Delete(h) PROVE DurableInv'
  <2>1. /\ Records' = Records /\ durable' = durable /\ stray' \subseteq stray
        /\ \A s \in Sessions : snap'[s] \in {snap[s], None}
    BY <1>a, <1>16, KeptRecords DEF Delete, DiskTyped
  <2>2. \A k \in Handles : pc'[k] = "ack" => pc[k] = "ack" /\ op'[k] = op[k]
    BY <1>a, <1>16 DEF Delete, PlacesTyped, local
  <2> QED BY <2>1, <2>2, DurableKept
<1>17. ASSUME NEW h \in Handles, Crash(h) PROVE DurableInv'
  <2>1. /\ Records' = Records /\ durable' = durable /\ stray' \subseteq stray
        /\ \A s \in Sessions : snap'[s] \in {snap[s], None}
    BY <1>a, <1>17, KeptRecords DEF Crash, DiskTyped
  <2>2. \A k \in Handles : pc'[k] = "ack" => pc[k] = "ack" /\ op'[k] = op[k]
    BY <1>a, <1>17 DEF Crash, PlacesTyped, Unlocked
  <2> QED BY <2>1, <2>2, DurableKept
<1>18. ASSUME NEW h \in Handles, Abandon(h) PROVE DurableInv'
  <2>1. Records' = Records /\ UNCHANGED <<snap, durable>>
    BY <1>18, KeptRecords DEF Abandon
  <2>2. \A k \in Handles : pc'[k] = "ack" => pc[k] = "ack" /\ op'[k] = op[k]
    BY <1>a, <1>18 DEF Abandon, PlacesTyped, Goto, Return
  <2>3. ASSUME NEW x \in stray', x \notin stray, x.kind = "committed"
        PROVE  x.op.digest \in durable[x.op.session]
    <3>1. PICK k \in Effects(pc[h]) : x = [by |-> h, kind |-> k, op |-> op[h]]
      BY <1>18, <2>3 DEF Abandon
    <3>2. pc[h] = "ack" /\ x.op = op[h]
      BY <2>3, <3>1, EffectsOf
    <3> QED BY <3>2 DEF DurableInv
  <2> QED BY <2>1, <2>2, <2>3, DurableKept
<1>19. ASSUME StrayEffect PROVE DurableInv'
  <2>1. PICK x \in stray : Finish(x)
    BY <1>19 DEF StrayEffect
  <2>2. IF x.kind = "lease" THEN x.op \in LeaseOp ELSE x.op \in MintedOp
    BY <1>a DEF StrayTyped
  <2>3. stray' \subseteq stray /\ UNCHANGED <<pc, op>>
    BY <2>1 DEF Finish, StrayAppend, StrayReplace, StrayLease, local
  <2>4. CASE x.kind \in {"intent", "committed"}
    <3>1. Intent(x.op) \in Record /\ Committed(x.op) \in Record
      BY <2>2, <2>4, RecordTypes
    <3>2. UNCHANGED <<snap, durable>> /\ \E r \in {Intent(x.op), Committed(x.op)} :
            (r = Committed(x.op) => x.kind = "committed") /\ Records' = Records \cup {r}
      BY <1>a, <2>1, <2>4, <3>1, AppendedRecords DEF Finish, StrayAppend, StrayReplace, StrayLease, DiskTyped, Intent, Committed
    <3>3. /\ Intent(x.op).phase # "committed"
          /\ x.kind = "committed" => x.op.digest \in durable[x.op.session]
          /\ Committed(x.op).digest = x.op.digest /\ Committed(x.op).session = x.op.session
      BY DEF Intent, Committed, DurableInv
    <3>4. \A r \in Records' : r \in Records \/ (r.phase = "committed" => r.digest \in durable[r.session])
      BY <3>2, <3>3
    <3> QED BY <2>3, <3>2, <3>4, DurableKept
  <2>5. CASE x.kind = "replace"
    <3>1. x.op.session \in Sessions
      BY <2>2, <2>5, OpSubsets, CommitFields
    <3>2. /\ \A s \in Sessions : durable[s] \subseteq durable'[s]
          /\ \A s \in Sessions : snap'[s] = snap[s] \/ snap'[s] \in durable'[s]
          /\ Records' = Records
      BY <1>a, <2>1, <2>5, <3>1, KeptRecords DEF Finish, StrayAppend, StrayReplace, StrayLease, PutInPlace, DiskTyped
    <3> QED BY <2>3, <3>2, DurableKept
  <2>6. CASE x.kind = "lease"
    <3>1. Records' = Records /\ UNCHANGED <<snap, durable>>
      BY <2>1, <2>6, KeptRecords DEF Finish, StrayAppend, StrayReplace, StrayLease
    <3> QED BY <2>3, <3>1, DurableKept
  <2> QED BY <2>1, <2>4, <2>5, <2>6 DEF Finish, StrayAppend, StrayReplace, StrayLease
<1>20. CASE UNCHANGED vars
  <2>1. UNCHANGED <<wal, snap, pc, op, stray, durable>>
    BY <1>20 DEF vars, disk, local
  <2> QED BY <2>1, KeptRecords, DurableKept
<1>21. ASSUME NEW h \in Handles, AbandonOpen(h) PROVE DurableInv'
  <2> DEFINE o(r) == [NoOp EXCEPT !.session = r.session, !.digest = r.digest, !.seq = r.seq]
  <2>1. PICK r \in open[h] :
          Matches(r) /\ Leave(h, {[by |-> h, kind |-> "committed", op |-> o(r)]})
    BY <1>21 DEF AbandonOpen
  <2>2. r \in Record /\ r.session \in Sessions /\ r.digest \in Snapshots
    BY <1>a DEF LocalTyped, Record
  <2>3. o(r).session = r.session /\ o(r).digest = r.digest
    BY DEF NoOp
  <2>4. r.digest \in durable[r.session]
    BY <2>1, <2>2, StoreAssumption DEF Matches, DurableInv
  <2>5. Records' = Records /\ UNCHANGED <<snap, durable>>
    BY <2>1, KeptRecords
  <2>6. \A k \in Handles : pc'[k] = "ack" => pc[k] = "ack" /\ op'[k] = op[k]
    BY <1>a, <1>21 DEF AbandonOpen, PlacesTyped, Goto
  <2>7. stray' = stray \cup {[by |-> h, kind |-> "committed", op |-> o(r)]}
    BY <2>1
  <2> HIDE DEF o
  <2>8. \A x \in stray' : x \in stray \/ x.op.digest \in durable[x.op.session]
    BY <2>3, <2>4, <2>7
  <2> QED BY <2>5, <2>6, <2>8, DurableKept
<1> QED
  BY <1>1, <1>2, <1>3, <1>4, <1>5, <1>6, <1>7, <1>8, <1>9, <1>10, <1>11, <1>12, <1>13, <1>14, <1>15, <1>16, <1>17, <1>18, <1>19, <1>20,
     <1>21
  DEF Next, Opening, Committing

-----------------------------------------------------------------------------
(* The file lock. *)

LEMMA LockKept ==
  ASSUME LockInv, PlacesTyped, NEW h \in Handles, NEW at,
         pc' = [pc EXCEPT ![h] = at],
         at \in Locked => flock' = h,
         flock' = flock \/ flock = None \/ flock = h
  PROVE  LockInv'
<1> SUFFICES ASSUME NEW k \in Handles
             PROVE  pc'[k] \in Locked => flock' = k
  BY DEF LockInv
<1>1. CASE k = h
  BY <1>1 DEF PlacesTyped
<1>2. CASE k # h
  BY <1>2, StoreAssumption DEF PlacesTyped, LockInv
<1> QED BY <1>1, <1>2

LEMMA LockStep ==
  ASSUME TypeInv, LockInv, [Next]_vars
  PROVE  LockInv'
<1> USE DEF Leave
<1>a. PlacesTyped
  BY DEF TypeInv
<1>b. \A h \in Handles : pc[h] \in Locked => flock = h
  BY DEF LockInv
<1>1. ASSUME NEW h \in Handles, Open(h) PROVE LockInv'
  <2>1. PICK at \in {"recovering", "conflict"} :
          pc' = [pc EXCEPT ![h] = at] /\ (at = "recovering" => flock' = h)
    BY <1>1 DEF Open, Goto
  <2>2. flock' = flock \/ flock = None \/ flock = h
    BY <1>1 DEF Open
  <2> QED BY <1>a, <2>1, <2>2, LockKept DEF Locked
<1>2. ASSUME NEW h \in Handles, SealNext(h) PROVE LockInv'
  BY <1>2 DEF SealNext, local, LockInv
<1>3. ASSUME NEW h \in Handles, Opened(h) PROVE LockInv'
  <2>1. pc' = [pc EXCEPT ![h] = "ready"]
    BY <1>a, <1>3 DEF Opened, Goto
  <2>2. ("ready" \in Locked => flock' = h) /\ (flock' = flock \/ flock = None \/ flock = h)
    BY <1>b, <1>3 DEF Opened, Goto, Locked
  <2> QED BY <1>a, <2>1, <2>2, LockKept
<1>4. ASSUME NEW h \in Handles, Quarantine(h) PROVE LockInv'
  <2>1. pc' = [pc EXCEPT ![h] = "closed"] /\ flock' = flock
    BY <1>4 DEF Quarantine, Goto
  <2> QED BY <1>a, <2>1, LockKept DEF Locked
<1>5. ASSUME NEW h \in Handles, OpenFails(h) PROVE LockInv'
  <2>1. pc' = [pc EXCEPT ![h] = "closed"]
    BY <1>a, <1>5 DEF OpenFails, Unlocked, Goto
  <2>2. ("closed" \in Locked => flock' = h) /\ (flock' = flock \/ flock = None \/ flock = h)
    BY <1>b, <1>5 DEF OpenFails, Unlocked, Goto, Locked
  <2> QED BY <1>a, <2>1, <2>2, LockKept
<1>6. ASSUME NEW h \in Handles, BeginSave(h) PROVE LockInv'
  <2>1. pc' = [pc EXCEPT ![h] = "locking"]
    BY <1>a, <1>6 DEF BeginSave, Goto, disk
  <2>2. ("locking" \in Locked => flock' = h) /\ (flock' = flock \/ flock = None \/ flock = h)
    BY <1>b, <1>6 DEF BeginSave, Goto, disk, Locked
  <2> QED BY <1>a, <2>1, <2>2, LockKept
<1>7. ASSUME NEW h \in Handles, BeginCas(h) PROVE LockInv'
  <2>1. pc' = [pc EXCEPT ![h] = "locking"]
    BY <1>a, <1>7 DEF BeginCas, Goto, disk
  <2>2. ("locking" \in Locked => flock' = h) /\ (flock' = flock \/ flock = None \/ flock = h)
    BY <1>b, <1>7 DEF BeginCas, Goto, disk, Locked
  <2> QED BY <1>a, <2>1, <2>2, LockKept
<1>8. ASSUME NEW h \in Handles, Lock(h) PROVE LockInv'
  <2>1. PICK at \in {"minting", "ready"} : pc' = [pc EXCEPT ![h] = at] /\ (at = "minting" => flock' = h)
    BY <1>b, <1>8 DEF Lock, Return, Goto, Locked
  <2>2. flock' = flock \/ flock = None \/ flock = h
    BY <1>a, <1>8 DEF Lock, Return, Goto
  <2> QED BY <1>a, <2>1, <2>2, LockKept DEF Locked
<1>9. ASSUME NEW h \in Handles, Mint(h) PROVE LockInv'
  <2>1. PICK at \in {"intent", "ready"} : pc' = [pc EXCEPT ![h] = at] /\ (at = "intent" => flock' = h)
    BY <1>b, <1>9 DEF Mint, Return, Goto, Unlocked, Locked
  <2>2. flock' = flock \/ flock = None \/ flock = h
    BY <1>a, <1>9 DEF Mint, Return, Goto, Unlocked
  <2> QED BY <1>a, <2>1, <2>2, LockKept DEF Locked
<1>10. ASSUME NEW h \in Handles, AppendIntent(h) PROVE LockInv'
  <2>1. pc' = [pc EXCEPT ![h] = "replace"]
    BY <1>a, <1>10 DEF AppendIntent, Goto
  <2>2. ("replace" \in Locked => flock' = h) /\ (flock' = flock \/ flock = None \/ flock = h)
    BY <1>b, <1>10 DEF AppendIntent, Goto, Locked
  <2> QED BY <1>a, <2>1, <2>2, LockKept
<1>11. ASSUME NEW h \in Handles, Replace(h) PROVE LockInv'
  <2>1. pc' = [pc EXCEPT ![h] = "ack"]
    BY <1>a, <1>11 DEF Replace, Goto
  <2>2. ("ack" \in Locked => flock' = h) /\ (flock' = flock \/ flock = None \/ flock = h)
    BY <1>b, <1>11 DEF Replace, Goto, Locked
  <2> QED BY <1>a, <2>1, <2>2, LockKept
<1>12. ASSUME NEW h \in Handles, AppendCommitted(h) PROVE LockInv'
  <2>1. pc' = [pc EXCEPT ![h] = "ready"]
    BY <1>a, <1>12 DEF AppendCommitted, Goto, Return, Unlocked
  <2>2. ("ready" \in Locked => flock' = h) /\ (flock' = flock \/ flock = None \/ flock = h)
    BY <1>b, <1>12 DEF AppendCommitted, Goto, Return, Unlocked, Locked
  <2> QED BY <1>a, <2>1, <2>2, LockKept
<1>13. ASSUME NEW h \in Handles, Fail(h) PROVE LockInv'
  <2>1. pc' = [pc EXCEPT ![h] = "ready"]
    BY <1>a, <1>13 DEF Fail, Goto, Return, Unlocked
  <2>2. ("ready" \in Locked => flock' = h) /\ (flock' = flock \/ flock = None \/ flock = h)
    BY <1>b, <1>13 DEF Fail, Goto, Return, Unlocked, Locked
  <2> QED BY <1>a, <2>1, <2>2, LockKept
<1>14. ASSUME NEW h \in Handles, BeginAcquire(h) PROVE LockInv'
  <2>1. pc' = [pc EXCEPT ![h] = "leasing"]
    BY <1>a, <1>14 DEF BeginAcquire, Goto, disk
  <2>2. ("leasing" \in Locked => flock' = h) /\ (flock' = flock \/ flock = None \/ flock = h)
    BY <1>b, <1>14 DEF BeginAcquire, Goto, disk, Locked
  <2> QED BY <1>a, <2>1, <2>2, LockKept
<1>15. ASSUME NEW h \in Handles, WriteLease(h) PROVE LockInv'
  <2>1. pc' = [pc EXCEPT ![h] = "ready"]
    BY <1>a, <1>15 DEF WriteLease, Goto, Return
  <2>2. ("ready" \in Locked => flock' = h) /\ (flock' = flock \/ flock = None \/ flock = h)
    BY <1>b, <1>15 DEF WriteLease, Goto, Return, Locked
  <2> QED BY <1>a, <2>1, <2>2, LockKept
<1>16. ASSUME NEW h \in Handles, Delete(h) PROVE LockInv'
  BY <1>16 DEF Delete, local, LockInv
<1>17. ASSUME NEW h \in Handles, Crash(h) PROVE LockInv'
  <2>1. pc' = [pc EXCEPT ![h] = "closed"]
    BY <1>a, <1>17 DEF Crash, Unlocked
  <2>2. ("closed" \in Locked => flock' = h) /\ (flock' = flock \/ flock = None \/ flock = h)
    BY <1>b, <1>17 DEF Crash, Unlocked, Locked
  <2> QED BY <1>a, <2>1, <2>2, LockKept
<1>18. ASSUME NEW h \in Handles, Abandon(h) PROVE LockInv'
  <2>1. pc' = [pc EXCEPT ![h] = "ready"]
    BY <1>18 DEF Abandon, Return, Goto
  <2>2. flock' = flock \/ flock = None \/ flock = h
    BY <1>18 DEF Abandon, Unlocked
  <2> QED BY <1>a, <2>1, <2>2, LockKept DEF Locked
<1>19. ASSUME StrayEffect PROVE LockInv'
  <2>1. UNCHANGED <<flock, pc>>
    BY <1>19 DEF StrayEffect, Finish, local
  <2> QED BY <2>1 DEF LockInv
<1>20. CASE UNCHANGED vars
  <2>1. UNCHANGED <<flock, pc>>
    BY <1>20 DEF vars, disk, local
  <2> QED BY <2>1 DEF LockInv
<1>21. ASSUME NEW h \in Handles, AbandonOpen(h) PROVE LockInv'
  <2>1. pc' = [pc EXCEPT ![h] = "closed"]
    BY <1>21 DEF AbandonOpen, Goto
  <2>2. flock' = flock \/ flock = None \/ flock = h
    BY <1>21 DEF AbandonOpen, Unlocked
  <2> QED BY <1>a, <2>1, <2>2, LockKept DEF Locked
<1> QED
  BY <1>1, <1>2, <1>3, <1>4, <1>5, <1>6, <1>7, <1>8, <1>9, <1>10, <1>11, <1>12, <1>13, <1>14, <1>15, <1>16, <1>17, <1>18, <1>19, <1>20,
     <1>21
  DEF Next, Opening, Committing

-----------------------------------------------------------------------------
(* The log. *)

(* Appending a record leaves a log that loads, if the record closes the    *)
(* only record with its sequence or has a sequence of its own.             *)
LEMMA AppendLoads ==
  ASSUME wal \in Seq(Record), Loadable(wal), NEW r \in Record, wal' = Append(wal, r),
         \A q \in Records : q.seq = r.seq =>
             q.phase = "intent" /\ r.phase = "committed" /\ q.session = r.session
  PROVE  Loadable(wal')
<1> SUFFICES ASSUME NEW i \in 1..Len(wal'), NEW j \in 1..Len(wal'),
                    i < j, wal'[i].seq = wal'[j].seq
             PROVE  /\ wal'[i].phase = "intent" /\ wal'[j].phase = "committed"
                    /\ wal'[i].session = wal'[j].session
  BY DEF Loadable
<1>1. i \in 1..Len(wal) /\ wal'[i] = wal[i]
  OBVIOUS
<1>2. CASE j \in 1..Len(wal)
  <2>1. wal'[j] = wal[j]
    BY <1>2
  <2> QED BY <1>1, <1>2, <2>1 DEF Loadable
<1>3. CASE j \notin 1..Len(wal)
  <2>1. wal'[j] = r
    BY <1>3
  <2>2. wal[i] \in Records
    BY <1>1 DEF Records
  <2> QED BY <1>1, <2>1, <2>2
<1> QED BY <1>2, <1>3

(* An open intent is the only record with its sequence. *)
LEMMA OpenIntentAlone ==
  ASSUME wal \in Seq(Record), Loadable(wal), NEW r \in OpenIntents(wal)
  PROVE  /\ r \in Records /\ r.phase = "intent"
         /\ \A q \in Records : q.seq = r.seq => q = r
<1>1. PICK k \in 1..Len(wal) :
        /\ r = wal[k] /\ wal[k].phase = "intent"
        /\ \A j \in k..Len(wal) : ~(wal[j].phase = "committed" /\ wal[j].seq = wal[k].seq)
  BY DEF OpenIntents
<1>2. ASSUME NEW m \in 1..Len(wal), wal[m].seq = r.seq PROVE wal[m] = r
  <2>1. CASE m < k
    BY <1>1, <1>2, <2>1 DEF Loadable
  <2>2. CASE k < m
    <3>1. wal[m].phase = "committed" /\ m \in k..Len(wal)
      BY <1>1, <1>2, <2>2 DEF Loadable
    <3> QED BY <1>1, <1>2, <3>1
  <2> QED BY <1>1, <2>1, <2>2
<1> QED BY <1>1, <1>2 DEF Records

(* While a handle writes, no append of a dropped call is still to come to  *)
(* a log that nobody has read.                                             *)
LEMMA NoneFresh ==
  ASSUME LogSound, NEW h \in Handles, pc[h] \in Writing
  PROVE  fresh = {}
BY DEF LogSound, FreshAt

(* A step of h that leaves the log alone. *)
LEMMA LogKept ==
  ASSUME LogSound, wal' = wal, NEW h \in Handles,
         \A k \in Handles \ {h} : pc'[k] = pc[k] /\ op'[k] = op[k] /\ open'[k] = open[k],
         LogAt(h)', pc'[h] # "conflict",
         fresh' \subseteq fresh, fresh' = {} \/ pc'[h] \notin Writing
  PROVE  LogSound'
<1>1. Loadable(wal') /\ Records' = Records
  BY KeptRecords DEF LogSound
<1>2. ASSUME NEW k \in Handles, k # h PROVE LogAt(k)' /\ pc'[k] # "conflict"
  <2>1. /\ LogAt(k) /\ pc[k] # "conflict"
        /\ pc'[k] = pc[k] /\ op'[k] = op[k] /\ open'[k] = open[k]
    BY <1>2 DEF LogSound
  <2> QED BY <1>1, <2>1 DEF LogAt, Intent
<1>3. ASSUME NEW x \in fresh' PROVE FreshAt(x)' /\ x.kind \in {"intent", "committed"}
  <2>1. FreshAt(x) /\ x.kind \in {"intent", "committed"}
    BY <1>3 DEF LogSound
  <2>2. \A k \in Handles : pc'[k] \notin Writing
    BY <1>3, <2>1 DEF FreshAt
  <2> QED BY <1>1, <2>1, <2>2 DEF FreshAt
<1>4. \A x, y \in fresh' : x = y
  BY DEF LogSound
<1> QED BY <1>1, <1>2, <1>3, <1>4 DEF LogSound

(* A step that changes nothing the log depends on. *)
LEMMA LogSame ==
  ASSUME LogSound, UNCHANGED <<wal, pc, op, open>>, fresh' \subseteq fresh
  PROVE  LogSound'
<1>1. Loadable(wal') /\ Records' = Records
  BY KeptRecords DEF LogSound
<1>2. ASSUME NEW k \in Handles PROVE LogAt(k)' /\ pc'[k] # "conflict"
  BY <1>1 DEF LogAt, Intent, LogSound
<1>3. ASSUME NEW x \in fresh' PROVE FreshAt(x)' /\ x.kind \in {"intent", "committed"}
  BY <1>1, <1>3 DEF FreshAt, LogSound
<1>4. \A x, y \in fresh' : x = y
  BY DEF LogSound
<1> QED BY <1>1, <1>2, <1>3, <1>4 DEF LogSound

(* A step of h that writes to the log, under the lock. *)
LEMMA LogGrown ==
  ASSUME LockInv, LogSound, NEW h \in Handles, pc[h] \in Writing,
         \A k \in Handles \ {h} : pc'[k] = pc[k],
         Loadable(wal'), LogAt(h)', pc'[h] # "conflict", fresh' = fresh
  PROVE  LogSound'
<1>1. ASSUME NEW k \in Handles, k # h PROVE LogAt(k)' /\ pc'[k] # "conflict"
  <2>1. pc'[k] \notin Writing
    BY <1>1 DEF LockInv, Locked, Writing
  <2>2. pc'[k] # "conflict"
    BY <1>1 DEF LogSound
  <2> QED BY <2>1, <2>2 DEF LogAt, Writing
<1>2. fresh' = {}
  BY NoneFresh
<1> QED BY <1>1, <1>2 DEF LogSound

(* h drops a call that was writing the record of x to the log. *)
LEMMA LogLeft ==
  ASSUME LockInv, LogSound, NEW h \in Handles, pc[h] \in Writing, NEW x,
         wal' = wal, fresh' = fresh \cup {x}, x.kind \in {"intent", "committed"},
         \A k \in Handles \ {h} : pc'[k] = pc[k],
         pc'[h] \in {"ready", "closed"},
         x.kind = "intent" => \A r \in Records : r.seq < x.op.seq,
         x.kind # "intent" => /\ Intent(x.op) \in Records
                              /\ \A r \in Records : r.seq = x.op.seq => r = Intent(x.op)
  PROVE  LogSound'
<1>1. Loadable(wal') /\ Records' = Records /\ fresh' = {x}
  BY KeptRecords, NoneFresh DEF LogSound
<1>2. ASSUME NEW k \in Handles PROVE pc'[k] \notin Writing /\ pc'[k] # "conflict"
  <2>1. CASE k = h
    BY <2>1 DEF Writing
  <2>2. CASE k # h
    BY <2>2 DEF LockInv, Locked, Writing, LogSound
  <2> QED BY <2>1, <2>2
<1>3. \A k \in Handles : LogAt(k)'
  BY <1>2 DEF LogAt, Writing
<1>4. FreshAt(x)'
  BY <1>1, <1>2 DEF FreshAt
<1>5. \A y \in fresh' : y = x
  BY <1>1
<1>6. \A y \in fresh' : FreshAt(y)' /\ y.kind \in {"intent", "committed"}
  BY <1>4, <1>5
<1> QED BY <1>1, <1>2, <1>3, <1>5, <1>6 DEF LogSound

(* Once the log has been overtaken it stays so. *)
LEMMA OvertakenStays ==
  ASSUME overtaken, [Next]_vars
  PROVE  overtaken'
<1>1. ASSUME NEW h \in Handles,
             \/ Opening(h) \/ BeginSave(h) \/ BeginCas(h) \/ Committing(h) \/ Fail(h)
             \/ BeginAcquire(h) \/ WriteLease(h) \/ Delete(h) \/ Crash(h) \/ Abandon(h)
             \/ AbandonOpen(h)
      PROVE  overtaken' = overtaken
  BY <1>1 DEF Opening, Open, SealNext, Opened, Quarantine, OpenFails, BeginSave, BeginCas,
              Committing, Lock, Mint, AppendIntent, Replace, AppendCommitted, Fail, BeginAcquire,
              WriteLease, Delete, Crash, Abandon, AbandonOpen, LogRead, Leave, history
<1>2. StrayEffect => overtaken'
  BY DEF StrayEffect, Finish, StrayAppend, StrayReplace, StrayLease
<1>3. UNCHANGED vars => overtaken' = overtaken
  BY DEF vars, history
<1> QED BY <1>1, <1>2, <1>3 DEF Next

LEMMA LogStep ==
  ASSUME TypeInv, LockInv, LogSound, [Next]_vars
  PROVE  LogInv'
<1> USE DEF history, LogRead, Gone, Leave
<1>a. DiskTyped /\ PlacesTyped /\ LocalTyped /\ StrayTyped /\ HistoryTyped
  BY DEF TypeInv
<1>b. Loadable(wal) /\ \A h \in Handles : LogAt(h) /\ pc[h] # "conflict"
  BY DEF LogSound
<1>c. LogSound' => LogInv'
  BY DEF LogInv
<1>1. ASSUME NEW h \in Handles, Open(h) PROVE LogSound'
  <2>f. fresh' = {}
    BY <1>1 DEF Open
  <2>1. \A k \in Handles \ {h} : pc'[k] = pc[k] /\ op'[k] = op[k] /\ open'[k] = open[k]
    BY <1>a, <1>1 DEF Open, Goto, PlacesTyped, LocalTyped
  <2>2. wal' = wal /\ pc'[h] = "recovering" /\ open'[h] = OpenIntents(wal)
    BY <1>a, <1>b, <1>1 DEF Open, Goto, PlacesTyped, LocalTyped
  <2>3. LogAt(h)'
    BY <1>a, <1>b, <2>2, OpenIntentAlone, KeptRecords DEF LogAt, DiskTyped
  <2> QED BY <2>1, <2>2, <2>3, <2>f, LogKept
<1>2. ASSUME NEW h \in Handles, SealNext(h) PROVE LogSound'
  <2>f. fresh' = fresh
    BY <1>2 DEF SealNext
  <2>g. pc[h] \in Writing /\ fresh' = {}
    BY <1>2, <2>f, NoneFresh DEF SealNext, Writing
  <2>1. \A k \in Handles \ {h} : pc'[k] = pc[k] /\ op'[k] = op[k] /\ open'[k] = open[k]
    BY <1>a, <1>2 DEF SealNext, PlacesTyped, LocalTyped
  <2>2. pc[h] = "recovering" /\ pc' = pc
    BY <1>2 DEF SealNext
  <2>3. PICK r \in open[h] :
          /\ open' = [open EXCEPT ![h] = @ \ {r}]
          /\ wal' = IF Matches(r) THEN Append(wal, Committed(r)) ELSE wal
    BY <1>2 DEF SealNext
  <2>4. /\ r \in Records /\ r.phase = "intent" /\ \A q \in Records : q.seq = r.seq => q = r
        /\ \A p \in open[h] : p \in Records /\ p.phase = "intent"
                             /\ \A q \in Records : q.seq = p.seq => q = p
    BY <1>b, <2>2 DEF LogAt
  <2>5. open'[h] = open[h] \ {r}
    BY <1>a, <2>3 DEF LocalTyped
  <2>6. CASE ~Matches(r)
    <3>1. wal' = wal
      BY <2>3, <2>6
    <3>2. LogAt(h)'
      BY <2>2, <2>4, <2>5, <3>1, KeptRecords DEF LogAt
    <3> QED BY <2>1, <2>2, <2>f, <2>g, <3>1, <3>2, LogKept DEF Writing
  <2>7. CASE Matches(r)
    <3>1. wal' = Append(wal, Committed(r)) /\ Committed(r) \in Record
      BY <1>a, <2>3, <2>7, RecordTypes DEF LocalTyped
    <3>2. /\ Committed(r).seq = r.seq /\ Committed(r).session = r.session
          /\ Committed(r).phase = "committed"
      BY DEF Committed, Intent
    <3>3. Loadable(wal')
      BY <1>a, <1>b, <2>4, <3>1, <3>2, AppendLoads DEF DiskTyped
    <3>4. Records' = Records \cup {Committed(r)}
      BY <1>a, <3>1, AppendedRecords DEF DiskTyped
    <3>5. LogAt(h)'
      BY <2>2, <2>4, <2>5, <3>2, <3>4 DEF LogAt
    <3> QED BY <2>1, <2>2, <2>f, <2>g, <3>3, <3>5, LogGrown DEF Writing
  <2> QED BY <2>6, <2>7
<1>3. ASSUME NEW h \in Handles, Opened(h) PROVE LogSound'
  <2>f. fresh' = fresh
    BY <1>3 DEF Opened
  <2>1. \A k \in Handles \ {h} : pc'[k] = pc[k] /\ op'[k] = op[k] /\ open'[k] = open[k]
    BY <1>a, <1>3 DEF Opened, Goto, PlacesTyped, LocalTyped
  <2>2. wal' = wal /\ pc'[h] \in {"ready", "closed", "locking", "minting", "leasing"}
    BY <1>a, <1>3 DEF Opened, Goto, PlacesTyped
  <2> QED BY <2>1, <2>2, <2>f, LogKept DEF LogAt, Writing
<1>4. ASSUME NEW h \in Handles, Quarantine(h) PROVE LogSound'
  BY <1>4, <1>b DEF Quarantine
<1>5. ASSUME NEW h \in Handles, OpenFails(h) PROVE LogSound'
  <2>f. fresh' = fresh
    BY <1>5 DEF OpenFails
  <2>1. \A k \in Handles \ {h} : pc'[k] = pc[k] /\ op'[k] = op[k] /\ open'[k] = open[k]
    BY <1>a, <1>5 DEF OpenFails, Goto, PlacesTyped, LocalTyped
  <2>2. wal' = wal /\ pc'[h] \in {"ready", "closed", "locking", "minting", "leasing"}
    BY <1>a, <1>5 DEF OpenFails, Goto, PlacesTyped
  <2> QED BY <2>1, <2>2, <2>f, LogKept DEF LogAt, Writing
<1>6. ASSUME NEW h \in Handles, BeginSave(h) PROVE LogSound'
  <2>f. fresh' = fresh
    BY <1>6 DEF BeginSave
  <2>1. \A k \in Handles \ {h} : pc'[k] = pc[k] /\ op'[k] = op[k] /\ open'[k] = open[k]
    BY <1>a, <1>6 DEF BeginSave, Goto, disk, PlacesTyped, LocalTyped
  <2>2. wal' = wal /\ pc'[h] \in {"ready", "closed", "locking", "minting", "leasing"}
    BY <1>a, <1>6 DEF BeginSave, Goto, disk, PlacesTyped
  <2> QED BY <2>1, <2>2, <2>f, LogKept DEF LogAt, Writing
<1>7. ASSUME NEW h \in Handles, BeginCas(h) PROVE LogSound'
  <2>f. fresh' = fresh
    BY <1>7 DEF BeginCas
  <2>1. \A k \in Handles \ {h} : pc'[k] = pc[k] /\ op'[k] = op[k] /\ open'[k] = open[k]
    BY <1>a, <1>7 DEF BeginCas, Goto, disk, PlacesTyped, LocalTyped
  <2>2. wal' = wal /\ pc'[h] \in {"ready", "closed", "locking", "minting", "leasing"}
    BY <1>a, <1>7 DEF BeginCas, Goto, disk, PlacesTyped
  <2> QED BY <2>1, <2>2, <2>f, LogKept DEF LogAt, Writing
<1>8. ASSUME NEW h \in Handles, Lock(h) PROVE LogSound'
  <2>f. fresh' = fresh
    BY <1>8 DEF Lock
  <2>1. \A k \in Handles \ {h} : pc'[k] = pc[k] /\ op'[k] = op[k] /\ open'[k] = open[k]
    BY <1>a, <1>8 DEF Lock, Return, Goto, PlacesTyped, LocalTyped
  <2>2. wal' = wal /\ pc'[h] \in {"ready", "closed", "locking", "minting", "leasing"}
    BY <1>a, <1>8 DEF Lock, Return, Goto, PlacesTyped
  <2> QED BY <2>1, <2>2, <2>f, LogKept DEF LogAt, Writing
<1>9. ASSUME NEW h \in Handles, Mint(h) PROVE LogSound'
  <2>f. fresh' = {}
    BY <1>9 DEF Mint
  <2>1. \A k \in Handles \ {h} : pc'[k] = pc[k] /\ op'[k] = op[k] /\ open'[k] = open[k]
    BY <1>a, <1>9 DEF Mint, Return, Goto, PlacesTyped, LocalTyped
  <2>2. wal' = wal /\ pc'[h] = "intent" /\ op'[h].seq = NextSequence(wal)
    BY <1>a, <1>b, <1>9 DEF Mint, Goto, PlacesTyped, Op
  <2>3. \A r \in Records : r.seq < NextSequence(wal)
    BY <1>a, NextSequenceAbove DEF Records, DiskTyped
  <2>4. LogAt(h)'
    BY <2>2, <2>3, KeptRecords DEF LogAt
  <2> QED BY <2>1, <2>2, <2>4, <2>f, LogKept
<1>10. ASSUME NEW h \in Handles, AppendIntent(h) PROVE LogSound'
  <2>f. fresh' = fresh
    BY <1>10 DEF AppendIntent
  <2>g. pc[h] \in Writing /\ fresh' = {}
    BY <1>10, <2>f, NoneFresh DEF AppendIntent, Writing
  <2>1. \A k \in Handles \ {h} : pc'[k] = pc[k] /\ op'[k] = op[k] /\ open'[k] = open[k]
    BY <1>a, <1>10 DEF AppendIntent, Goto, PlacesTyped, LocalTyped
  <2>2. /\ pc[h] = "intent" /\ pc'[h] = "replace" /\ op' = op
        /\ wal' = Append(wal, Intent(op[h])) /\ Intent(op[h]) \in Record
    BY <1>a, <1>10, RecordTypes DEF AppendIntent, Goto, PlacesTyped, OpAt
  <2>3. Intent(op[h]).seq = op[h].seq /\ \A r \in Records : r.seq < op[h].seq /\ r.seq \in Nat
    BY <1>a, <1>b, <2>2, RecordFields DEF LogAt, Intent
  <2>4. \A r \in Records : r.seq # op[h].seq
    BY <1>a, <2>3, OpSeqs DEF PlacesTyped
  <2>5. Records' = Records \cup {Intent(op[h])}
    BY <1>a, <2>2, AppendedRecords DEF DiskTyped
  <2>6. Loadable(wal')
    BY <1>a, <1>b, <2>2, <2>3, <2>4, AppendLoads DEF DiskTyped
  <2>7. LogAt(h)'
    BY <2>2, <2>4, <2>5 DEF LogAt, Intent
  <2> QED BY <2>1, <2>2, <2>6, <2>7, <2>f, <2>g, LogGrown
<1>11. ASSUME NEW h \in Handles, Replace(h) PROVE LogSound'
  <2>f. fresh' = fresh
    BY <1>11 DEF Replace
  <2>g. pc[h] \in Writing /\ fresh' = {}
    BY <1>11, <2>f, NoneFresh DEF Replace, Writing
  <2>1. \A k \in Handles \ {h} : pc'[k] = pc[k] /\ op'[k] = op[k] /\ open'[k] = open[k]
    BY <1>a, <1>11 DEF Replace, Goto, PlacesTyped, LocalTyped
  <2>2. wal' = wal /\ pc[h] = "replace" /\ pc'[h] = "ack" /\ op' = op
    BY <1>a, <1>11 DEF Replace, Goto, PlacesTyped
  <2>3. LogAt(h)'
    BY <1>b, <2>2, KeptRecords DEF LogAt, Intent
  <2> QED BY <2>1, <2>2, <2>3, <2>f, <2>g, LogKept
<1>12. ASSUME NEW h \in Handles, AppendCommitted(h) PROVE LogSound'
  <2>f. fresh' = fresh
    BY <1>12 DEF AppendCommitted
  <2>g. pc[h] \in Writing /\ fresh' = {}
    BY <1>12, <2>f, NoneFresh DEF AppendCommitted, Writing
  <2>1. \A k \in Handles \ {h} : pc'[k] = pc[k] /\ op'[k] = op[k] /\ open'[k] = open[k]
    BY <1>a, <1>12 DEF AppendCommitted, Goto, Return, PlacesTyped, LocalTyped
  <2>2. /\ pc[h] = "ack" /\ pc'[h] = "ready"
        /\ wal' = Append(wal, Committed(op[h])) /\ Committed(op[h]) \in Record
    BY <1>a, <1>12, RecordTypes DEF AppendCommitted, Return, Goto, PlacesTyped, OpAt
  <2>3. Loadable(wal')
    BY <1>a, <1>b, <2>2, AppendLoads DEF DiskTyped, LogAt, Intent, Committed
  <2> QED BY <2>1, <2>2, <2>3, <2>f, <2>g, LogGrown DEF LogAt
<1>13. ASSUME NEW h \in Handles, Fail(h) PROVE LogSound'
  <2>f. fresh' = fresh
    BY <1>13 DEF Fail
  <2>1. \A k \in Handles \ {h} : pc'[k] = pc[k] /\ op'[k] = op[k] /\ open'[k] = open[k]
    BY <1>a, <1>13 DEF Fail, Goto, Return, PlacesTyped, LocalTyped
  <2>2. pc'[h] = "ready"
    BY <1>a, <1>13 DEF Fail, Return, Goto, PlacesTyped
  <2>3. CASE wal' = wal
    BY <2>1, <2>2, <2>3, <2>f, LogKept DEF LogAt, Writing
  <2>4. CASE pc[h] = "intent" /\ wal' = Append(wal, Intent(op[h]))
    <3>1. Intent(op[h]) \in Record
      BY <1>a, <2>4, RecordTypes DEF PlacesTyped, OpAt
    <3>2. Intent(op[h]).seq = op[h].seq /\ \A r \in Records : r.seq < op[h].seq /\ r.seq \in Nat
      BY <1>a, <1>b, <2>4, RecordFields DEF LogAt, Intent
    <3>3. \A r \in Records : r.seq # op[h].seq
      BY <1>a, <3>2, OpSeqs DEF PlacesTyped
    <3>4. Loadable(wal')
      BY <1>a, <1>b, <2>4, <3>1, <3>2, <3>3, AppendLoads DEF DiskTyped
    <3> QED BY <2>1, <2>2, <2>4, <3>4, <2>f, LogGrown DEF Writing, LogAt
  <2>5. CASE pc[h] = "ack" /\ wal' = Append(wal, Committed(op[h]))
    <3>1. Committed(op[h]) \in Record
      BY <1>a, <2>5, RecordTypes DEF PlacesTyped, OpAt
    <3>2. Loadable(wal')
      BY <1>a, <1>b, <2>5, <3>1, AppendLoads DEF DiskTyped, LogAt, Intent, Committed
    <3> QED BY <2>1, <2>2, <2>5, <3>2, <2>f, LogGrown DEF Writing, LogAt
  <2> QED BY <1>13, <2>3, <2>4, <2>5 DEF Fail
<1>14. ASSUME NEW h \in Handles, BeginAcquire(h) PROVE LogSound'
  <2>f. fresh' = fresh
    BY <1>14 DEF BeginAcquire
  <2>1. \A k \in Handles \ {h} : pc'[k] = pc[k] /\ op'[k] = op[k] /\ open'[k] = open[k]
    BY <1>a, <1>14 DEF BeginAcquire, Goto, disk, PlacesTyped, LocalTyped
  <2>2. wal' = wal /\ pc'[h] \in {"ready", "closed", "locking", "minting", "leasing"}
    BY <1>a, <1>14 DEF BeginAcquire, Goto, disk, PlacesTyped
  <2> QED BY <2>1, <2>2, <2>f, LogKept DEF LogAt, Writing
<1>15. ASSUME NEW h \in Handles, WriteLease(h) PROVE LogSound'
  <2>f. fresh' = fresh
    BY <1>15 DEF WriteLease
  <2>1. \A k \in Handles \ {h} : pc'[k] = pc[k] /\ op'[k] = op[k] /\ open'[k] = open[k]
    BY <1>a, <1>15 DEF WriteLease, Goto, Return, PlacesTyped, LocalTyped
  <2>2. wal' = wal /\ pc'[h] \in {"ready", "closed", "locking", "minting", "leasing"}
    BY <1>a, <1>15 DEF WriteLease, Goto, Return, PlacesTyped
  <2> QED BY <2>1, <2>2, <2>f, LogKept DEF LogAt, Writing
<1>16. ASSUME NEW h \in Handles, Delete(h) PROVE LogSound'
  <2>1. UNCHANGED <<wal, pc, op, open>> /\ fresh' = fresh
    BY <1>16 DEF Delete, local
  <2> QED BY <2>1, LogSame
<1>17. ASSUME NEW h \in Handles, Crash(h) PROVE LogSound'
  <2>f. fresh' \subseteq fresh
    BY <1>17 DEF Crash
  <2>1. \A k \in Handles \ {h} : pc'[k] = pc[k] /\ op'[k] = op[k] /\ open'[k] = open[k]
    BY <1>a, <1>17 DEF Crash, PlacesTyped, LocalTyped
  <2>2. wal' = wal /\ pc'[h] \in {"ready", "closed", "locking", "minting", "leasing"}
    BY <1>a, <1>17 DEF Crash, PlacesTyped
  <2> QED BY <2>1, <2>2, <2>f, LogKept DEF LogAt, Writing
<1>18. ASSUME NEW h \in Handles, Abandon(h) PROVE LogSound'
  <2>1. /\ wal' = wal /\ pc'[h] = "ready"
        /\ \A k \in Handles \ {h} : pc'[k] = pc[k] /\ op'[k] = op[k] /\ open'[k] = open[k]
    BY <1>a, <1>18 DEF Abandon, Return, Goto, PlacesTyped
  <2> DEFINE E == {[by |-> h, kind |-> k, op |-> op[h]] : k \in Effects(pc[h])}
  <2>2. fresh' = fresh \cup {x \in E : x.kind \in {"intent", "committed"}}
    BY <1>18 DEF Abandon
  <2>3. CASE pc[h] = "intent"
    <3> DEFINE x == [by |-> h, kind |-> "intent", op |-> op[h]]
    <3>1. Effects(pc[h]) = {"intent"}
      BY <2>3 DEF Effects
    <3>2. fresh' = fresh \cup {x} /\ x.kind = "intent" /\ x.op = op[h]
      BY <2>2, <3>1
    <3> HIDE DEF x, E
    <3>3. \A r \in Records : r.seq < op[h].seq
      BY <1>b, <2>3 DEF LogAt
    <3> QED BY <2>1, <2>3, <3>2, <3>3, LogLeft DEF Writing
  <2>4. CASE pc[h] = "ack"
    <3> DEFINE x == [by |-> h, kind |-> "committed", op |-> op[h]]
    <3>1. Effects(pc[h]) = {"committed"}
      BY <2>4 DEF Effects
    <3>2. fresh' = fresh \cup {x} /\ x.kind = "committed" /\ x.op = op[h]
      BY <2>2, <3>1
    <3> HIDE DEF x, E
    <3>3. /\ Intent(op[h]) \in Records
          /\ \A r \in Records : r.seq = op[h].seq => r = Intent(op[h])
      BY <1>b, <2>4 DEF LogAt
    <3> QED BY <2>1, <2>4, <3>2, <3>3, LogLeft DEF Writing
  <2>5. CASE pc[h] \notin {"intent", "ack"}
    <3>1. ASSUME NEW x \in E PROVE x.kind \notin {"intent", "committed"}
      <4>1. PICK k \in Effects(pc[h]) : x = [by |-> h, kind |-> k, op |-> op[h]]
        BY <3>1
      <4> QED BY <2>5, <4>1, EffectsOf
    <3>2. fresh' = fresh
      BY <2>2, <3>1
    <3> HIDE DEF E
    <3> QED BY <2>1, <3>2, LogKept DEF LogAt, Writing
  <2> QED BY <2>3, <2>4, <2>5
<1>19. ASSUME StrayEffect PROVE LogInv'
  <2>1. PICK x \in stray : Finish(x)
    BY <1>19 DEF StrayEffect
  <2>2. UNCHANGED <<pc, op, open>> /\ fresh' = fresh \ {x}
    BY <2>1 DEF Finish, local
  <2>3. CASE x.kind \notin {"intent", "committed"}
    <3>1. wal' = wal
      BY <2>1, <2>3 DEF Finish, StrayAppend, StrayReplace, StrayLease
    <3> QED BY <1>c, <2>2, <3>1, LogSame
  <2>4. CASE x.kind \in {"intent", "committed"} /\ x \notin fresh
    <3>1. overtaken'
      BY <2>1, <2>4 DEF Finish, StrayAppend, StrayReplace, StrayLease
    <3> QED BY <3>1 DEF LogInv
  <2>5. CASE x.kind \in {"intent", "committed"} /\ x \in fresh
    <3>1. FreshAt(x) /\ fresh' = {}
      BY <2>2, <2>5 DEF LogSound
    <3>2. x.op \in MintedOp /\ x.op \in Op
      BY <1>a, <2>5, OpSubsets DEF StrayTyped
    <3>3. \A k \in Handles : pc'[k] \notin Writing /\ pc'[k] # "conflict"
      BY <1>b, <2>2, <3>1 DEF FreshAt
    <3>4. \A k \in Handles : LogAt(k)'
      BY <3>3 DEF LogAt, Writing
    <3>5. CASE x.kind = "intent"
      <4>1. wal' = Append(wal, Intent(x.op)) /\ Intent(x.op) \in Record
        BY <2>1, <3>2, <3>5, RecordTypes DEF Finish, StrayAppend, StrayReplace, StrayLease
      <4>2. Intent(x.op).seq = x.op.seq /\ \A r \in Records : r.seq < x.op.seq /\ r.seq \in Nat
        BY <1>a, <3>1, <3>5, RecordFields DEF FreshAt, Intent
      <4>3. \A r \in Records : r.seq # x.op.seq
        BY <3>2, <4>2, OpSeqs
      <4>4. Loadable(wal')
        BY <1>a, <1>b, <4>1, <4>2, <4>3, AppendLoads DEF DiskTyped
      <4> QED BY <1>c, <3>1, <3>3, <3>4, <4>4 DEF LogSound
    <3>6. CASE x.kind = "committed"
      <4>1. wal' = Append(wal, Committed(x.op)) /\ Committed(x.op) \in Record
        BY <2>1, <3>2, <3>6, RecordTypes DEF Finish, StrayAppend, StrayReplace, StrayLease
      <4>2. \A r \in Records : r.seq = x.op.seq => r = Intent(x.op)
        BY <3>1, <3>6 DEF FreshAt
      <4>3. Loadable(wal')
        BY <1>a, <1>b, <4>1, <4>2, AppendLoads DEF DiskTyped, Intent, Committed
      <4> QED BY <1>c, <3>1, <3>3, <3>4, <4>3 DEF LogSound
    <3> QED BY <2>5, <3>5, <3>6
  <2> QED BY <2>3, <2>4, <2>5
<1>20. CASE UNCHANGED vars
  <2>1. UNCHANGED <<wal, pc, op, open>> /\ fresh' = fresh
    BY <1>20 DEF vars, disk, local
  <2> QED BY <1>c, <2>1, LogSame
<1>21. ASSUME NEW h \in Handles, AbandonOpen(h) PROVE LogSound'
  <2> DEFINE o(r) == [NoOp EXCEPT !.session = r.session, !.digest = r.digest, !.seq = r.seq]
             x(r) == [by |-> h, kind |-> "committed", op |-> o(r)]
  <2>1. PICK r \in open[h] : Leave(h, {x(r)})
    BY <1>21 DEF AbandonOpen
  <2>2. /\ wal' = wal /\ pc[h] = "recovering" /\ pc'[h] = "closed"
        /\ \A k \in Handles \ {h} : pc'[k] = pc[k]
    BY <1>a, <1>21, <2>1 DEF AbandonOpen, Goto, PlacesTyped
  <2>3. /\ r \in Records /\ r.phase = "intent" /\ r \in Record
        /\ \A q \in Records : q.seq = r.seq => q = r
    BY <1>a, <1>b, <2>2 DEF LogAt, LocalTyped
  <2>4. x(r).kind = "committed" /\ x(r).op.seq = r.seq
    BY DEF NoOp
  <2>5. Intent(x(r).op) = r
    BY <2>3 DEF Intent, NoOp, Record
  <2>6. fresh' = fresh \cup {x(r)}
    BY <2>1
  <2> HIDE DEF x
  <2> QED BY <2>2, <2>3, <2>4, <2>5, <2>6, LogLeft DEF Writing
<1> QED
  BY <1>c, <1>1, <1>2, <1>3, <1>4, <1>5, <1>6, <1>7, <1>8, <1>9, <1>10, <1>11, <1>12, <1>13,
     <1>14, <1>15, <1>16, <1>17, <1>18, <1>19, <1>20, <1>21
  DEF Next, Opening, Committing

-----------------------------------------------------------------------------
(* Announcements. *)

(* What was announced stays so: a log that is put aside is not lost. *)
LEMMA AnnouncedGrows ==
  ASSUME TypeInv, [Next]_vars
  PROVE  (Records \cup aside) \subseteq (Records' \cup aside')
<1> USE DEF history, Leave
<1>a. DiskTyped /\ PlacesTyped /\ LocalTyped /\ StrayTyped
  BY DEF TypeInv
<1>b. /\ wal' = wal => Records' = Records
      /\ \A r \in Record : wal' = Append(wal, r) => Records' = Records \cup {r}
  BY <1>a, AppendedRecords, KeptRecords DEF DiskTyped
<1>1. ASSUME NEW h \in Handles,
             \/ Open(h) \/ Opened(h) \/ OpenFails(h) \/ BeginSave(h) \/ BeginCas(h) \/ Lock(h)
             \/ Mint(h) \/ Replace(h) \/ BeginAcquire(h) \/ WriteLease(h) \/ Delete(h)
             \/ Crash(h) \/ Abandon(h) \/ AbandonOpen(h)
      PROVE  wal' = wal /\ aside' = aside
  BY <1>1 DEF Open, Opened, OpenFails, BeginSave, BeginCas, Lock, Mint, Replace, PutInPlace,
              BeginAcquire, WriteLease, Delete, Crash, Abandon, AbandonOpen, disk
<1>2. ASSUME NEW h \in Handles, SealNext(h)
      PROVE  aside' = aside /\ (wal' = wal \/ \E r \in Record : wal' = Append(wal, r))
  BY <1>a, <1>2, RecordTypes DEF SealNext, LocalTyped
<1>3. ASSUME NEW h \in Handles, AppendIntent(h) \/ AppendCommitted(h) \/ Fail(h)
      PROVE  aside' = aside /\ (wal' = wal \/ \E r \in Record : wal' = Append(wal, r))
  <2>1. pc[h] \in {"intent", "ack"} => Intent(op[h]) \in Record /\ Committed(op[h]) \in Record
    BY <1>a, RecordTypes DEF PlacesTyped, OpAt
  <2> QED BY <1>3, <2>1 DEF AppendIntent, AppendCommitted, Fail
<1>4. ASSUME NEW h \in Handles, Quarantine(h) PROVE aside' = aside \cup Records
  BY <1>4 DEF Quarantine
<1>5. ASSUME NEW x \in stray, Finish(x)
      PROVE  aside' = aside /\ (wal' = wal \/ \E r \in Record : wal' = Append(wal, r))
  <2>1. x.kind # "lease" => Intent(x.op) \in Record /\ Committed(x.op) \in Record
    BY <1>a, RecordTypes DEF StrayTyped
  <2> QED BY <1>5, <2>1 DEF Finish, StrayAppend, StrayReplace, StrayLease, PutInPlace
<1>6. UNCHANGED vars => wal' = wal /\ aside' = aside
  BY DEF vars, disk
<1> QED
  BY <1>b, <1>1, <1>2, <1>3, <1>4, <1>5, <1>6 DEF Next, Opening, Committing, StrayEffect

(* The files change by a deletion, a commit, or the end of a dropped one. *)
LEMMA SnapChanges ==
  ASSUME [Next]_vars
  PROVE  \/ snap' = snap
         \/ \E s \in Sessions : snap' = [snap EXCEPT ![s] = None]
         \/ \E h \in Handles : pc[h] = "replace" /\ PutInPlace(op[h])
         \/ \E x \in stray : x.kind = "replace" /\ PutInPlace(x.op)
<1>1. ASSUME NEW h \in Handles,
             \/ Opening(h) \/ BeginSave(h) \/ BeginCas(h) \/ Lock(h) \/ Mint(h)
             \/ AppendIntent(h) \/ AppendCommitted(h) \/ Fail(h) \/ BeginAcquire(h)
             \/ WriteLease(h) \/ Crash(h) \/ Abandon(h) \/ AbandonOpen(h)
      PROVE  snap' = snap
  BY <1>1 DEF Opening, Open, SealNext, Opened, Quarantine, OpenFails, BeginSave, BeginCas, Lock,
              Mint, AppendIntent, AppendCommitted, Fail, BeginAcquire, WriteLease, Crash, Abandon,
              AbandonOpen, Leave, disk
<1>2. ASSUME NEW h \in Handles, Replace(h) PROVE pc[h] = "replace" /\ PutInPlace(op[h])
  BY <1>2 DEF Replace
<1>3. ASSUME NEW h \in Handles, Delete(h)
      PROVE  \E s \in Sessions : snap' = [snap EXCEPT ![s] = None]
  BY <1>3 DEF Delete
<1>4. ASSUME NEW x \in stray, Finish(x)
      PROVE  snap' = snap \/ (x.kind = "replace" /\ PutInPlace(x.op))
  BY <1>4 DEF Finish, StrayAppend, StrayReplace, StrayLease
<1>5. UNCHANGED vars => snap' = snap
  BY DEF vars, disk
<1> QED BY <1>1, <1>2, <1>3, <1>4, <1>5 DEF Next, Committing, StrayEffect

(* A commit that is about to replace its snapshot has just written the     *)
(* intent; a dropped one was about to.                                     *)
LEMMA ReplacingSince ==
  ASSUME TypeInv, [Next]_vars
  PROVE  /\ \A h \in Handles : pc'[h] = "replace" =>
               \/ pc[h] = "replace" /\ op'[h] = op[h]
               \/ op'[h] = op[h] /\ wal' = Append(wal, Intent(op[h])) /\ Intent(op[h]) \in Record
         /\ \A x \in stray' : x.kind = "replace" =>
               x \in stray \/ \E h \in Handles : pc[h] = "replace" /\ x.op = op[h]
<1>a. PlacesTyped
  BY DEF TypeInv
<1>1. ASSUME NEW h \in Handles,
             \/ Open(h) \/ Opened(h) \/ Quarantine(h) \/ OpenFails(h) \/ BeginSave(h)
             \/ BeginCas(h) \/ Lock(h) \/ Mint(h) \/ Replace(h) \/ AppendCommitted(h) \/ Fail(h)
             \/ BeginAcquire(h) \/ WriteLease(h) \/ Crash(h) \/ Abandon(h) \/ AbandonOpen(h)
      PROVE  /\ \E at \in Places \ {"replace"} : pc' = [pc EXCEPT ![h] = at]
             /\ \A k \in Handles \ {h} : op'[k] = op[k]
  BY <1>a, <1>1 DEF Open, Opened, Quarantine, OpenFails, BeginSave, BeginCas, Lock, Mint, Replace,
              AppendCommitted, Fail, BeginAcquire, WriteLease, Crash, Abandon, AbandonOpen, Goto,
              Return, Places, PlacesTyped
<1>2. ASSUME NEW h \in Handles, SealNext(h) \/ Delete(h) PROVE pc' = pc /\ op' = op
  BY <1>2 DEF SealNext, Delete, local
<1>3. ASSUME NEW h \in Handles, AppendIntent(h)
      PROVE  /\ op' = op /\ \A k \in Handles \ {h} : pc'[k] = pc[k]
             /\ wal' = Append(wal, Intent(op[h])) /\ Intent(op[h]) \in Record
  BY <1>a, <1>3, RecordTypes DEF AppendIntent, Goto, PlacesTyped, OpAt
<1>4. StrayEffect \/ UNCHANGED vars => pc' = pc /\ op' = op /\ stray' \subseteq stray
  BY DEF StrayEffect, Finish, vars, local
<1>5. ASSUME NEW h \in Handles,
             \/ Opening(h) \/ BeginSave(h) \/ BeginCas(h) \/ Committing(h) \/ Fail(h)
             \/ BeginAcquire(h) \/ WriteLease(h) \/ Delete(h) \/ Crash(h)
      PROVE  stray' \subseteq stray
  BY <1>5 DEF Opening, Open, SealNext, Opened, Quarantine, OpenFails, BeginSave, BeginCas,
              Committing, Lock, Mint, AppendIntent, Replace, AppendCommitted, Fail, BeginAcquire,
              WriteLease, Delete, Crash
<1>6. ASSUME NEW h \in Handles, Abandon(h), NEW x \in stray', x.kind = "replace"
      PROVE  x \in stray \/ (pc[h] = "replace" /\ x.op = op[h])
  <2>1. stray' = stray \cup {[by |-> h, kind |-> k, op |-> op[h]] : k \in Effects(pc[h])}
    BY <1>6 DEF Abandon, Leave
  <2> SUFFICES ASSUME x \notin stray PROVE pc[h] = "replace" /\ x.op = op[h]
    OBVIOUS
  <2>2. PICK k \in Effects(pc[h]) : x = [by |-> h, kind |-> k, op |-> op[h]]
    BY <1>6, <2>1
  <2> QED BY <1>6, <2>2, EffectsOf
<1>7. ASSUME NEW h \in Handles, AbandonOpen(h), NEW x \in stray', x.kind = "replace"
      PROVE  x \in stray
  BY <1>7 DEF AbandonOpen, Leave
<1>8. \A h \in Handles : pc'[h] = "replace" =>
         \/ pc[h] = "replace" /\ op'[h] = op[h]
         \/ op'[h] = op[h] /\ wal' = Append(wal, Intent(op[h])) /\ Intent(op[h]) \in Record
  <2>1. ASSUME NEW k \in Handles, \E at \in Places \ {"replace"} : pc' = [pc EXCEPT ![k] = at],
               NEW h \in Handles, pc'[h] = "replace"
        PROVE  h # k /\ pc[h] = "replace"
    BY <1>a, <2>1 DEF PlacesTyped
  <2>2. ASSUME NEW k \in Handles, AppendIntent(k), NEW h \in Handles, pc'[h] = "replace"
        PROVE  \/ pc[h] = "replace" /\ op'[h] = op[h]
               \/ op'[h] = op[h] /\ wal' = Append(wal, Intent(op[h])) /\ Intent(op[h]) \in Record
    BY <1>3, <2>2
  <2>3. ASSUME NEW k \in Handles,
               \/ Opening(k) \/ BeginSave(k) \/ BeginCas(k) \/ Committing(k) \/ Fail(k)
               \/ BeginAcquire(k) \/ WriteLease(k) \/ Delete(k) \/ Crash(k) \/ Abandon(k)
               \/ AbandonOpen(k)
        PROVE  \/ AppendIntent(k)
               \/ pc' = pc /\ op' = op
               \/ /\ \E at \in Places \ {"replace"} : pc' = [pc EXCEPT ![k] = at]
                  /\ \A h \in Handles \ {k} : op'[h] = op[h]
    BY <1>1, <1>2, <2>3 DEF Opening, Committing
  <2> QED BY <1>4, <2>1, <2>2, <2>3 DEF Next
<1> QED BY <1>4, <1>5, <1>6, <1>7, <1>8 DEF Next

LEMMA AnnouncedStep ==
  ASSUME TypeInv, AnnounceInv, [Next]_vars
  PROVE  AnnounceInv'
<1>a. DiskTyped /\ PlacesTyped /\ StrayTyped
  BY DEF TypeInv
<1>b. (Records \cup aside) \subseteq (Records' \cup aside')
  BY AnnouncedGrows
<1>1. ASSUME NEW o \in CommitOp, Intent(o) \in Records \cup aside, PutInPlace(o),
             NEW s \in Sessions, snap'[s] # snap[s]
      PROVE  \E r \in Records' \cup aside' :
                r.phase = "intent" /\ r.session = s /\ r.digest = snap'[s]
  <2>1. o.session = s /\ o.digest = snap'[s]
    BY <1>a, <1>1, CommitFields DEF PutInPlace, DiskTyped
  <2>2. Intent(o).phase = "intent" /\ Intent(o).session = s /\ Intent(o).digest = snap'[s]
    BY <2>1 DEF Intent
  <2> QED BY <1>1, <1>b, <2>2
<1>2. SnapshotAnnounced'
  <2> SUFFICES ASSUME NEW s \in Sessions, snap'[s] # None
               PROVE  \E r \in Records' \cup aside' :
                         r.phase = "intent" /\ r.session = s /\ r.digest = snap'[s]
    BY DEF SnapshotAnnounced
  <2>1. CASE snap'[s] = snap[s]
    BY <1>b, <2>1 DEF AnnounceInv, SnapshotAnnounced
  <2>2. CASE snap'[s] # snap[s]
    <3>1. ~(snap' = snap) /\ ~(\E t \in Sessions : snap' = [snap EXCEPT ![t] = None])
      BY <1>a, <2>2 DEF DiskTyped
    <3>2. ASSUME NEW h \in Handles, pc[h] = "replace"
          PROVE  op[h] \in CommitOp /\ Intent(op[h]) \in Records \cup aside
      BY <1>a, <3>2, OpSubsets DEF AnnounceInv, PlacesTyped, OpAt
    <3>3. ASSUME NEW x \in stray, x.kind = "replace"
          PROVE  x.op \in CommitOp /\ Intent(x.op) \in Records \cup aside
      BY <1>a, <3>3, OpSubsets DEF AnnounceInv, StrayTyped
    <3>4. \E o \in CommitOp : Intent(o) \in Records \cup aside /\ PutInPlace(o)
      BY <3>1, <3>2, <3>3, SnapChanges
    <3> QED BY <1>1, <2>2, <3>4
  <2> QED BY <2>1, <2>2
<1>3. ASSUME NEW h \in Handles, pc'[h] = "replace"
      PROVE  Intent(op'[h]) \in Records' \cup aside'
  <2>1. CASE pc[h] = "replace" /\ op'[h] = op[h]
    <3>1. Intent(op[h]) \in Records \cup aside
      BY <2>1 DEF AnnounceInv
    <3> QED BY <1>b, <2>1, <3>1
  <2>2. CASE op'[h] = op[h] /\ wal' = Append(wal, Intent(op[h])) /\ Intent(op[h]) \in Record
    <3>1. Records' = Records \cup {Intent(op[h])}
      BY <1>a, <2>2, AppendedRecords DEF DiskTyped
    <3> QED BY <2>2, <3>1
  <2> QED BY <1>3, <2>1, <2>2, ReplacingSince
<1>4. ASSUME NEW x \in stray', x.kind = "replace"
      PROVE  Intent(x.op) \in Records' \cup aside'
  <2>1. Intent(x.op) \in Records \cup aside
    BY <1>4, ReplacingSince DEF AnnounceInv
  <2> QED BY <1>b, <2>1
<1> QED BY <1>2, <1>3, <1>4 DEF AnnounceInv

-----------------------------------------------------------------------------
(* Recovery. *)

(* A Committed record closes the intent with its sequence. *)
LEMMA OpenAfterAppend ==
  ASSUME wal \in Seq(Record), NEW c \in Record, c.phase = "committed",
         NEW r \in OpenIntents(Append(wal, c))
  PROVE  r \in OpenIntents(wal) /\ r.seq # c.seq
<1> DEFINE log == Append(wal, c)
<1>1. PICK k \in 1..Len(log) :
        /\ r = log[k] /\ log[k].phase = "intent"
        /\ \A j \in k..Len(log) : ~(log[j].phase = "committed" /\ log[j].seq = log[k].seq)
  BY DEF OpenIntents
<1>2. /\ Len(log) = Len(wal) + 1 /\ Len(wal) \in Nat /\ log[Len(wal) + 1] = c
      /\ \A i \in 1..Len(wal) : log[i] = wal[i]
  OBVIOUS
<1> HIDE DEF log
<1>3. Len(wal) + 1 \in k..Len(log) /\ k \in 1..Len(wal)
  BY <1>1, <1>2
<1>4. r.seq # c.seq
  BY <1>1, <1>2, <1>3
<1>5. \A j \in k..Len(wal) : j \in k..Len(log) /\ log[j] = wal[j]
  BY <1>2, <1>3
<1>6. \A j \in k..Len(wal) : ~(wal[j].phase = "committed" /\ wal[j].seq = wal[k].seq)
  BY <1>1, <1>2, <1>3, <1>5
<1>7. r = wal[k] /\ wal[k].phase = "intent"
  BY <1>1, <1>2, <1>3
<1> QED BY <1>3, <1>4, <1>6, <1>7 DEF OpenIntents

LEMMA RecoveryStep ==
  ASSUME TypeInv, LockInv, RecoveryInv, [Next]_vars
  PROVE  RecoveryInv'
<1> USE DEF history, LogRead, Gone, Leave
<1>a. DiskTyped /\ PlacesTyped /\ LocalTyped /\ StrayTyped
  BY DEF TypeInv
<1>b. \A h \in Handles : pc[h] \in Locked => flock = h
  BY DEF LockInv
<1>c. \A k \in Handles \ disturbed : pc[k] = "recovering" =>
         \A r \in OpenIntents(wal) : r \in open[k] \/ snap[r.session] # r.digest
  BY DEF RecoveryInv
<1>d. \A r \in OpenIntents(wal) : r.session \in Sessions /\ r.digest # None
  BY <1>a, OpenIntentsType, StoreAssumption DEF DiskTyped, Record
<1>1. ASSUME NEW h \in Handles, Open(h) PROVE RecoveryInv'
  <2>1. wal' = wal /\ snap' = snap /\ disturbed' = disturbed
    BY <1>1 DEF Open
  <2>2. CASE Loadable(wal)
    <3>1. /\ pc' = [pc EXCEPT ![h] = "recovering"]
          /\ open' = [open EXCEPT ![h] = OpenIntents(wal)]
      BY <1>1, <2>2 DEF Open, Goto
    <3> QED BY <1>a, <1>c, <2>1, <3>1 DEF RecoveryInv, PlacesTyped, LocalTyped
  <2>3. CASE ~Loadable(wal)
    <3>1. pc' = [pc EXCEPT ![h] = "conflict"] /\ open' = open
      BY <1>1, <2>3 DEF Open, Goto
    <3> QED BY <1>a, <1>c, <2>1, <3>1 DEF RecoveryInv, PlacesTyped
  <2> QED BY <2>2, <2>3
<1>2. ASSUME NEW h \in Handles, SealNext(h) PROVE RecoveryInv'
  <2>1. pc[h] = "recovering" /\ pc' = pc /\ snap' = snap /\ disturbed' = disturbed
    BY <1>2 DEF SealNext
  <2>2. PICK r \in open[h] :
          /\ open' = [open EXCEPT ![h] = @ \ {r}]
          /\ wal' = IF Matches(r) THEN Append(wal, Committed(r)) ELSE wal
    BY <1>2 DEF SealNext
  <2>3. Committed(r) \in Record /\ Committed(r).phase = "committed" /\ Committed(r).seq = r.seq
    BY <1>a, RecordTypes DEF LocalTyped, Committed, Intent
  <2>4. \A k \in Handles : pc'[k] = "recovering" => k = h
    BY <1>b, <2>1 DEF Locked
  <2>5. ASSUME h \notin disturbed, NEW q \in OpenIntents(wal')
        PROVE  q \in open'[h] \/ snap'[q.session] # q.digest
    <3>1. open'[h] = open[h] \ {r}
      BY <1>a, <2>2 DEF LocalTyped
    <3>2. CASE ~Matches(r)
      <4>1. wal' = wal /\ snap[r.session] # r.digest
        BY <2>2, <3>2 DEF Matches
      <4> QED BY <1>c, <2>1, <2>5, <3>1, <4>1
    <3>3. CASE Matches(r)
      <4>1. q \in OpenIntents(wal) /\ q.seq # r.seq
        BY <1>a, <2>2, <2>3, <2>5, <3>3, OpenAfterAppend DEF DiskTyped
      <4> QED BY <1>c, <2>1, <2>5, <3>1, <4>1
    <3> QED BY <3>2, <3>3
  <2> QED BY <2>1, <2>4, <2>5 DEF RecoveryInv
<1>3. ASSUME NEW h \in Handles,
             \/ Opened(h) \/ OpenFails(h) \/ BeginSave(h) \/ BeginCas(h) \/ Lock(h)
             \/ Mint(h) \/ BeginAcquire(h) \/ WriteLease(h) \/ Crash(h) \/ Abandon(h)
             \/ AbandonOpen(h)
      PROVE  RecoveryInv'
  <2>1. wal' = wal /\ snap' = snap
    BY <1>3 DEF Opened, OpenFails, BeginSave, BeginCas, Lock, Mint, BeginAcquire,
                WriteLease, Crash, Abandon, AbandonOpen, disk
  <2>2. \E at \in Places \ {"recovering"} : pc' = [pc EXCEPT ![h] = at]
    BY <1>3 DEF Opened, OpenFails, BeginSave, BeginCas, Lock, Mint, BeginAcquire,
                WriteLease, Crash, Abandon, AbandonOpen, Goto, Return, Places
  <2>3. open' = open \/ open' = [open EXCEPT ![h] = {}]
    BY <1>3 DEF Opened, OpenFails, BeginSave, BeginCas, Lock, Mint, BeginAcquire,
                WriteLease, Crash, Abandon, AbandonOpen
  <2>4. \A k \in disturbed : k = h \/ k \in disturbed'
    BY <1>3 DEF Opened, OpenFails, BeginSave, BeginCas, Lock, Mint, BeginAcquire,
                WriteLease, Crash, Abandon, AbandonOpen
  <2> QED BY <1>a, <1>c, <2>1, <2>2, <2>3, <2>4 DEF RecoveryInv, PlacesTyped, LocalTyped
<1>4. ASSUME NEW h \in Handles,
             AppendIntent(h) \/ Replace(h) \/ AppendCommitted(h) \/ Fail(h)
      PROVE  RecoveryInv'
  <2>1. pc[h] # "recovering" /\ \E at \in Places \ {"recovering"} : pc' = [pc EXCEPT ![h] = at]
    BY <1>4 DEF AppendIntent, Replace, AppendCommitted, Fail, Goto, Return, Places
  <2>2. open' = open /\ disturbed' = disturbed
    BY <1>4 DEF AppendIntent, Replace, AppendCommitted, Fail
  <2>3. CASE pc[h] \in Locked
    <3>1. \A k \in Handles : pc'[k] # "recovering"
      BY <1>a, <1>b, <2>1, <2>3 DEF PlacesTyped, Locked
    <3> QED BY <3>1 DEF RecoveryInv
  <2>4. CASE pc[h] \notin Locked
    <3>1. wal' = wal /\ snap' = snap
      BY <1>4, <2>4 DEF AppendIntent, Replace, AppendCommitted, Fail, Locked
    <3> QED BY <1>a, <1>c, <2>1, <2>2, <3>1 DEF RecoveryInv, PlacesTyped
  <2> QED BY <2>3, <2>4
<1>5. ASSUME NEW h \in Handles, Delete(h) PROVE RecoveryInv'
  <2>1. wal' = wal /\ open' = open /\ pc' = pc /\ disturbed' = disturbed
    BY <1>5 DEF Delete, local
  <2>2. \A s \in Sessions : snap'[s] \in {snap[s], None}
    BY <1>a, <1>5 DEF Delete, DiskTyped
  <2> QED BY <1>c, <1>d, <2>1, <2>2 DEF RecoveryInv
<1>6. ASSUME NEW h \in Handles, Quarantine(h) PROVE RecoveryInv'
  <2>1. OpenIntents(wal') = {}
    BY <1>6 DEF Quarantine, OpenIntents
  <2> QED BY <2>1 DEF RecoveryInv
<1>7. ASSUME NEW x \in stray, Finish(x) PROVE RecoveryInv'
  <2>1. UNCHANGED <<pc, open>> /\ disturbed \subseteq disturbed'
    BY <1>7 DEF Finish, local
  <2>2. CASE x.kind \in {"intent", "replace"}
    <3>1. \A k \in Handles \ disturbed' : pc'[k] # "recovering"
      BY <1>7, <2>1, <2>2 DEF Finish
    <3> QED BY <3>1 DEF RecoveryInv
  <2>3. CASE x.kind = "committed"
    <3>1. snap' = snap /\ wal' = Append(wal, Committed(x.op))
      BY <1>7, <2>3 DEF Finish, StrayAppend, StrayReplace, StrayLease
    <3>2. Committed(x.op) \in Record /\ Committed(x.op).phase = "committed"
      BY <1>a, <2>3, RecordTypes DEF StrayTyped, Committed, Intent
    <3>3. \A q \in OpenIntents(wal') : q \in OpenIntents(wal)
      BY <1>a, <3>1, <3>2, OpenAfterAppend DEF DiskTyped
    <3> QED BY <1>c, <2>1, <3>1, <3>3 DEF RecoveryInv
  <2>4. CASE x.kind \notin {"intent", "replace", "committed"}
    <3>1. wal' = wal /\ snap' = snap
      BY <1>7, <2>4 DEF Finish, StrayAppend, StrayReplace, StrayLease
    <3> QED BY <1>c, <2>1, <3>1 DEF RecoveryInv
  <2> QED BY <2>2, <2>3, <2>4
<1>8. CASE UNCHANGED vars
  <2>1. UNCHANGED <<wal, snap, pc, open, disturbed>>
    BY <1>8 DEF vars, disk, local
  <2> QED BY <1>c, <2>1 DEF RecoveryInv
<1> QED
  BY <1>1, <1>2, <1>3, <1>4, <1>5, <1>6, <1>7, <1>8 DEF Next, Opening, Committing, StrayEffect

-----------------------------------------------------------------------------
(* Theorems. *)

(* Every variable of the store, its handles and the effects they leave     *)
(* behind stays in its type; a minted sequence is a positive number.       *)
THEOREM StoreTyped == Spec => []TypeOK
<1>1. TypeInv => TypeOK
  BY TypeInvTypes
<1>2. TypeInv /\ [Next]_vars => TypeInv'
  BY TypeStep
<1> QED BY TypeInit, <1>1, <1>2, PTL DEF Spec

(* A Committed record names a snapshot its session really held, also when  *)
(* callers drop commits half way, handles crash and recoveries seal what   *)
(* others left open.                                                       *)
THEOREM CommittedWasDurableAlways == Spec => []CommittedWasDurable
<1>1. Init => TypeInv /\ DurableInv
  <2>1. Init => DurableInv
    BY DEF Init, DurableInv, CommittedWasDurable, Records
  <2> QED BY <2>1, TypeInit
<1>2. (TypeInv /\ DurableInv) /\ [Next]_vars => (TypeInv /\ DurableInv)'
  BY TypeStep, DurableStep
<1>3. DurableInv => CommittedWasDurable
  BY DEF DurableInv
<1> QED BY <1>1, <1>2, <1>3, PTL DEF Spec

LEMMA StoreInit == Init => StoreInv
<1> SUFFICES ASSUME Init PROVE StoreInv
  OBVIOUS
<1>1. LockInv
  BY DEF Init, LockInv, Locked
<1>2. LogInv
  BY DEF Init, LogInv, LogSound, Loadable, LogAt
<1>3. AnnounceInv
  BY DEF Init, AnnounceInv, SnapshotAnnounced
<1>4. RecoveryInv
  BY DEF Init, RecoveryInv
<1> QED BY <1>1, <1>2, <1>3, <1>4 DEF StoreInv

LEMMA StoreStep ==
  ASSUME TypeInv, StoreInv, [Next]_vars
  PROVE  StoreInv'
<1>1. LockInv /\ LogInv /\ AnnounceInv /\ RecoveryInv
  BY DEF StoreInv
<1>2. LogInv'
  <2>1. CASE overtaken
    BY <2>1, OvertakenStays DEF LogInv
  <2>2. CASE LogSound
    BY <1>1, <2>2, LogStep
  <2> QED BY <1>1, <2>1, <2>2 DEF LogInv
<1> QED BY <1>1, <1>2, LockStep, AnnouncedStep, RecoveryStep DEF StoreInv

LEMMA StoreSafe == Spec => [](TypeInv /\ StoreInv)
<1>1. (TypeInv /\ StoreInv) /\ [Next]_vars => (TypeInv /\ StoreInv)'
  BY TypeStep, StoreStep
<1> QED BY TypeInit, StoreInit, <1>1, PTL DEF Spec

(* Whatever handles commit, crash, reopen and drop their calls, the log    *)
(* loads until the append of a dropped call comes after another handle has *)
(* taken the lock that the call gave up, and has read the log.             *)
THEOREM LogLoadsAlways == Spec => []LogLoads
<1>1. TypeInv /\ StoreInv => LogLoads
  BY DEF StoreInv, LogInv, LogSound, LogLoads
<1> QED BY <1>1, StoreSafe, PTL

(* Every snapshot in place was announced by an intent of the log, or of a  *)
(* log that was put aside, whatever crashed and whoever dropped a commit   *)
(* half way.                                                               *)
THEOREM SnapshotAnnouncedAlways == Spec => []SnapshotAnnounced
<1>1. TypeInv /\ StoreInv => SnapshotAnnounced
  BY DEF StoreInv, AnnounceInv
<1> QED BY <1>1, StoreSafe, PTL

(* A recovery that ends has looked at every open intent. *)
LEMMA RecoveryEnds ==
  ASSUME TypeInv, StoreInv, Next, NEW h \in Handles \ disturbed, pc[h] = "recovering",
         pc'[h] = "ready"
  PROVE  \A r \in OpenIntents(wal) : snap[r.session] # r.digest
<1>a. PlacesTyped /\ h \in Handles
  BY DEF TypeInv
<1>1. ASSUME NEW k \in Handles,
             \/ Opening(k) \/ BeginSave(k) \/ BeginCas(k) \/ Committing(k) \/ Fail(k)
             \/ BeginAcquire(k) \/ WriteLease(k) \/ Crash(k) \/ Abandon(k) \/ AbandonOpen(k)
      PROVE  k = h
  <2>1. pc' = pc \/ \E at \in Places : pc' = [pc EXCEPT ![k] = at]
    BY <1>1 DEF Opening, Committing, Open, SealNext, Opened, Quarantine, OpenFails, BeginSave,
                BeginCas, Lock, Mint, AppendIntent, Replace, AppendCommitted, Fail, BeginAcquire,
                WriteLease, Crash, Abandon, AbandonOpen, Goto, Return, Places
  <2> QED BY <1>a, <2>1 DEF PlacesTyped
<1>2. ASSUME NEW k \in Handles, Delete(k) PROVE FALSE
  BY <1>2 DEF Delete, local
<1>3. ~StrayEffect
  BY DEF StrayEffect, Finish, local
<1>4. \/ Opening(h) \/ BeginSave(h) \/ BeginCas(h) \/ Committing(h) \/ Fail(h)
      \/ BeginAcquire(h) \/ WriteLease(h) \/ Crash(h) \/ Abandon(h) \/ AbandonOpen(h)
  BY <1>1, <1>2, <1>3 DEF Next
<1>5. SealNext(h) \/ Opened(h) \/ OpenFails(h) \/ Crash(h) \/ AbandonOpen(h)
  BY <1>4 DEF Opening, Committing, Open, Quarantine, BeginSave, BeginCas, Lock, Mint,
              AppendIntent, Replace, AppendCommitted, Fail, BeginAcquire, WriteLease, Abandon
<1>6. Opened(h)
  BY <1>a, <1>5 DEF SealNext, OpenFails, Crash, AbandonOpen, Goto, PlacesTyped
<1>7. open[h] = {}
  BY <1>6 DEF Opened
<1> QED BY <1>7 DEF StoreInv, RecoveryInv

(* A handle is handed out only when no snapshot is in place whose intent   *)
(* is still open, unless a dropped commit wrote its intent or replaced its *)
(* snapshot while the recovery ran.                                        *)
THEOREM RecoveryCompleteAlways == Spec => RecoveryComplete
<1>1. (TypeInv /\ StoreInv) /\ [Next]_vars =>
        [\A h \in Handles \ disturbed : pc[h] = "recovering" /\ pc'[h] = "ready" =>
             \A r \in OpenIntents(wal) : snap[r.session] # r.digest]_vars
  BY RecoveryEnds
<1> QED BY <1>1, StoreSafe, PTL DEF Spec, RecoveryComplete

=============================================================================
