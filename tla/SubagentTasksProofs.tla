------------------------ MODULE SubagentTasksProofs ------------------------
(***************************************************************************)
(* Proofs about SubagentTasks, for any set of tasks, any worlds they may   *)
(* run in, any cap on terminal records and any limit of the fan-out.       *)
(***************************************************************************)
EXTENDS SubagentTasks, TLAPS, FiniteSetTheorems, SequenceTheorems

TrackerTyped ==
  /\ world \in Worlds
  /\ record \in [Tasks -> Statuses]
  /\ known \subseteq Tasks /\ cancellers \subseteq Tasks /\ fired \subseteq Tasks
  /\ order \in Seq(Tasks)
  /\ toMark \in [Procs -> Tasks \cup {None}]
  /\ cancelling \in [Cancellers -> Tasks \cup {None}]
  /\ unmarked \subseteq Tasks

ChildTyped ==
  /\ pc \in [Tasks -> Phases]
  /\ outcome \in [Tasks -> BOOLEAN]
  /\ started \subseteq Fanned /\ ended \subseteq started

StreamTyped == ends \in [Tasks -> Nat]

FanTyped ==
  /\ fan \in {"collecting", "settling", "aborting", "cleaning", "done", "dropped"}
  /\ active \subseteq Fanned /\ abandoned \subseteq Fanned /\ todo \subseteq Fanned
  /\ results \in [Fanned -> {"none", "ok", "failed"}]
  /\ cleaning \in [task : Fanned, at : {"end", "announce"}] \cup {None}

CloseTyped ==
  /\ closing \in {"open", "listing", "cancelling", "closed"}
  /\ listed \subseteq Tasks /\ toCancel \subseteq listed

TypeInv == TrackerTyped /\ ChildTyped /\ StreamTyped /\ FanTyped /\ CloseTyped

(* A task is terminal from the moment it is to be queued; it is queued by  *)
(* one process and once, unless that process is dropped first.             *)
QueueInv ==
  /\ \A t \in Range(order) : record[t] \in Terminal
  /\ \A i, j \in 1..Len(order) : order[i] = order[j] => i = j
  /\ Len(order) <= Cap
  /\ \A p \in Procs : toMark[p] # None =>
       record[toMark[p]] \in Terminal /\ toMark[p] \notin Range(order)
  /\ \A p, q \in Procs : toMark[p] # None /\ toMark[p] = toMark[q] => p = q
  /\ \A t \in Tasks : toMark[t] \in {t, None}
  /\ \A p \in Cancellers : cancelling[p] # None => toMark[p] = None
  /\ \A t \in Tasks : record[t] \in Terminal =>
       t \in Range(order) \/ (\E p \in Procs : toMark[p] = t) \/ t \in unmarked

FanFree == cleaning = None => Free("fan")

Over == {"settling", "done", "aborted"}

(* Ends of a child: a foreground one announces its own, a branch is marked *)
(* when it announces it, and only an active branch is under way.           *)
EndAt(t) ==
  /\ Mode[t] # "background" => pc[t] \notin {"spawned", "failing", "failClearing"}
  /\ Mode[t] \notin {"background", "fanout"} =>
       ends[t] <= 1 /\ (pc[t] \notin Over => ends[t] = 0)
  /\ Mode[t] = "fanout" =>
       /\ ends[t] = IF t \in ended THEN 1 ELSE 0
       /\ pc[t] = "idle" => t \notin started
       /\ pc[t] \in {"child", "finished", "clearing", "settling"} => t \in started
       /\ pc[t] \notin Over => t \notin ended
       /\ pc[t] \notin {"idle", "done", "aborted"} => t \in active

(* The branches the fan-out gave up on, and which of them it has to end.   *)
FanInv ==
  /\ fan \in {"cleaning", "done"} => active = {}
  /\ fan # "cleaning" => todo = {} /\ cleaning = None
  /\ fan = "collecting" => abandoned = {}
  /\ cleaning # None => cleaning.task \in started \ ended
  /\ fan \in {"cleaning", "done"} =>
       \A t \in abandoned : t \in started \ ended =>
         t \in todo \/ (cleaning # None /\ cleaning.task = t)

EndInv == (\A t \in Tasks : EndAt(t)) /\ FanInv

(* What one step does to the tracker. *)
TrackerMove ==
  /\ world' = world
  /\ known' \subseteq Tasks /\ cancellers' \subseteq Tasks /\ fired' \subseteq Tasks
  /\ \/ UNCHANGED <<record, order, toMark, cancelling, unmarked>>
     \/ \E t \in Tasks : /\ record[t] = "none"
                         /\ record' = [record EXCEPT ![t] = "running"]
                         /\ UNCHANGED <<order, toMark, cancelling, unmarked>>
     \/ \E p \in Procs, t \in Tasks, ok \in BOOLEAN :
          (p \in Tasks => p = t) /\ Free(p) /\ RecordEnd(p, t, ok)
     \/ \E p \in Procs : MarkTerminal(p)
     \/ \E p \in Cancellers, t \in Tasks : Free(p) /\ TakeToken(p, t)
     \/ \E p \in Cancellers : MarkCancelled(p)
     \/ \E p \in Procs : Drop(p)

-----------------------------------------------------------------------------
(* The queue of terminal tasks. *)

(* Dropping the first s elements of a queue. *)
LEMMA DropFirst ==
  ASSUME NEW q \in Seq(Tasks), NEW s \in 0..Len(q)
  PROVE  /\ SubSeq(q, s + 1, Len(q)) \in Seq(Tasks)
         /\ Len(SubSeq(q, s + 1, Len(q))) = Len(q) - s
         /\ \A i \in 1..(Len(q) - s) : SubSeq(q, s + 1, Len(q))[i] = q[s + i]
<1>1. s + 1 \in 1..(Len(q) + 1) /\ Len(q) \in Nat /\ Len(q) \in (s + 1 - 1)..Len(q)
  OBVIOUS
<1> QED BY <1>1, SubSeqProperties

LEMMA RangeIs ==
  ASSUME NEW q \in Seq(Tasks)
  PROVE  \A t : t \in Range(q) <=> \E i \in 1..Len(q) : q[i] = t
BY DEF Range

(* mark_terminal_and_evict: what stays, and what is forgotten. *)
LEMMA Eviction ==
  ASSUME TrackerTyped, NEW p \in Procs, MarkTerminal(p), QueueInv
  PROVE  \E victims \in SUBSET Tasks :
           /\ order' \in Seq(Tasks)
           /\ Len(order') <= Cap
           /\ \A i, j \in 1..Len(order') : order'[i] = order'[j] => i = j
           /\ Range(order') = (Range(order) \cup {toMark[p]}) \ victims
           /\ record' = [u \in Tasks |-> IF u \in victims THEN "none" ELSE record[u]]
           /\ victims \subseteq Range(order) \cup {toMark[p]}
           /\ known' = known \ victims /\ cancellers' = cancellers \ victims
<1> DEFINE t == toMark[p]
           queue == IF t \in Range(order) THEN order ELSE Append(order, t)
           surplus == IF Len(queue) > Cap THEN Len(queue) - Cap ELSE 0
           victims == {queue[i] : i \in 1..surplus}
<1>1. t \in Tasks /\ order \in Seq(Tasks) /\ Cap \in Nat
  BY WorldsType DEF MarkTerminal, TrackerTyped, Cap
<1>2. t \notin Range(order)
  BY DEF MarkTerminal, QueueInv
<1>3. /\ order' = SubSeq(queue, surplus + 1, Len(queue))
      /\ record' = [u \in Tasks |-> IF u \in victims THEN "none" ELSE record[u]]
      /\ known' = known \ victims /\ cancellers' = cancellers \ victims
  BY DEF MarkTerminal
<1>4. /\ queue \in Seq(Tasks) /\ Len(queue) = Len(order) + 1 /\ queue[Len(order) + 1] = t
      /\ \A i \in 1..Len(order) : queue[i] = order[i]
  BY <1>1, <1>2
<1>5. Range(queue) = Range(order) \cup {t}
  <2>1. \A u : u \in Range(queue) <=> \E i \in 1..Len(queue) : queue[i] = u
    BY <1>4, RangeIs
  <2>2. \A u : u \in Range(order) <=> \E i \in 1..Len(order) : order[i] = u
    BY <1>1, RangeIs
  <2>3. \A i \in 1..Len(queue) : i \in 1..Len(order) \/ i = Len(order) + 1
    BY <1>4
  <2>4. Len(order) + 1 \in 1..Len(queue) /\ \A i \in 1..Len(order) : i \in 1..Len(queue)
    BY <1>1, <1>4
  <2> HIDE DEF queue, t
  <2> QED BY <1>4, <2>1, <2>2, <2>3, <2>4
<1>6. \A i, j \in 1..Len(queue) : queue[i] = queue[j] => i = j
  <2>1. \A i, j \in 1..Len(order) : order[i] = order[j] => i = j
    BY DEF QueueInv
  <2>2. \A i \in 1..Len(order) : order[i] # t
    BY <1>1, <1>2, RangeIs
  <2>3. \A i \in 1..Len(queue) : i \in 1..Len(order) \/ i = Len(order) + 1
    BY <1>4
  <2> HIDE DEF queue, t
  <2> QED BY <1>4, <2>1, <2>2, <2>3
<1>7. surplus \in 0..Len(queue) /\ Len(queue) - surplus <= Cap
  <2> HIDE DEF queue
  <2>1. Len(queue) \in Nat
    BY <1>4
  <2> QED BY <1>1, <2>1
<1> HIDE DEF queue, surplus, t
<1>8. /\ order' \in Seq(Tasks) /\ Len(order') = Len(queue) - surplus
      /\ \A i \in 1..(Len(queue) - surplus) : order'[i] = queue[surplus + i]
  BY <1>3, <1>4, <1>7, DropFirst
<1>9. Len(queue) \in Nat /\ \A i \in 1..Len(order') : surplus + i \in 1..Len(queue)
  BY <1>4, <1>7, <1>8
<1>10. \A i, j \in 1..Len(order') : order'[i] = order'[j] => i = j
  <2> SUFFICES ASSUME NEW i \in 1..Len(order'), NEW j \in 1..Len(order'), order'[i] = order'[j]
               PROVE  i = j
    OBVIOUS
  <2>1. order'[i] = queue[surplus + i] /\ order'[j] = queue[surplus + j]
    BY <1>8
  <2>2. surplus + i = surplus + j
    BY <1>6, <1>9, <2>1
  <2> QED BY <1>7, <1>9, <2>2
<1>11. Range(order') = Range(queue) \ victims
  <2>1. \A u : u \in Range(order') <=> \E i \in 1..Len(order') : order'[i] = u
    BY <1>8, RangeIs
  <2>2. \A u : u \in Range(queue) <=> \E i \in 1..Len(queue) : queue[i] = u
    BY <1>4, RangeIs
  <2>3. ASSUME NEW u \in Range(order') PROVE u \in Range(queue) /\ u \notin victims
    <3>1. PICK i \in 1..Len(order') : order'[i] = u
      BY <2>1, <2>3
    <3>2. u = queue[surplus + i] /\ surplus + i \in 1..Len(queue)
      BY <1>8, <1>9, <3>1
    <3>3. ASSUME NEW j \in 1..surplus, u = queue[j] PROVE FALSE
      <4>1. j \in 1..Len(queue)
        BY <1>7, <1>9
      <4>2. j = surplus + i
        BY <1>6, <3>2, <3>3, <4>1
      <4> QED BY <1>7, <1>9, <4>2
    <3> QED BY <2>2, <3>2, <3>3
  <2>4. ASSUME NEW u \in Range(queue), u \notin victims PROVE u \in Range(order')
    <3>1. PICK i \in 1..Len(queue) : queue[i] = u
      BY <2>2, <2>4
    <3>2. ~(i \in 1..surplus)
      BY <2>4, <3>1
    <3>3. i - surplus \in 1..Len(order') /\ surplus + (i - surplus) = i
      BY <1>7, <1>8, <1>9, <3>2
    <3>4. order'[i - surplus] = u
      BY <1>8, <3>1, <3>3
    <3> QED BY <2>1, <3>3, <3>4
  <2> QED BY <2>3, <2>4
<1>12. victims \subseteq Range(queue) /\ Range(queue) \subseteq Tasks
  <2>1. \A u : u \in Range(queue) <=> \E i \in 1..Len(queue) : queue[i] = u
    BY <1>4, RangeIs
  <2>2. \A i \in 1..surplus : i \in 1..Len(queue)
    BY <1>7, <1>9
  <2> QED BY <1>4, <2>1, <2>2
<1>13. victims \in SUBSET Tasks
  BY <1>12
<1> HIDE DEF victims
<1> QED BY <1>3, <1>5, <1>7, <1>8, <1>10, <1>11, <1>12, <1>13 DEF t

-----------------------------------------------------------------------------
(* Every move of the tracker keeps its types and its queue. *)

LEMMA ProcFacts ==
  /\ Tasks \subseteq Procs /\ Cancellers \subseteq Procs
  /\ "fan" \in Cancellers /\ "fan" \in Procs
  /\ \A t \in Tasks : t \notin Cancellers
  /\ None \notin Tasks
BY TasksFinite, TasksAreNotRoles DEF Procs, Cancellers

LEMMA StatusFacts ==
  /\ Terminal \subseteq Statuses /\ "running" \in Statuses /\ "none" \in Statuses
  /\ "running" \notin Terminal /\ "none" \notin Terminal
  /\ \A s \in Statuses : s \notin Terminal => s \in {"none", "running"}
BY DEF Statuses, Terminal

LEMMA QueueStep ==
  ASSUME TrackerTyped, QueueInv, TrackerMove
  PROVE  TrackerTyped' /\ QueueInv'
<1>0. unmarked' \subseteq Tasks /\ unmarked \subseteq unmarked'
  BY DEF TrackerTyped, TrackerMove, RecordEnd, MarkTerminal, TakeToken, MarkCancelled, Drop
<1>a. /\ world' = world /\ Cap' = Cap /\ world \in Worlds
      /\ known' \subseteq Tasks /\ cancellers' \subseteq Tasks /\ fired' \subseteq Tasks
      /\ unmarked' \subseteq Tasks /\ unmarked \subseteq unmarked'
  BY <1>0 DEF TrackerTyped, TrackerMove, Cap
<1>b. /\ record \in [Tasks -> Statuses] /\ order \in Seq(Tasks)
      /\ toMark \in [Procs -> Tasks \cup {None}]
      /\ cancelling \in [Cancellers -> Tasks \cup {None}]
  BY DEF TrackerTyped
<1>1. CASE UNCHANGED <<record, order, toMark, cancelling, unmarked>>
  <2>1. TrackerTyped'
    BY <1>a, <1>b, <1>1 DEF TrackerTyped
  <2>2. QueueInv'
    BY <1>a, <1>1 DEF QueueInv
  <2> QED BY <2>1, <2>2
<1>2. ASSUME NEW t \in Tasks, record[t] = "none", record' = [record EXCEPT ![t] = "running"],
             UNCHANGED <<order, toMark, cancelling, unmarked>>
      PROVE  TrackerTyped' /\ QueueInv'
  <2>1. TrackerTyped'
    BY <1>a, <1>b, <1>2, StatusFacts DEF TrackerTyped
  <2>2. record' \in [Tasks -> Statuses] /\ record'[t] = "running"
        /\ \A u \in Tasks : u # t => record'[u] = record[u]
    BY <1>b, <1>2, StatusFacts
  <2>3. Range(order) \subseteq Tasks
    BY <1>b, RangeIs
  <2>4. \A u \in Range(order) : record'[u] \in Terminal
    BY <1>2, <2>2, <2>3, StatusFacts DEF QueueInv
  <2>5. \A p \in Procs : toMark[p] # None => record'[toMark[p]] \in Terminal
    BY <1>b, <1>2, <2>2, StatusFacts DEF QueueInv
  <2>6. \A u \in Tasks : record'[u] \in Terminal => record[u] \in Terminal
    BY <2>2, StatusFacts
  <2>7. QueueInv'
    BY <1>a, <1>2, <2>4, <2>5, <2>6 DEF QueueInv
  <2> QED BY <2>1, <2>7
<1>3. ASSUME NEW p \in Procs, NEW t \in Tasks, NEW ok \in BOOLEAN,
             p \in Tasks => p = t, Free(p), RecordEnd(p, t, ok)
      PROVE  TrackerTyped' /\ QueueInv'
  <2>1. /\ order' = order /\ cancelling' = cancelling
        /\ toMark' = IF record[t] \in {"none", "running"} THEN [toMark EXCEPT ![p] = t] ELSE toMark
        /\ toMark[p] = None /\ (p \in Cancellers => cancelling[p] = None)
    BY <1>3 DEF RecordEnd, Free
  <2>2. record' \in [Tasks -> Statuses] /\ record'[t] \in Terminal
        /\ \A u \in Tasks : u # t => record'[u] = record[u]
    BY <1>b, <1>3, StatusFacts DEF RecordEnd, Terminal
  <2>3. toMark' \in [Procs -> Tasks \cup {None}]
    BY <1>b, <2>1
  <2>4. TrackerTyped'
    BY <1>a, <1>b, <2>1, <2>2, <2>3 DEF TrackerTyped
  <2>5. Range(order) \subseteq Tasks
    BY <1>b, RangeIs
  <2>6. \A u \in Range(order) : record'[u] \in Terminal
    BY <2>2, <2>5 DEF QueueInv
  <2>7. CASE record[t] \in {"none", "running"}
    <3>1. /\ toMark'[p] = t /\ \A q \in Procs : q # p => toMark'[q] = toMark[q]
          /\ record[t] \notin Terminal
      BY <1>b, <2>1, <2>7, StatusFacts
    <3>2. t \notin Range(order) /\ \A q \in Procs : toMark[q] # t
      BY <3>1, ProcFacts DEF QueueInv
    <3>3. \A q \in Procs : toMark'[q] # None =>
             record'[toMark'[q]] \in Terminal /\ toMark'[q] \notin Range(order)
      BY <1>b, <2>2, <3>1, <3>2 DEF QueueInv
    <3>4. \A q, r \in Procs : toMark'[q] # None /\ toMark'[q] = toMark'[r] => q = r
      BY <3>1, <3>2 DEF QueueInv
    <3>5. \A u \in Tasks : toMark'[u] \in {u, None}
      BY <1>3, <3>1, ProcFacts DEF QueueInv
    <3>6. \A q \in Cancellers : cancelling[q] # None => toMark'[q] = None
      BY <2>1, <3>1, ProcFacts DEF QueueInv
    <3>7. \A u \in Tasks : record'[u] \in Terminal =>
            u \in Range(order) \/ (\E q \in Procs : toMark'[q] = u) \/ u \in unmarked'
      <4> SUFFICES ASSUME NEW u \in Tasks, record'[u] \in Terminal, u # t
                   PROVE  u \in Range(order) \/ (\E q \in Procs : toMark'[q] = u) \/ u \in unmarked'
        BY <3>1
      <4>1. record[u] \in Terminal
        BY <2>2
      <4>2. CASE \E q \in Procs : toMark[q] = u
        BY <2>1, <3>1, <4>2, ProcFacts
      <4> QED BY <1>a, <4>1, <4>2 DEF QueueInv
    <3> QED BY <1>a, <2>1, <2>4, <2>6, <3>3, <3>4, <3>5, <3>6, <3>7 DEF QueueInv
  <2>8. CASE record[t] \notin {"none", "running"}
    <3>1. toMark' = toMark /\ record[t] \in Terminal
      BY <1>b, <2>1, <2>8, StatusFacts
    <3>2. \A q \in Procs : toMark[q] # None => record'[toMark[q]] \in Terminal
      BY <1>b, <2>2 DEF QueueInv
    <3>3. \A u \in Tasks : record'[u] \in Terminal => record[u] \in Terminal
      BY <2>2, <3>1
    <3> QED BY <1>a, <2>1, <2>4, <2>6, <3>1, <3>2, <3>3 DEF QueueInv
  <2> QED BY <2>7, <2>8
<1>4. ASSUME NEW p \in Procs, MarkTerminal(p)
      PROVE  TrackerTyped' /\ QueueInv'
  <2>1. PICK victims \in SUBSET Tasks :
           /\ order' \in Seq(Tasks)
           /\ Len(order') <= Cap
           /\ \A i, j \in 1..Len(order') : order'[i] = order'[j] => i = j
           /\ Range(order') = (Range(order) \cup {toMark[p]}) \ victims
           /\ record' = [u \in Tasks |-> IF u \in victims THEN "none" ELSE record[u]]
           /\ victims \subseteq Range(order) \cup {toMark[p]}
           /\ known' = known \ victims /\ cancellers' = cancellers \ victims
    BY <1>4, Eviction
  <2>2. /\ toMark[p] # None /\ toMark' = [toMark EXCEPT ![p] = None] /\ cancelling' = cancelling
    BY <1>4 DEF MarkTerminal
  <2>3. TrackerTyped'
    BY <1>a, <1>b, <2>1, <2>2, StatusFacts DEF TrackerTyped
  <2>4. /\ toMark'[p] = None /\ \A q \in Procs : q # p => toMark'[q] = toMark[q]
        /\ toMark[p] \in Tasks
        /\ \A u \in Tasks : record'[u] = IF u \in victims THEN "none" ELSE record[u]
    BY <1>b, <2>1, <2>2
  <2>5. Range(order) \subseteq Tasks
    BY <1>b, RangeIs
  <2>6. \A u \in Range(order') : record'[u] \in Terminal
    BY <2>1, <2>2, <2>4, <2>5 DEF QueueInv
  <2>7. ASSUME NEW q \in Procs, toMark'[q] # None
        PROVE  record'[toMark'[q]] \in Terminal /\ toMark'[q] \notin Range(order')
    <3>1. q # p /\ toMark'[q] = toMark[q] /\ toMark[q] # toMark[p] /\ toMark[q] \in Tasks
      BY <1>b, <2>2, <2>4, <2>7 DEF QueueInv
    <3>2. toMark[q] \notin Range(order) /\ record[toMark[q]] \in Terminal
      BY <2>7, <3>1 DEF QueueInv
    <3>3. toMark[q] \notin victims
      BY <2>1, <3>1, <3>2
    <3> QED BY <2>1, <2>4, <3>1, <3>2, <3>3
  <2>8. \A q, r \in Procs : toMark'[q] # None /\ toMark'[q] = toMark'[r] => q = r
    BY <2>4 DEF QueueInv
  <2>9. \A u \in Tasks : toMark'[u] \in {u, None}
    BY <2>4, ProcFacts DEF QueueInv
  <2>10. \A q \in Cancellers : cancelling[q] # None => toMark'[q] = None
    BY <2>4, ProcFacts DEF QueueInv
  <2>11. ASSUME NEW u \in Tasks, record'[u] \in Terminal
         PROVE  u \in Range(order') \/ (\E q \in Procs : toMark'[q] = u) \/ u \in unmarked'
    <3>1. u \notin victims /\ record[u] \in Terminal
      BY <2>4, <2>11, StatusFacts
    <3>2. CASE u \in Range(order) \cup {toMark[p]}
      BY <2>1, <3>1, <3>2
    <3>3. CASE u \notin Range(order) \cup {toMark[p]}
      BY <1>a, <2>2, <2>4, <3>1, <3>3 DEF QueueInv
    <3> QED BY <3>2, <3>3
  <2> QED BY <1>a, <2>1, <2>2, <2>3, <2>6, <2>7, <2>8, <2>9, <2>10, <2>11 DEF QueueInv
<1>5. ASSUME NEW p \in Cancellers, NEW t \in Tasks, Free(p), TakeToken(p, t)
      PROVE  TrackerTyped' /\ QueueInv'
  <2>1. /\ UNCHANGED <<record, order, toMark>> /\ toMark[p] = None
        /\ cancelling' = cancelling \/ cancelling' = [cancelling EXCEPT ![p] = t]
    BY <1>5 DEF TakeToken, Free
  <2>2. TrackerTyped'
    BY <1>a, <1>b, <2>1 DEF TrackerTyped
  <2>3. \A q \in Cancellers : cancelling'[q] # None => toMark[q] = None
    BY <1>b, <2>1 DEF QueueInv
  <2> QED BY <1>a, <2>1, <2>2, <2>3 DEF QueueInv
<1>6. ASSUME NEW p \in Cancellers, MarkCancelled(p)
      PROVE  TrackerTyped' /\ QueueInv'
  <2> DEFINE t == cancelling[p]
  <2>1. /\ t # None /\ t \in Tasks /\ order' = order /\ toMark[p] = None
        /\ cancelling' = [cancelling EXCEPT ![p] = None]
    BY <1>b, <1>6 DEF MarkCancelled, QueueInv
  <2>2. \/ UNCHANGED <<record, toMark>>
        \/ /\ record[t] = "running" /\ record' = [record EXCEPT ![t] = "cancelled"]
           /\ toMark' = [toMark EXCEPT ![p] = t]
    BY <1>6 DEF MarkCancelled
  <2> HIDE DEF t
  <2>3. TrackerTyped'
    BY <1>a, <1>b, <2>1, <2>2, ProcFacts DEF TrackerTyped, Statuses, Terminal
  <2>4. \A q \in Cancellers : cancelling'[q] # None => q # p /\ toMark[q] = None
    BY <1>b, <2>1 DEF QueueInv
  <2>5. CASE UNCHANGED <<record, toMark>>
    BY <1>a, <2>1, <2>3, <2>4, <2>5 DEF QueueInv
  <2>6. CASE /\ record[t] = "running" /\ record' = [record EXCEPT ![t] = "cancelled"]
             /\ toMark' = [toMark EXCEPT ![p] = t]
    <3>1. /\ toMark'[p] = t /\ \A q \in Procs : q # p => toMark'[q] = toMark[q]
          /\ record[t] \notin Terminal /\ record'[t] \in Terminal
          /\ \A u \in Tasks : u # t => record'[u] = record[u]
      BY <1>b, <2>1, <2>6, ProcFacts DEF Terminal
    <3>2. t \notin Range(order) /\ \A q \in Procs : toMark[q] # t
      BY <2>1, <3>1, ProcFacts DEF QueueInv
    <3>3. \A q \in Procs : toMark'[q] # None =>
             record'[toMark'[q]] \in Terminal /\ toMark'[q] \notin Range(order)
      BY <1>b, <3>1, <3>2 DEF QueueInv
    <3>4. \A q, r \in Procs : toMark'[q] # None /\ toMark'[q] = toMark'[r] => q = r
      BY <3>1, <3>2 DEF QueueInv
    <3>5. \A u \in Tasks : toMark'[u] \in {u, None}
      BY <3>1, ProcFacts DEF QueueInv
    <3>6. \A q \in Cancellers : cancelling'[q] # None => toMark'[q] = None
      BY <2>4, <3>1, ProcFacts
    <3>7. Range(order) \subseteq Tasks
      BY <1>b, RangeIs
    <3>8. \A u \in Range(order) : record'[u] \in Terminal
      BY <3>1, <3>7 DEF QueueInv
    <3>9. \A u \in Tasks : record'[u] \in Terminal =>
            u \in Range(order) \/ (\E q \in Procs : toMark'[q] = u) \/ u \in unmarked'
      <4> SUFFICES ASSUME NEW u \in Tasks, record'[u] \in Terminal, u # t
                   PROVE  u \in Range(order) \/ (\E q \in Procs : toMark'[q] = u) \/ u \in unmarked'
        BY <3>1, ProcFacts
      <4>1. record[u] \in Terminal
        BY <3>1
      <4>2. CASE \E q \in Procs : toMark[q] = u
        BY <2>1, <3>1, <4>2, ProcFacts
      <4> QED BY <1>a, <4>1, <4>2 DEF QueueInv
    <3> QED BY <1>a, <2>1, <2>3, <3>3, <3>4, <3>5, <3>6, <3>8, <3>9 DEF QueueInv
  <2> QED BY <2>2, <2>5, <2>6
<1>7. ASSUME NEW p \in Procs, Drop(p)
      PROVE  TrackerTyped' /\ QueueInv'
  <2>1. /\ UNCHANGED <<record, order>> /\ toMark' = [toMark EXCEPT ![p] = None]
        /\ cancelling' = [c \in Cancellers |-> IF c = p THEN None ELSE cancelling[c]]
        /\ toMark[p] # None => toMark[p] \in unmarked'
    BY <1>7 DEF Drop
  <2>2. toMark'[p] = None /\ \A q \in Procs : q # p => toMark'[q] = toMark[q]
    BY <1>b, <2>1
  <2>3. \A q \in Cancellers : cancelling'[q] # None => q # p /\ cancelling[q] # None
    BY <2>1
  <2>4. TrackerTyped'
    <3>1. toMark' \in [Procs -> Tasks \cup {None}]
      BY <1>b, <2>1
    <3>2. cancelling' \in [Cancellers -> Tasks \cup {None}]
      BY <1>b, <2>1
    <3> QED BY <1>a, <1>b, <2>1, <3>1, <3>2 DEF TrackerTyped
  <2>5. \A q \in Procs : toMark'[q] # None => toMark'[q] = toMark[q] /\ q # p
    BY <2>2
  <2>6. \A q \in Cancellers : cancelling'[q] # None => toMark'[q] = None
    BY <2>2, <2>3, ProcFacts DEF QueueInv
  <2>7. \A u \in Tasks : toMark'[u] \in {u, None}
    BY <2>2, ProcFacts DEF QueueInv
  <2>8. ASSUME NEW u \in Tasks, record[u] \in Terminal
        PROVE  u \in Range(order) \/ (\E q \in Procs : toMark'[q] = u) \/ u \in unmarked'
    <3>1. CASE toMark[p] = u
      BY <2>1, <3>1, ProcFacts
    <3>2. CASE toMark[p] # u
      BY <1>a, <2>2, <2>8, <3>2 DEF QueueInv
    <3> QED BY <3>1, <3>2
  <2>9. \A q, r \in Procs : toMark'[q] # None /\ toMark'[q] = toMark'[r] => q = r
    BY <2>5 DEF QueueInv
  <2>10. \A q \in Procs : toMark'[q] # None =>
             record[toMark'[q]] \in Terminal /\ toMark'[q] \notin Range(order)
    BY <2>5 DEF QueueInv
  <2> QED BY <1>a, <2>1, <2>4, <2>6, <2>7, <2>8, <2>9, <2>10 DEF QueueInv
<1> QED
  BY <1>1, <1>2, <1>3, <1>4, <1>5, <1>6, <1>7 DEF TrackerMove

(* Dropping a process leaves the others' tracker operations alone. *)
LEMMA DropOne ==
  ASSUME TrackerTyped, NEW p \in Procs, Drop(p)
  PROVE  /\ UNCHANGED <<record, known, cancellers, order>>
         /\ \A q \in Procs : q # p => toMark'[q] = toMark[q]
         /\ \A q \in Cancellers : q # p => cancelling'[q] = cancelling[q]
BY DEF TrackerTyped, Drop

-----------------------------------------------------------------------------
(* The steps of a child. *)

(* A child leaves the fan-out and the session alone. *)
LEMMA ChildFrame ==
  ASSUME NEW t \in Tasks, Child(t)
  PROVE  /\ UNCHANGED <<fan, active, results, abandoned, todo, cleaning>>
         /\ UNCHANGED <<closing, listed, toCancel, world>>
<1>1. UNCHANGED <<fanout, session>>
  BY DEF Child, ChildStep, LaunchBackground, EnterForeground, RecordBackgroundStart,
      RefuseEntry, RegisterCanceller, FailBeforeStart, Start, RecordOwnEnd, AnnounceEnd,
      Settle, ClearAfterError, RecordFailedEnd, AnnounceFailedEnd, BailAfterStart, Finish, CloseScope, DropChild
<1> QED BY <1>1 DEF fanout, session

(* A child moves itself. *)
LEMMA ChildMoves ==
  ASSUME ChildTyped, NEW t \in Tasks, Child(t)
  PROVE  pc' = pc \/ \E x \in Phases : pc' = [pc EXCEPT ![t] = x]
<1>1. \A u \in Tasks : FailedPhase(u) \in Phases
  BY DEF FailedPhase, Phases
<1> QED
  BY <1>1 DEF Child, ChildStep, Goto, child, Phases, LaunchBackground, EnterForeground,
      RecordBackgroundStart, RefuseEntry, RegisterCanceller, FailBeforeStart, Start,
      RecordOwnEnd, AnnounceEnd, Settle, ClearAfterError, RecordFailedEnd,
      AnnounceFailedEnd, BailAfterStart, Finish, CloseScope, DropChild

LEMMA ChildTracker ==
  ASSUME TrackerTyped, ChildTyped, QueueInv, NEW t \in Tasks, Child(t)
  PROVE  /\ TrackerMove
         /\ toMark'["fan"] = toMark["fan"] /\ cancelling'["fan"] = cancelling["fan"]
<1>a. /\ world' = world /\ known \subseteq Tasks /\ cancellers \subseteq Tasks /\ fired \subseteq Tasks
  BY ChildFrame DEF TrackerTyped
<1>b. t \in Procs /\ t # "fan" /\ toMark \in [Procs -> Tasks \cup {None}] /\ record \in [Tasks -> Statuses]
  BY ProcFacts DEF TrackerTyped
<1>c. ASSUME RecordStart(t), fired' = fired
      PROVE  TrackerMove /\ toMark' = toMark /\ cancelling' = cancelling
  <2>1. /\ known' \subseteq Tasks /\ cancellers' = cancellers /\ UNCHANGED <<order, toMark, cancelling, unmarked>>
        /\ record' = record \/ (record[t] = "none" /\ record' = [record EXCEPT ![t] = "running"])
    BY <1>a, <1>c DEF RecordStart
  <2> QED BY <1>a, <1>c, <2>1 DEF TrackerMove
<1>d. ASSUME UNCHANGED <<record, known, order, toMark, cancelling, unmarked>>,
             cancellers' \subseteq cancellers \cup {t}, fired' \subseteq fired \cup {t}
      PROVE  TrackerMove /\ toMark' = toMark /\ cancelling' = cancelling
  BY <1>a, <1>d DEF TrackerMove
<1>e. ASSUME Free(t), NEW ok \in BOOLEAN, RecordEnd(t, t, ok), fired' = fired
      PROVE  TrackerMove /\ toMark'["fan"] = toMark["fan"] /\ cancelling'["fan"] = cancelling["fan"]
  <2>1. known' = known /\ cancellers' = cancellers /\ cancelling' = cancelling
        /\ (toMark' = toMark \/ toMark' = [toMark EXCEPT ![t] = t])
    BY <1>e DEF RecordEnd
  <2>2. TrackerMove
    BY <1>a, <1>b, <1>e, <2>1 DEF TrackerMove
  <2> QED BY <1>b, <2>1, <2>2, ProcFacts
<1>f. \A u \in Tasks : outcome[u] \in BOOLEAN
  BY DEF ChildTyped
<1>1. ASSUME \/ LaunchBackground(t) \/ EnterForeground(t) \/ RefuseEntry(t) \/ RegisterCanceller(t)
             \/ FailBeforeStart(t) \/ AnnounceEnd(t) \/ Settle(t) \/ ClearAfterError(t)
             \/ AnnounceFailedEnd(t) \/ BailAfterStart(t) \/ Finish(t)
             \/ CloseScope(t)
      PROVE  TrackerMove /\ toMark' = toMark /\ cancelling' = cancelling
  <2>1. /\ UNCHANGED <<record, known, order, toMark, cancelling, unmarked>>
        /\ cancellers' \subseteq cancellers \cup {t} /\ fired' \subseteq fired \cup {t}
    BY <1>1 DEF tracker, ClearCanceller, LaunchBackground, EnterForeground, RefuseEntry,
        RegisterCanceller, FailBeforeStart, AnnounceEnd, Settle, ClearAfterError,
        AnnounceFailedEnd, BailAfterStart, Finish, CloseScope
  <2> QED BY <1>d, <2>1
<1>2. ASSUME RecordBackgroundStart(t)
      PROVE  TrackerMove /\ toMark' = toMark /\ cancelling' = cancelling
  <2>1. RecordStart(t) /\ fired' = fired
    BY <1>2 DEF RecordBackgroundStart
  <2> QED BY <1>c, <2>1
<1>3. ASSUME Start(t)
      PROVE  TrackerMove /\ toMark' = toMark /\ cancelling' = cancelling
  <2>1. fired' = fired /\ (RecordStart(t) \/ UNCHANGED tracker)
    BY <1>3 DEF Start
  <2>2. CASE UNCHANGED tracker
    BY <1>d, <2>1, <2>2 DEF tracker
  <2> QED BY <1>c, <2>1, <2>2
<1>4. ASSUME RecordOwnEnd(t) \/ RecordFailedEnd(t)
      PROVE  TrackerMove /\ toMark'["fan"] = toMark["fan"] /\ cancelling'["fan"] = cancelling["fan"]
  <2>1. Free(t) /\ fired' = fired /\ \E ok \in BOOLEAN : RecordEnd(t, t, ok)
    BY <1>4, <1>f DEF RecordOwnEnd, RecordFailedEnd, At
  <2> QED BY <1>e, <2>1
<1>5. ASSUME DropChild(t)
      PROVE  TrackerMove /\ toMark'["fan"] = toMark["fan"] /\ cancelling'["fan"] = cancelling["fan"]
  <2>1. Drop(t) /\ fired' = fired
    BY <1>5 DEF DropChild
  <2>2. /\ UNCHANGED <<known, cancellers>> /\ toMark'["fan"] = toMark["fan"]
        /\ cancelling'["fan"] = cancelling["fan"]
    BY <1>b, <2>1, DropOne, ProcFacts
  <2> QED BY <1>a, <1>b, <2>1, <2>2 DEF TrackerMove
<1> QED BY <1>1, <1>2, <1>3, <1>4, <1>5 DEF Child, ChildStep

LEMMA ChildTypes ==
  ASSUME ChildTyped, StreamTyped, NEW t \in Tasks, Child(t)
  PROVE  ChildTyped' /\ StreamTyped'
<1>a. Fanned' = Fanned
  BY ChildFrame DEF Fanned, Mode
<1>b. pc' \in [Tasks -> Phases]
  BY ChildMoves DEF ChildTyped
<1>c. ASSUME started' = started \/ (t \in Fanned /\ started' = started \cup {t}),
             ended' = ended \/ (t \in started /\ ended' = ended \cup {t}),
             outcome' \in [Tasks -> BOOLEAN]
      PROVE  ChildTyped'
  BY <1>a, <1>b, <1>c DEF ChildTyped
<1>d. ASSUME ends' = ends \/ Announce(t) PROVE StreamTyped'
  BY <1>d DEF StreamTyped, Announce
<1>f. outcome \in [Tasks -> BOOLEAN]
  BY DEF ChildTyped
<1>1. ASSUME \/ LaunchBackground(t) \/ EnterForeground(t) \/ RecordBackgroundStart(t)
             \/ RefuseEntry(t) \/ RegisterCanceller(t) \/ FailBeforeStart(t) \/ RecordOwnEnd(t)
             \/ Settle(t) \/ ClearAfterError(t) \/ RecordFailedEnd(t) \/ AnnounceFailedEnd(t)
             \/ BailAfterStart(t) \/ Finish(t) \/ CloseScope(t) \/ DropChild(t)
      PROVE  ChildTyped' /\ StreamTyped'
  <2>1. UNCHANGED <<started, ended>> /\ (ends' = ends \/ Announce(t))
    BY <1>1 DEF child, LaunchBackground, EnterForeground, RecordBackgroundStart, RefuseEntry,
        RegisterCanceller, FailBeforeStart, RecordOwnEnd, Settle, ClearAfterError,
        RecordFailedEnd, AnnounceFailedEnd, BailAfterStart, Finish, CloseScope, DropChild
  <2>2. outcome' \in [Tasks -> BOOLEAN]
    BY <1>1, <1>f DEF child, LaunchBackground, EnterForeground, RecordBackgroundStart, RefuseEntry,
        RegisterCanceller, FailBeforeStart, RecordOwnEnd, Settle, ClearAfterError,
        RecordFailedEnd, AnnounceFailedEnd, BailAfterStart, Finish, CloseScope, DropChild
  <2> QED BY <1>c, <1>d, <2>1, <2>2
<1>2. ASSUME Start(t) PROVE ChildTyped' /\ StreamTyped'
  <2>1. UNCHANGED <<outcome, ended, ends>>
        /\ (started' = started \/ (t \in Fanned /\ started' = started \cup {t}))
    BY <1>2 DEF Start
  <2> QED BY <1>c, <1>d, <1>f, <2>1
<1>3. ASSUME AnnounceEnd(t) PROVE ChildTyped' /\ StreamTyped'
  <2>1. UNCHANGED <<outcome, started>> /\ Announce(t)
        /\ (ended' = ended \/ (t \in started /\ ended' = ended \cup {t}))
    BY <1>3 DEF AnnounceEnd
  <2> QED BY <1>c, <1>d, <1>f, <2>1
<1> QED BY <1>1, <1>2, <1>3 DEF Child, ChildStep

(* A child announces an end once, and the fan-out's bookkeeping is right   *)
(* after a step of one task.                                               *)
LEMMA EndStepOf ==
  ASSUME EndInv, NEW t \in Tasks, world' = world,
         UNCHANGED <<fan, active, abandoned, todo, cleaning>>,
         \A u \in Tasks : u # t => pc'[u] = pc[u] /\ ends'[u] = ends[u],
         \/ UNCHANGED <<started, ended>>
         \/ /\ Mode[t] = "fanout" /\ t \in active
            /\ \A u \in Tasks : u # t => (u \in started' <=> u \in started)
                                         /\ (u \in ended' <=> u \in ended),
         EndAt(t)'
  PROVE  EndInv'
<1>1. ASSUME NEW u \in Tasks, u # t PROVE EndAt(u)'
  BY <1>1 DEF EndInv, EndAt, Mode
<1>2. FanInv'
  <2>1. CASE UNCHANGED <<started, ended>>
    BY <2>1 DEF EndInv, FanInv
  <2>2. CASE t \in active
    BY <2>2 DEF EndInv, FanInv
  <2> QED BY <2>1, <2>2
<1> QED BY <1>1, <1>2 DEF EndInv

LEMMA ChildEnds ==
  ASSUME ChildTyped, StreamTyped, EndInv, NEW t \in Tasks, Child(t)
  PROVE  EndInv'
<1>a. /\ world' = world /\ Mode' = Mode /\ UNCHANGED <<fan, active, abandoned, todo, cleaning>>
  BY ChildFrame DEF Mode
<1>b. /\ pc \in [Tasks -> Phases] /\ ends \in [Tasks -> Nat] /\ \A u \in Tasks : outcome[u] \in BOOLEAN
      /\ ended \subseteq started
  BY DEF ChildTyped, StreamTyped
<1>c. \A u \in Tasks : u # t => pc'[u] = pc[u]
  BY <1>b, ChildMoves
<1>d. EndAt(t)
  BY DEF EndInv
<1>e. ASSUME UNCHANGED <<started, ended>>, ends' = ends, EndAt(t)' PROVE EndInv'
  BY <1>a, <1>c, <1>e, EndStepOf
<1>f. t \in Fanned <=> Mode[t] = "fanout"
  BY DEF Fanned
<1>1. ASSUME EnterForeground(t) PROVE EndInv'
  <2>1. UNCHANGED <<started, ended, ends>>
    BY <1>1 DEF EnterForeground
  <2>2. EndAt(t)'
    BY <1>a, <1>b, <1>d, <1>1, <2>1 DEF EndAt, Over, Goto, EnterForeground
  <2> QED BY <1>e, <2>1, <2>2
<1>2. ASSUME RecordBackgroundStart(t) PROVE EndInv'
  <2>1. UNCHANGED <<started, ended, ends>>
    BY <1>2 DEF RecordBackgroundStart
  <2>2. EndAt(t)'
    BY <1>a, <1>b, <1>d, <1>2, <2>1 DEF EndAt, Over, Goto, RecordBackgroundStart, At
  <2> QED BY <1>e, <2>1, <2>2
<1>3. ASSUME RefuseEntry(t) PROVE EndInv'
  <2>1. UNCHANGED <<started, ended, ends>>
    BY <1>3 DEF RefuseEntry
  <2>2. EndAt(t)'
    BY <1>a, <1>b, <1>d, <1>3, <2>1 DEF EndAt, Over, Goto, RefuseEntry, At, FailedPhase
  <2> QED BY <1>e, <2>1, <2>2
<1>4. ASSUME RegisterCanceller(t) PROVE EndInv'
  <2>1. UNCHANGED <<started, ended, ends>>
    BY <1>4 DEF RegisterCanceller
  <2>2. EndAt(t)'
    BY <1>a, <1>b, <1>d, <1>4, <2>1 DEF EndAt, Over, Goto, RegisterCanceller, At
  <2> QED BY <1>e, <2>1, <2>2
<1>5. ASSUME FailBeforeStart(t) PROVE EndInv'
  <2>1. UNCHANGED <<started, ended, ends>>
    BY <1>5 DEF FailBeforeStart
  <2>2. EndAt(t)'
    BY <1>a, <1>b, <1>d, <1>5, <2>1 DEF EndAt, Over, Goto, FailBeforeStart, At
  <2> QED BY <1>e, <2>1, <2>2
<1>6. ASSUME RecordOwnEnd(t) PROVE EndInv'
  <2>1. UNCHANGED <<started, ended, ends>>
    BY <1>6 DEF RecordOwnEnd
  <2>2. EndAt(t)'
    BY <1>a, <1>b, <1>d, <1>6, <2>1 DEF EndAt, Over, Goto, RecordOwnEnd, At
  <2> QED BY <1>e, <2>1, <2>2
<1>7. ASSUME Settle(t) PROVE EndInv'
  <2>1. UNCHANGED <<started, ended, ends>>
    BY <1>7 DEF Settle
  <2>2. EndAt(t)'
    BY <1>a, <1>b, <1>d, <1>7, <2>1 DEF EndAt, Over, Goto, Settle, At, FailedPhase
  <2> QED BY <1>e, <2>1, <2>2
<1>8. ASSUME ClearAfterError(t) PROVE EndInv'
  <2>1. UNCHANGED <<started, ended, ends>>
    BY <1>8 DEF ClearAfterError
  <2>2. EndAt(t)'
    BY <1>a, <1>b, <1>d, <1>8, <2>1 DEF EndAt, Over, Goto, ClearAfterError, At, FailedPhase
  <2> QED BY <1>e, <2>1, <2>2
<1>9. ASSUME RecordFailedEnd(t) PROVE EndInv'
  <2>1. UNCHANGED <<started, ended, ends>>
    BY <1>9 DEF RecordFailedEnd
  <2>2. EndAt(t)'
    BY <1>a, <1>b, <1>d, <1>9, <2>1 DEF EndAt, Over, Goto, RecordFailedEnd, At
  <2> QED BY <1>e, <2>1, <2>2
<1>10. ASSUME BailAfterStart(t) PROVE EndInv'
  <2>1. UNCHANGED <<started, ended, ends>>
    BY <1>10 DEF BailAfterStart
  <2>2. EndAt(t)'
    BY <1>a, <1>b, <1>d, <1>10, <2>1 DEF EndAt, Over, Goto, BailAfterStart, At
  <2> QED BY <1>e, <2>1, <2>2
<1>11. ASSUME Finish(t) PROVE EndInv'
  <2>1. UNCHANGED <<started, ended, ends>>
    BY <1>11 DEF Finish
  <2>2. EndAt(t)'
    BY <1>a, <1>b, <1>d, <1>11, <2>1 DEF EndAt, Over, Goto, Finish, At
  <2> QED BY <1>e, <2>1, <2>2
<1>12. ASSUME DropChild(t) PROVE EndInv'
  <2>1. UNCHANGED <<started, ended, ends>>
    BY <1>12 DEF DropChild
  <2>2. EndAt(t)'
    BY <1>a, <1>b, <1>d, <1>12, <2>1 DEF EndAt, Over, Goto, DropChild
  <2> QED BY <1>e, <2>1, <2>2
<1>13. ASSUME CloseScope(t) PROVE EndInv'
  <2>1. UNCHANGED <<started, ended, ends, pc>>
    BY <1>13 DEF CloseScope, child
  <2>2. EndAt(t)'
    BY <1>a, <1>d, <2>1 DEF EndAt
  <2> QED BY <1>e, <2>1, <2>2
<1>14. ASSUME LaunchBackground(t) PROVE EndInv'
  <2>1. UNCHANGED <<started, ended>> /\ Mode[t] = "background" /\ (ends' = ends \/ Announce(t))
    BY <1>14 DEF LaunchBackground
  <2>2. EndAt(t)'
    BY <1>a, <2>1 DEF EndAt
  <2>3. \A u \in Tasks : u # t => ends'[u] = ends[u]
    BY <1>b, <2>1 DEF Announce
  <2> QED BY <1>a, <1>c, <2>1, <2>2, <2>3, EndStepOf
<1>15. ASSUME Start(t) PROVE EndInv'
  <2>1. /\ pc[t] = "registered" /\ pc'[t] = "child" /\ UNCHANGED <<ended, ends>>
        /\ started' = started \/ started' = IF t \in Fanned THEN started \cup {t} ELSE started
        /\ Mode[t] # "background" => started' = IF t \in Fanned THEN started \cup {t} ELSE started
    BY <1>b, <1>15 DEF Start, At, Goto
  <2>2. EndAt(t)'
    BY <1>a, <1>d, <1>f, <2>1 DEF EndAt, Over
  <2>3. CASE Mode[t] = "fanout"
    <3>1. t \in active
      BY <1>d, <2>1, <2>3 DEF EndAt
    <3> QED BY <1>a, <1>c, <2>1, <2>2, <2>3, <3>1, EndStepOf
  <2>4. CASE Mode[t] # "fanout"
    <3>1. started' = started
      BY <1>f, <2>1, <2>4
    <3> QED BY <1>e, <2>1, <2>2, <3>1
  <2> QED BY <2>3, <2>4
<1>16. ASSUME AnnounceEnd(t) PROVE EndInv'
  <2>1. /\ pc[t] = "clearing" /\ pc'[t] = "settling" /\ started' = started
        /\ ended' = IF t \in started THEN ended \cup {t} ELSE ended
        /\ Announce(t)
    BY <1>b, <1>16 DEF AnnounceEnd, At, Goto
  <2>2. ends'[t] = ends[t] + 1 /\ \A u \in Tasks : u # t => ends'[u] = ends[u]
    BY <1>b, <2>1 DEF Announce
  <2>3. EndAt(t)'
    BY <1>a, <1>b, <1>d, <2>1, <2>2 DEF EndAt, Over
  <2>4. CASE Mode[t] = "fanout"
    <3>1. t \in active
      BY <1>d, <2>1, <2>4 DEF EndAt
    <3> QED BY <1>a, <1>c, <2>1, <2>2, <2>3, <2>4, <3>1, EndStepOf
  <2>5. CASE Mode[t] # "fanout"
    <3>1. ended' = ended
      BY <1>f, <2>1, <2>5 DEF ChildTyped
    <3> QED BY <1>a, <1>c, <2>1, <2>2, <2>3, <3>1, EndStepOf
  <2> QED BY <2>4, <2>5
<1>17. ASSUME AnnounceFailedEnd(t) PROVE EndInv'
  <2>1. pc[t] = "failClearing" /\ UNCHANGED <<started, ended>> /\ Announce(t)
    BY <1>17 DEF AnnounceFailedEnd, At
  <2>2. \A u \in Tasks : u # t => ends'[u] = ends[u]
    BY <1>b, <2>1 DEF Announce
  <2>3. EndAt(t)'
    BY <1>a, <1>d, <2>1 DEF EndAt
  <2> QED BY <1>a, <1>c, <2>1, <2>2, <2>3, EndStepOf
<1> QED
  BY <1>1, <1>2, <1>3, <1>4, <1>5, <1>6, <1>7, <1>8, <1>9, <1>10, <1>11, <1>12, <1>13, <1>14, <1>15, <1>16, <1>17
  DEF Child, ChildStep

-----------------------------------------------------------------------------
(* The steps of the fan-out. *)

LEMMA FanFrame ==
  ASSUME Fanout
  PROVE  UNCHANGED <<closing, listed, toCancel, world>> /\ Fanned' = Fanned /\ Mode' = Mode
<1>1. UNCHANGED session
  BY DEF Fanout, SpawnBranch, JoinBranch, DropBranch, AbortBranch, SkipAbandoned,
      CancelAbandoned, ReturnAll, StopCollecting, GraceOver, AllJoined, EndAbandoned,
      AnnounceAbandoned, ReturnPartial
<1> QED BY <1>1 DEF session, Fanned, Mode

LEMMA FanStep ==
  ASSUME TypeInv, QueueInv, FanFree, EndInv, Fanout
  PROVE  TrackerMove /\ ChildTyped' /\ StreamTyped' /\ FanTyped' /\ FanFree' /\ EndInv'
<1>a. TrackerTyped /\ ChildTyped /\ StreamTyped /\ FanTyped
  BY DEF TypeInv
<1>b. /\ world' = world /\ Fanned' = Fanned /\ Mode' = Mode
      /\ \A t \in Fanned : t \in Tasks /\ Mode[t] = "fanout"
      /\ \A t \in Tasks : Mode[t] = "fanout" => t \in Fanned
  BY FanFrame DEF Fanned
<1>c. /\ pc \in [Tasks -> Phases] /\ ends \in [Tasks -> Nat]
      /\ \A t \in Tasks : EndAt(t)
      /\ FanInv
  BY <1>a DEF ChildTyped, StreamTyped, EndInv
<1>q. ASSUME UNCHANGED tracker, fired' \subseteq Tasks
      PROVE  TrackerMove
  BY <1>a, <1>b, <1>q DEF TrackerMove, TrackerTyped, tracker
(* Steps that only move the fan-out itself. *)
<1>r. ASSUME UNCHANGED <<tracker, child, ends>>, fired' \subseteq Tasks
      PROVE  TrackerMove /\ ChildTyped' /\ StreamTyped'
  <2>1. UNCHANGED <<pc, outcome, started, ended, ends>>
    BY <1>r DEF child
  <2>2. TrackerMove
    BY <1>q, <1>r, <2>1
  <2> QED BY <1>a, <1>b, <2>1, <2>2 DEF ChildTyped, StreamTyped
<1>s. ASSUME UNCHANGED <<tracker, child, ends>>, FanInv',
             \A t \in Fanned : pc[t] \notin {"idle", "done", "aborted"} => t \in active'
      PROVE  EndInv'
  <2>1. UNCHANGED <<pc, started, ended, ends>>
    BY <1>s DEF child
  <2>2. ASSUME NEW t \in Tasks PROVE EndAt(t)'
    BY <1>b, <1>c, <1>s, <2>1 DEF EndAt
  <2> QED BY <1>s, <2>2 DEF EndInv
<1>t. UNCHANGED tracker /\ (cleaning' = None => cleaning = None) => FanFree'
  BY DEF tracker, FanFree, Free
<1>1. ASSUME NEW t \in Fanned, JoinBranch(t)
      PROVE  TrackerMove /\ ChildTyped' /\ StreamTyped' /\ FanTyped' /\ FanFree' /\ EndInv'
  <2>1. UNCHANGED <<tracker, child, ends>> /\ (cleaning' = None => cleaning = None)
    BY <1>1 DEF JoinBranch
  <2>2. fired' \subseteq Tasks
    BY <1>a, <1>b, <1>1 DEF JoinBranch, TrackerTyped
  <2>3. FanTyped'
    BY <1>a, <1>b, <1>1 DEF JoinBranch, FanTyped
  <2>4. FanInv'
    BY <1>a, <1>b, <1>c, <1>1, <2>1 DEF JoinBranch, FanInv, child, FanTyped
  <2>5. \A u \in Fanned : pc[u] \notin {"idle", "done", "aborted"} => u \in active'
    BY <1>b, <1>c, <1>1 DEF JoinBranch, EndAt, FanInv
  <2> QED BY <1>r, <1>s, <1>t, <2>1, <2>2, <2>3, <2>4, <2>5
<1>2. ASSUME NEW t \in Fanned, DropBranch(t)
      PROVE  TrackerMove /\ ChildTyped' /\ StreamTyped' /\ FanTyped' /\ FanFree' /\ EndInv'
  <2>1. UNCHANGED <<tracker, child, ends>> /\ (cleaning' = None => cleaning = None)
    BY <1>2 DEF DropBranch
  <2>2. fired' \subseteq Tasks
    BY <1>a, <1>b, <1>2 DEF DropBranch, TrackerTyped
  <2>3. FanTyped'
    BY <1>a, <1>b, <1>2 DEF DropBranch, FanTyped
  <2>4. FanInv'
    BY <1>a, <1>b, <1>c, <1>2, <2>1 DEF DropBranch, FanInv, child, FanTyped
  <2>5. \A u \in Fanned : pc[u] \notin {"idle", "done", "aborted"} => u \in active'
    BY <1>b, <1>c, <1>2 DEF DropBranch, EndAt, FanInv
  <2> QED BY <1>r, <1>s, <1>t, <2>1, <2>2, <2>3, <2>4, <2>5
<1>3. ASSUME NEW t \in Fanned, SkipAbandoned(t)
      PROVE  TrackerMove /\ ChildTyped' /\ StreamTyped' /\ FanTyped' /\ FanFree' /\ EndInv'
  <2>1. UNCHANGED <<tracker, child, ends>> /\ (cleaning' = None => cleaning = None)
    BY <1>3 DEF SkipAbandoned
  <2>2. fired' \subseteq Tasks
    BY <1>a, <1>b, <1>3 DEF SkipAbandoned, TrackerTyped
  <2>3. FanTyped'
    BY <1>a, <1>b, <1>3 DEF SkipAbandoned, FanTyped
  <2>4. FanInv'
    BY <1>a, <1>b, <1>c, <1>3, <2>1 DEF SkipAbandoned, FanInv, child, FanTyped
  <2>5. \A u \in Fanned : pc[u] \notin {"idle", "done", "aborted"} => u \in active'
    BY <1>b, <1>c, <1>3 DEF SkipAbandoned, EndAt, FanInv
  <2> QED BY <1>r, <1>s, <1>t, <2>1, <2>2, <2>3, <2>4, <2>5
<1>4. ASSUME ReturnAll
      PROVE  TrackerMove /\ ChildTyped' /\ StreamTyped' /\ FanTyped' /\ FanFree' /\ EndInv'
  <2>1. UNCHANGED <<tracker, child, ends>> /\ (cleaning' = None => cleaning = None)
    BY <1>4 DEF ReturnAll
  <2>2. fired' \subseteq Tasks
    BY <1>a, <1>b, <1>4 DEF ReturnAll, TrackerTyped
  <2>3. FanTyped'
    BY <1>a, <1>b, <1>4 DEF ReturnAll, FanTyped
  <2>4. FanInv'
    BY <1>a, <1>b, <1>c, <1>4, <2>1 DEF ReturnAll, FanInv, child, FanTyped
  <2>5. \A u \in Fanned : pc[u] \notin {"idle", "done", "aborted"} => u \in active'
    BY <1>b, <1>c, <1>4 DEF ReturnAll, EndAt, FanInv
  <2> QED BY <1>r, <1>s, <1>t, <2>1, <2>2, <2>3, <2>4, <2>5
<1>5. ASSUME StopCollecting
      PROVE  TrackerMove /\ ChildTyped' /\ StreamTyped' /\ FanTyped' /\ FanFree' /\ EndInv'
  <2>1. UNCHANGED <<tracker, child, ends>> /\ (cleaning' = None => cleaning = None)
    BY <1>5 DEF StopCollecting
  <2>2. fired' \subseteq Tasks
    BY <1>a, <1>b, <1>5 DEF StopCollecting, TrackerTyped
  <2>3. FanTyped'
    BY <1>a, <1>b, <1>5 DEF StopCollecting, FanTyped
  <2>4. FanInv'
    BY <1>a, <1>b, <1>c, <1>5, <2>1 DEF StopCollecting, FanInv, child, FanTyped
  <2>5. \A u \in Fanned : pc[u] \notin {"idle", "done", "aborted"} => u \in active'
    BY <1>b, <1>c, <1>5 DEF StopCollecting, EndAt, FanInv
  <2> QED BY <1>r, <1>s, <1>t, <2>1, <2>2, <2>3, <2>4, <2>5
<1>6. ASSUME GraceOver
      PROVE  TrackerMove /\ ChildTyped' /\ StreamTyped' /\ FanTyped' /\ FanFree' /\ EndInv'
  <2>1. UNCHANGED <<tracker, child, ends>> /\ (cleaning' = None => cleaning = None)
    BY <1>6 DEF GraceOver
  <2>2. fired' \subseteq Tasks
    BY <1>a, <1>b, <1>6 DEF GraceOver, TrackerTyped
  <2>3. FanTyped'
    BY <1>a, <1>b, <1>6 DEF GraceOver, FanTyped
  <2>4. FanInv'
    BY <1>a, <1>b, <1>c, <1>6, <2>1 DEF GraceOver, FanInv, child, FanTyped
  <2>5. \A u \in Fanned : pc[u] \notin {"idle", "done", "aborted"} => u \in active'
    BY <1>b, <1>c, <1>6 DEF GraceOver, EndAt, FanInv
  <2> QED BY <1>r, <1>s, <1>t, <2>1, <2>2, <2>3, <2>4, <2>5
<1>7. ASSUME AllJoined
      PROVE  TrackerMove /\ ChildTyped' /\ StreamTyped' /\ FanTyped' /\ FanFree' /\ EndInv'
  <2>1. UNCHANGED <<tracker, child, ends>> /\ (cleaning' = None => cleaning = None)
    BY <1>7 DEF AllJoined
  <2>2. fired' \subseteq Tasks
    BY <1>a, <1>b, <1>7 DEF AllJoined, TrackerTyped
  <2>3. FanTyped'
    BY <1>a, <1>b, <1>7 DEF AllJoined, FanTyped
  <2>4. FanInv'
    BY <1>a, <1>b, <1>c, <1>7, <2>1 DEF AllJoined, FanInv, child, FanTyped
  <2>5. \A u \in Fanned : pc[u] \notin {"idle", "done", "aborted"} => u \in active'
    BY <1>b, <1>c, <1>7 DEF AllJoined, EndAt, FanInv
  <2> QED BY <1>r, <1>s, <1>t, <2>1, <2>2, <2>3, <2>4, <2>5
<1>8. ASSUME ReturnPartial
      PROVE  TrackerMove /\ ChildTyped' /\ StreamTyped' /\ FanTyped' /\ FanFree' /\ EndInv'
  <2>1. UNCHANGED <<tracker, child, ends>> /\ (cleaning' = None => cleaning = None)
    BY <1>8 DEF ReturnPartial
  <2>2. fired' \subseteq Tasks
    BY <1>a, <1>b, <1>8 DEF ReturnPartial, TrackerTyped
  <2>3. FanTyped'
    BY <1>a, <1>b, <1>8 DEF ReturnPartial, FanTyped
  <2>4. FanInv'
    BY <1>a, <1>b, <1>c, <1>8, <2>1 DEF ReturnPartial, FanInv, child, FanTyped
  <2>5. \A u \in Fanned : pc[u] \notin {"idle", "done", "aborted"} => u \in active'
    BY <1>b, <1>c, <1>8 DEF ReturnPartial, EndAt, FanInv
  <2> QED BY <1>r, <1>s, <1>t, <2>1, <2>2, <2>3, <2>4, <2>5
<1>9. ASSUME NEW t \in Fanned, SpawnBranch(t)
      PROVE  TrackerMove /\ ChildTyped' /\ StreamTyped' /\ FanTyped' /\ FanFree' /\ EndInv'
  <2>1. /\ UNCHANGED tracker /\ UNCHANGED <<fired, outcome, started, ended>>
        /\ UNCHANGED <<ends, fan, results, abandoned, todo, cleaning>>
        /\ fan = "collecting" /\ active' = active \cup {t}
        /\ pc[t] = "idle" /\ pc' = [pc EXCEPT ![t] = "entered"]
    BY <1>9 DEF SpawnBranch, Goto, Waiting
  <2>2. /\ pc' \in [Tasks -> Phases] /\ pc'[t] = "entered"
        /\ \A u \in Tasks : u # t => pc'[u] = pc[u]
    BY <1>b, <1>c, <2>1 DEF Phases
  <2>3. TrackerMove
    BY <1>a, <1>b, <1>q, <2>1, <2>2 DEF TrackerTyped
  <2>4. ChildTyped' /\ StreamTyped'
    BY <1>a, <1>b, <2>1, <2>2 DEF ChildTyped, StreamTyped
  <2>5. FanTyped' /\ FanFree'
    BY <1>a, <1>b, <1>t, <2>1 DEF FanTyped
  <2>6. FanInv'
    BY <1>c, <2>1 DEF FanInv
  <2>7. ASSUME NEW u \in Tasks PROVE EndAt(u)'
    <3>1. EndAt(u) /\ Mode' = Mode /\ UNCHANGED <<started, ended, ends>> /\ active' = active \cup {t}
      BY <1>b, <1>c, <2>1
    <3>2. CASE u = t
      BY <1>b, <2>1, <2>2, <3>1, <3>2 DEF EndAt, Over
    <3>3. CASE u # t
      BY <2>2, <3>1, <3>3 DEF EndAt
    <3> QED BY <3>2, <3>3
  <2> QED BY <2>3, <2>4, <2>5, <2>6, <2>7 DEF EndInv
<1>10. ASSUME NEW t \in Fanned, AbortBranch(t)
      PROVE  TrackerMove /\ ChildTyped' /\ StreamTyped' /\ FanTyped' /\ FanFree' /\ EndInv'
  <2>1. /\ Drop(t) /\ UNCHANGED <<fired, outcome, started, ended, ends>>
        /\ UNCHANGED <<fan, active, results, abandoned, todo, cleaning>>
        /\ pc' = [pc EXCEPT ![t] = "aborted"]
    BY <1>10 DEF AbortBranch, Goto, fanout
  <2>a. /\ UNCHANGED <<known, cancellers>> /\ toMark'["fan"] = toMark["fan"]
        /\ cancelling'["fan"] = cancelling["fan"] /\ t \in Procs
    BY <1>a, <1>b, <2>1, DropOne, ProcFacts
  <2>2. /\ pc' \in [Tasks -> Phases] /\ pc'[t] = "aborted"
        /\ \A u \in Tasks : u # t => pc'[u] = pc[u]
    BY <1>b, <1>c, <2>1 DEF Phases
  <2>3. TrackerMove
    BY <1>a, <1>b, <2>1, <2>a DEF TrackerMove, TrackerTyped
  <2>4. ChildTyped' /\ StreamTyped' /\ FanTyped'
    BY <1>a, <1>b, <2>1, <2>2 DEF ChildTyped, StreamTyped, FanTyped
  <2>5. FanFree'
    BY <2>1, <2>a DEF FanFree, Free
  <2>6. EndAt(t)'
    BY <1>b, <1>c, <2>1, <2>2 DEF EndAt, Over
  <2>7. EndInv'
    BY <1>b, <2>1, <2>2, <2>6, EndStepOf
  <2> QED BY <2>3, <2>4, <2>5, <2>7
<1>11. ASSUME NEW t \in Fanned, CancelAbandoned(t)
      PROVE  TrackerMove /\ ChildTyped' /\ StreamTyped' /\ FanTyped' /\ FanFree' /\ EndInv'
  <2>1. /\ UNCHANGED <<pc, outcome, started, ended, ends>>
        /\ UNCHANGED <<fan, active, results, abandoned>>
        /\ fan = "cleaning" /\ cleaning = None /\ t \in started \ ended /\ TakeToken("fan", t)
        /\ todo' = todo \ {t} /\ cleaning' = [task |-> t, at |-> "end"]
    BY <1>11 DEF CancelAbandoned, child
  <2>2. /\ known' = known /\ cancellers' \subseteq cancellers /\ fired' \subseteq fired \cup {t}
    BY <2>1 DEF TakeToken
  <2>3. TrackerMove
    BY <1>a, <1>b, <2>1, <2>2, ProcFacts DEF TrackerMove, TrackerTyped, FanFree
  <2>4. /\ cleaning' \in [task : Fanned, at : {"end", "announce"}] /\ cleaning'.task = t
        /\ cleaning' # None
    BY <1>b, <2>1, NoneIsNoBranch
  <2>5. ChildTyped' /\ StreamTyped' /\ FanTyped' /\ FanFree'
    BY <1>a, <1>b, <2>1, <2>4 DEF ChildTyped, StreamTyped, FanTyped, FanFree
  <2>6. FanInv'
    BY <1>c, <2>1, <2>4 DEF FanInv
  <2>7. ASSUME NEW u \in Tasks PROVE EndAt(u)'
    BY <1>b, <1>c, <2>1 DEF EndAt
  <2> QED BY <2>3, <2>5, <2>6, <2>7 DEF EndInv
<1>12. ASSUME EndAbandoned
      PROVE  TrackerMove /\ ChildTyped' /\ StreamTyped' /\ FanTyped' /\ FanFree' /\ EndInv'
  <2> DEFINE t == cleaning.task
  <2>1. /\ UNCHANGED <<pc, outcome, started, ended, ends, fired>>
        /\ UNCHANGED <<fan, active, results, abandoned, todo>>
        /\ cleaning # None /\ Free("fan") /\ RecordEnd("fan", t, FALSE)
        /\ cleaning' = [cleaning EXCEPT !.at = "announce"]
    BY <1>12 DEF EndAbandoned, child
  <2>2. t \in Fanned /\ cleaning \in [task : Fanned, at : {"end", "announce"}]
    BY <1>a, <2>1 DEF FanTyped
  <2>3. /\ cleaning' \in [task : Fanned, at : {"end", "announce"}] /\ cleaning'.task = t
        /\ cleaning' # None
    BY <1>b, <2>1, <2>2, NoneIsNoBranch
  <2> HIDE DEF t
  <2>4. known' = known /\ cancellers' = cancellers
    BY <2>1 DEF RecordEnd
  <2>5. TrackerMove
    BY <1>a, <1>b, <2>1, <2>2, <2>4, ProcFacts, TasksAreNotRoles DEF TrackerMove, TrackerTyped
  <2>6. ChildTyped' /\ StreamTyped' /\ FanTyped' /\ FanFree'
    BY <1>a, <1>b, <2>1, <2>3 DEF ChildTyped, StreamTyped, FanTyped, FanFree
  <2>7. FanInv'
    BY <1>c, <2>1, <2>3 DEF FanInv, t
  <2>8. ASSUME NEW u \in Tasks PROVE EndAt(u)'
    BY <1>b, <1>c, <2>1 DEF EndAt
  <2> QED BY <2>5, <2>6, <2>7, <2>8 DEF EndInv
<1>13. ASSUME AnnounceAbandoned
      PROVE  TrackerMove /\ ChildTyped' /\ StreamTyped' /\ FanTyped' /\ FanFree' /\ EndInv'
  <2>0. PICK t \in Fanned : cleaning.task = t
    BY <1>a, <1>13 DEF AnnounceAbandoned, FanTyped
  <2>1. /\ UNCHANGED <<pc, outcome, started, fired>>
        /\ UNCHANGED <<fan, active, results, abandoned, todo>>
        /\ cleaning # None /\ Free("fan") /\ ClearCanceller(t) /\ cleaning' = None
        /\ Announce(t)
        /\ ended' = IF t \in started THEN ended \cup {t} ELSE ended
    BY <1>13, <2>0 DEF AnnounceAbandoned
  <2>2. t \in Fanned /\ t \in Tasks /\ t \in started \ ended /\ fan = "cleaning" /\ active = {}
    BY <1>b, <1>c, <2>0, <2>1 DEF FanInv
  <2>4. /\ UNCHANGED <<record, known, order, toMark, cancelling, unmarked>> /\ cancellers' \subseteq cancellers
    BY <2>1 DEF ClearCanceller
  <2>6. /\ ends' \in [Tasks -> Nat] /\ ends'[t] = ends[t] + 1
        /\ \A u \in Tasks : u # t => ends'[u] = ends[u]
    BY <1>c, <2>1, <2>2 DEF Announce
  <2>7. TrackerMove
    BY <1>a, <1>b, <2>1, <2>4 DEF TrackerMove, TrackerTyped
  <2>8. ChildTyped' /\ StreamTyped' /\ FanTyped'
    BY <1>a, <1>b, <2>1, <2>2, <2>6 DEF ChildTyped, StreamTyped, FanTyped
  <2>9. FanFree'
    BY <2>1, <2>4 DEF FanFree, Free
  <2>10. FanInv'
    BY <1>c, <2>0, <2>1, <2>2 DEF FanInv
  <2>11. EndAt(t)'
    BY <1>b, <1>c, <2>1, <2>2, <2>6 DEF EndAt, Over
  <2>12. ASSUME NEW u \in Tasks, u # t PROVE EndAt(u)'
    <3>1. /\ EndAt(u) /\ pc'[u] = pc[u] /\ ends'[u] = ends[u]
          /\ (u \in ended' <=> u \in ended) /\ started' = started /\ active' = active
      BY <1>c, <2>1, <2>6, <2>12
    <3> QED BY <1>b, <3>1 DEF EndAt
  <2>13. \A u \in Tasks : EndAt(u)'
    BY <2>2, <2>11, <2>12
  <2> QED BY <2>7, <2>8, <2>9, <2>10, <2>13 DEF EndInv
<1> QED
  BY <1>1, <1>2, <1>3, <1>4, <1>5, <1>6, <1>7, <1>8, <1>9, <1>10, <1>11, <1>12, <1>13 DEF Fanout

-----------------------------------------------------------------------------
(* The tracker's second halves, the host and the close, and dropped futures. *)

LEMMA TrackerFrame ==
  ASSUME UNCHANGED <<child, fanout>>, world' = world, EndInv, FanTyped, ChildTyped, ends' = ends
  PROVE  EndInv' /\ FanTyped' /\ ChildTyped'
<1>1. UNCHANGED <<pc, outcome, started, ended, ends>> /\ Mode' = Mode /\ Fanned' = Fanned
      /\ UNCHANGED <<fan, active, results, abandoned, todo, cleaning>>
  BY DEF child, fanout, Mode, Fanned
<1>2. ASSUME NEW t \in Tasks PROVE EndAt(t)'
  BY <1>1 DEF EndInv, EndAt
<1>3. FanInv'
  BY <1>1 DEF EndInv, FanInv
<1>4. FanTyped' /\ ChildTyped'
  BY <1>1 DEF FanTyped, ChildTyped
<1> QED BY <1>2, <1>3, <1>4 DEF EndInv

LEMMA TrackerSteps ==
  ASSUME TypeInv, QueueInv, FanFree, EndInv, NEW p \in Procs, TrackerStep(p)
  PROVE  /\ TrackerMove /\ ChildTyped' /\ StreamTyped' /\ FanTyped' /\ CloseTyped'
         /\ FanFree' /\ EndInv'
<1>1. UNCHANGED <<fired, child, ends, fanout, session>>
  BY DEF TrackerStep, MarkTerminal, MarkCancelled
<1>2. /\ world' = world /\ pc' = pc /\ UNCHANGED <<closing, listed, toCancel, ends, cleaning>>
  BY <1>1 DEF session, child, fanout
<1>3. known' \subseteq known /\ cancellers' \subseteq cancellers
  BY DEF TrackerStep, MarkTerminal, MarkCancelled
<1>4. TrackerMove
  BY <1>1, <1>2, <1>3 DEF TrackerMove, TrackerStep, TypeInv, TrackerTyped
<1>5. StreamTyped' /\ CloseTyped'
  BY <1>2 DEF TypeInv, StreamTyped, CloseTyped
<1>6. EndInv' /\ FanTyped' /\ ChildTyped'
  BY <1>1, <1>2, TrackerFrame DEF TypeInv
<1>7. FanFree'
  <2> SUFFICES ASSUME cleaning = None PROVE toMark'["fan"] = None /\ cancelling'["fan"] = None
    BY <1>2, ProcFacts DEF FanFree, Free
  <2>1. toMark["fan"] = None /\ cancelling["fan"] = None
    BY ProcFacts DEF FanFree, Free
  <2>2. toMark \in [Procs -> Tasks \cup {None}] /\ cancelling \in [Cancellers -> Tasks \cup {None}]
    BY DEF TypeInv, TrackerTyped
  <2>3. CASE MarkTerminal(p)
    <3>1. toMark' = [toMark EXCEPT ![p] = None] /\ cancelling' = cancelling
      BY <2>3 DEF MarkTerminal
    <3> QED BY <2>1, <2>2, <3>1, ProcFacts
  <2>4. CASE p \in Cancellers /\ MarkCancelled(p)
    <3>1. /\ p # "fan" /\ cancelling' = [cancelling EXCEPT ![p] = None]
          /\ toMark' = toMark \/ toMark' = [toMark EXCEPT ![p] = cancelling[p]]
      BY <2>1, <2>4 DEF MarkCancelled
    <3> QED BY <2>1, <2>2, <3>1, ProcFacts
  <2> QED BY <2>3, <2>4 DEF TrackerStep
<1> QED BY <1>4, <1>5, <1>6, <1>7

LEMMA OtherSteps ==
  ASSUME TypeInv, QueueInv, FanFree, EndInv,
         \/ \E t \in Tasks : HostCancel(t)
         \/ CloseSession \/ CloseStep \/ DropHostCancel \/ DropClose
  PROVE  /\ TrackerMove /\ ChildTyped' /\ StreamTyped' /\ FanTyped' /\ CloseTyped'
         /\ FanFree' /\ EndInv'
<1>a. TrackerTyped /\ ChildTyped /\ StreamTyped /\ FanTyped /\ CloseTyped
  BY DEF TypeInv
<1>b. UNCHANGED <<child, fanout>> /\ ends' = ends /\ world' = world
  BY DEF HostCancel, CloseSession, CloseStep, ListRunning, CloseCancel, CloseDone,
         DropHostCancel, DropClose, session
<1>c. EndInv' /\ FanTyped' /\ ChildTyped'
  BY <1>a, <1>b, TrackerFrame
<1>d. pc' = pc /\ cleaning' = cleaning
  BY <1>b DEF child, fanout
<1>e. ASSUME NEW p \in {"host", "close"}, NEW t \in Tasks, Free(p), TakeToken(p, t)
      PROVE  TrackerMove /\ FanFree'
  <2>1. /\ known' = known /\ cancellers' \subseteq cancellers /\ fired' \subseteq fired \cup {t}
        /\ toMark' = toMark /\ p \in Cancellers
        /\ cancelling' = cancelling \/ cancelling' = [cancelling EXCEPT ![p] = t]
    BY <1>e DEF TakeToken, Cancellers
  <2>2. TrackerMove
    BY <1>a, <1>b, <1>d, <1>e, <2>1 DEF TrackerMove, TrackerTyped
  <2>3. cancelling'["fan"] = cancelling["fan"]
    BY <1>a, <2>1, ProcFacts DEF TrackerTyped
  <2> QED BY <1>d, <2>1, <2>2, <2>3 DEF FanFree, Free
<1>f. ASSUME UNCHANGED tracker, fired' \subseteq Tasks PROVE TrackerMove /\ FanFree'
  <2>1. UNCHANGED <<record, known, cancellers, order, toMark, cancelling, unmarked>>
    BY <1>f DEF tracker
  <2> QED BY <1>a, <1>b, <1>d, <1>f, <2>1 DEF TrackerMove, TrackerTyped, FanFree, Free
<1>1. ASSUME NEW t \in Tasks, HostCancel(t)
      PROVE  TrackerMove /\ FanFree' /\ StreamTyped' /\ CloseTyped'
  <2>1. Free("host") /\ TakeToken("host", t)
        /\ UNCHANGED <<ends, closing, listed, toCancel>>
    BY <1>1 DEF HostCancel, session
  <2> QED BY <1>a, <1>e, <2>1 DEF StreamTyped, CloseTyped
<1>2. ASSUME NEW t \in Tasks, CloseCancel(t)
      PROVE  TrackerMove /\ FanFree' /\ StreamTyped' /\ CloseTyped'
  <2>1. Free("close") /\ TakeToken("close", t) /\ toCancel' = toCancel \ {t}
        /\ UNCHANGED <<ends, closing, listed>>
    BY <1>2 DEF CloseCancel
  <2> QED BY <1>a, <1>e, <2>1 DEF StreamTyped, CloseTyped
<1>3. ASSUME DropHostCancel \/ DropClose
      PROVE  TrackerMove /\ FanFree' /\ StreamTyped' /\ CloseTyped'
  <2>1. PICK p \in {"host", "close"} : Drop(p)
    BY <1>3 DEF DropHostCancel, DropClose
  <2>2. p \in Procs /\ p # "fan" /\ fired' = fired
    BY <1>3 DEF DropHostCancel, DropClose, Procs
  <2>3. /\ UNCHANGED <<known, cancellers>> /\ toMark'["fan"] = toMark["fan"]
        /\ cancelling'["fan"] = cancelling["fan"]
    BY <1>a, <2>1, <2>2, DropOne, ProcFacts
  <2>4. TrackerMove
    BY <1>a, <1>b, <2>1, <2>2, <2>3 DEF TrackerMove, TrackerTyped
  <2>5. FanFree'
    BY <1>d, <2>3 DEF FanFree, Free
  <2>6. StreamTyped' /\ CloseTyped'
    BY <1>a, <1>b, <1>3 DEF DropHostCancel, DropClose, StreamTyped, CloseTyped, session
  <2> QED BY <2>4, <2>5, <2>6
<1>4. ASSUME CloseSession \/ ListRunning \/ CloseDone
      PROVE  TrackerMove /\ FanFree' /\ StreamTyped' /\ CloseTyped'
  <2>1. UNCHANGED <<tracker, ends>>
    BY <1>4 DEF CloseSession, ListRunning, CloseDone
  <2>2. fired' \subseteq Tasks
    BY <1>a, <1>4 DEF CloseSession, ListRunning, CloseDone, TrackerTyped
  <2>3. CloseTyped'
    BY <1>a, <1>4 DEF CloseSession, ListRunning, CloseDone, CloseTyped, TrackerTyped
  <2>4. StreamTyped'
    BY <1>a, <2>1 DEF StreamTyped
  <2> QED BY <1>f, <2>1, <2>2, <2>3, <2>4
<1> QED BY <1>c, <1>1, <1>2, <1>3, <1>4 DEF CloseStep

(* The tool call of the fan-out is dropped. *)
LEMMA DropFanoutStep ==
  ASSUME TypeInv, EndInv, DropFanout
  PROVE  /\ TrackerMove /\ ChildTyped' /\ StreamTyped' /\ FanTyped' /\ CloseTyped'
         /\ FanFree' /\ EndInv'
<1>a. TrackerTyped /\ ChildTyped /\ StreamTyped /\ FanTyped /\ CloseTyped
  BY DEF TypeInv
<1>1. /\ Drop("fan") /\ fan' = "dropped" /\ todo' = {} /\ cleaning' = None
      /\ UNCHANGED <<fired, pc, outcome, started, ended, ends, active, results, abandoned>>
      /\ UNCHANGED <<closing, listed, toCancel, world>>
  BY DEF DropFanout, child, session
<1>2. Mode' = Mode /\ Fanned' = Fanned
  BY <1>1 DEF Mode, Fanned
<1>3. UNCHANGED <<known, cancellers>>
  BY <1>1 DEF Drop
<1>4. TrackerMove
  BY <1>a, <1>1, <1>3, ProcFacts DEF TrackerMove, TrackerTyped
<1>5. ChildTyped' /\ StreamTyped' /\ FanTyped' /\ CloseTyped'
  BY <1>a, <1>1, <1>2 DEF ChildTyped, StreamTyped, FanTyped, CloseTyped
<1>6. toMark'["fan"] = None /\ cancelling'["fan"] = None
  BY <1>a, <1>1, ProcFacts DEF Drop, TrackerTyped
<1>7. FanFree'
  BY <1>6 DEF FanFree, Free
<1>8. FanInv'
  BY <1>1 DEF FanInv
<1>9. ASSUME NEW t \in Tasks PROVE EndAt(t)'
  BY <1>1, <1>2 DEF EndInv, EndAt
<1> QED BY <1>4, <1>5, <1>7, <1>8, <1>9 DEF EndInv

-----------------------------------------------------------------------------
(* Theorems. *)

SubagentInv == TypeInv /\ QueueInv /\ FanFree /\ EndInv

LEMMA SubagentInit == Init => SubagentInv
<1> SUFFICES ASSUME Init PROVE SubagentInv
  OBVIOUS
<1>0. Cap \in Nat /\ Range(<<>>) = {}
  BY WorldsType DEF Init, Cap, Range
<1>1. TrackerTyped
  BY DEF Init, TrackerTyped, Statuses
<1>2. ChildTyped /\ StreamTyped
  BY DEF Init, ChildTyped, StreamTyped, Phases
<1>3. FanTyped /\ CloseTyped
  BY DEF Init, FanTyped, CloseTyped
<1>4. QueueInv
  <2>1. record = [t \in Tasks |-> "none"] /\ order = <<>> /\ toMark = [p \in Procs |-> None]
        /\ cancelling = [p \in Cancellers |-> None]
    BY DEF Init
  <2>2. Len(order) <= Cap /\ 1..Len(order) = {}
    BY <1>0, <2>1
  <2> QED BY <1>0, <2>1, <2>2, ProcFacts, StatusFacts DEF QueueInv
<1>5. FanFree
  BY ProcFacts DEF Init, FanFree, Free
<1>6. EndInv
  <2>1. \A t \in Tasks : EndAt(t)
    BY DEF Init, EndAt, Over
  <2>2. FanInv
    BY DEF Init, FanInv
  <2> QED BY <2>1, <2>2 DEF EndInv
<1> QED BY <1>1, <1>2, <1>3, <1>4, <1>5, <1>6 DEF SubagentInv, TypeInv

LEMMA SubagentStep == SubagentInv /\ [Next]_vars => SubagentInv'
<1> SUFFICES ASSUME SubagentInv, [Next]_vars PROVE SubagentInv'
  OBVIOUS
<1>a. TypeInv /\ QueueInv /\ FanFree /\ EndInv /\ TrackerTyped /\ ChildTyped /\ StreamTyped
      /\ FanTyped /\ CloseTyped
  BY DEF SubagentInv, TypeInv
<1>b. ASSUME TrackerMove, ChildTyped', StreamTyped', FanTyped', CloseTyped', FanFree', EndInv'
      PROVE  SubagentInv'
  BY <1>a, <1>b, QueueStep DEF SubagentInv, TypeInv
<1>1. ASSUME NEW p \in Procs, TrackerStep(p) PROVE SubagentInv'
  BY <1>a, <1>b, <1>1, TrackerSteps
<1>2. ASSUME NEW t \in Tasks, Child(t) PROVE SubagentInv'
  <2>1. FanTyped' /\ CloseTyped'
    BY <1>a, <1>2, ChildFrame DEF FanTyped, CloseTyped, Fanned, Mode
  <2>2. TrackerMove /\ toMark'["fan"] = toMark["fan"] /\ cancelling'["fan"] = cancelling["fan"]
    BY <1>a, <1>2, ChildTracker
  <2>3. FanFree'
    BY <1>a, <1>2, <2>2, ChildFrame DEF FanFree, Free
  <2>4. ChildTyped' /\ StreamTyped'
    BY <1>a, <1>2, ChildTypes
  <2>5. EndInv'
    BY <1>a, <1>2, ChildEnds
  <2> QED BY <1>b, <2>1, <2>2, <2>3, <2>4, <2>5
<1>3. ASSUME Fanout PROVE SubagentInv'
  <2>1. CloseTyped'
    BY <1>a, <1>3, FanFrame DEF CloseTyped
  <2> QED BY <1>a, <1>b, <1>3, <2>1, FanStep
<1>4. ASSUME \/ \E t \in Tasks : HostCancel(t)
             \/ CloseSession \/ CloseStep \/ DropHostCancel \/ DropClose
      PROVE  SubagentInv'
  BY <1>a, <1>b, <1>4, OtherSteps
<1>5. ASSUME DropFanout PROVE SubagentInv'
  BY <1>a, <1>b, <1>5, DropFanoutStep
<1>6. CASE UNCHANGED vars
  <2>1. UNCHANGED <<tracker, fired, child, ends, fanout, session>>
    BY <1>6 DEF vars
  <2>2. EndInv' /\ FanTyped' /\ ChildTyped'
    BY <1>a, <2>1, TrackerFrame DEF session
  <2>3. TrackerMove /\ StreamTyped' /\ CloseTyped' /\ FanFree'
    BY <1>a, <2>1 DEF tracker, child, fanout, session, TrackerMove, TrackerTyped,
                      StreamTyped, CloseTyped, FanFree, Free
  <2> QED BY <1>b, <2>2, <2>3
<1> QED BY <1>1, <1>2, <1>3, <1>4, <1>5, <1>6 DEF Next

LEMMA SubagentSafe == Spec => []SubagentInv
BY SubagentInit, SubagentStep, PTL DEF Spec

(* Every variable of the tracker, its children, the fan-out and the close  *)
(* stays in its type.                                                      *)
THEOREM SubagentsTyped == Spec => []TypeOK
<1>1. SubagentInv => TypeOK
  BY DEF SubagentInv, TypeInv, TrackerTyped, ChildTyped, StreamTyped, FanTyped, CloseTyped, TypeOK
<1> QED BY <1>1, SubagentSafe, PTL

(* No task with a running record is queued for eviction, or about to be,   *)
(* however starts, ends, cancellations and evictions interleave and        *)
(* whoever is dropped (record_event, cancel, mark_terminal_and_evict).     *)
THEOREM RunningNotQueuedAlways == Spec => []RunningNotQueued
<1>1. SubagentInv => RunningNotQueued
  BY ProcFacts, StatusFacts DEF SubagentInv, QueueInv, RunningNotQueued
<1> QED BY <1>1, SubagentSafe, PTL

(* The eviction queue respects max_terminal_tasks, and no terminal record  *)
(* escapes it but one whose child, canceller or fan-out was dropped        *)
(* between the two halves of its tracker operation.                        *)
THEOREM RetentionBoundedAlways == Spec => []RetentionBounded
<1>1. SubagentInv => RetentionBounded
  BY DEF SubagentInv, QueueInv, RetentionBounded
<1> QED BY <1>1, SubagentSafe, PTL

(* Subscribers see at most one end of a child that is not in the           *)
(* background, and exactly one for every abandoned branch that had         *)
(* started, when the fan-out returns.                                      *)
THEOREM OneAnnouncedEndAlways == Spec => []OneAnnouncedEnd
<1>1. SubagentInv => OneAnnouncedEnd
  <2> SUFFICES ASSUME SubagentInv PROVE OneAnnouncedEnd
    OBVIOUS
  <2>1. /\ \A t \in Tasks : EndAt(t) /\ FanInv
        /\ \A t \in abandoned : t \in Tasks /\ Mode[t] = "fanout"
        /\ ended \subseteq started
    BY DEF SubagentInv, EndInv, TypeInv, FanTyped, ChildTyped, Fanned
  <2>2. \A t \in Tasks : Mode[t] # "background" => ends[t] <= 1
    BY <2>1 DEF EndAt
  <2>3. ASSUME fan = "done", NEW t \in abandoned PROVE ends[t] = 1 <=> t \in started
    BY <2>1, <2>3 DEF EndAt, FanInv
  <2> QED BY <2>2, <2>3 DEF OneAnnouncedEnd
<1> QED BY <1>1, SubagentSafe, PTL

=============================================================================
