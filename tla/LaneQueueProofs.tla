-------------------------- MODULE LaneQueueProofs --------------------------
(***************************************************************************)
(* Proofs about LaneQueue, for any commands, lanes' modes, hosts and retry *)
(* limits: types, that a waiting command can always be answered, that      *)
(* shutdown leaves no external task behind, and that every announcement of *)
(* a task to the host is closed once.                                      *)
(***************************************************************************)
EXTENDS LaneQueue, FiniteSetTheorems, TLAPS

Phases == Running \cup {"new", "queued", "answered"}
Calls  == [task : Tasks, attempt : 1..MaxAttempts, ok : BOOLEAN,
           at : {"announce", "send"}]

\* A call of the host or of shutdown is never the absence of one.
LEMMA CallIsSome == None \notin Calls
BY NoneIsNoCall, LimitsNat DEF Calls

----------------------------------------------------------------------------
(* Types.                                                                  *)

LEMMA InitType == Init => TypeOK
BY LimitsNat DEF Init, TypeOK, Running, Closers

\* What every end of an attempt leaves well typed.
LEMMA AttemptEndsType ==
  ASSUME TypeOK, NEW t \in Tasks, NEW r \in {"ok", "err"}, AttemptEnds(t, r)
  PROVE  /\ phase' \in [Tasks -> Phases] /\ attempt' \in [Tasks -> 1..MaxAttempts]
         /\ answer' \in [Tasks -> {"empty", "ok", "err"}]
         /\ result' \in [Tasks -> {"none", "ok", "err", "abandoned"}]
BY LimitsNat DEF TypeOK, AttemptEnds, Goto, Phases

\* Steps of a command.
LEMMA CommandType ==
  ASSUME TypeOK, NEW t \in Tasks,
         Submit(t) \/ CommandStep(t) \/ LaneTimeout(t) \/ GiveUp(t)
  PROVE  TypeOK'
<1> USE DEF TypeOK, history, Goto, Phases, Running
<1>1. CASE Submit(t)
  <2>1. PICK m \in Modes[t] : mode' = [mode EXCEPT ![t] = m]
    BY <1>1 DEF Submit
  <2>2. m \in {"internal", "external", "hybrid"}
    BY ModesType
  <2>3. mode' \in [Tasks -> {"internal", "external", "hybrid"}]
    BY <2>1, <2>2
  <2> QED  BY <1>1, <2>3 DEF Submit
<1>2. CASE Execute(t)
  BY <1>2 DEF Execute
<1>3. CASE RunInternal(t)
  BY <1>3, AttemptEndsType DEF RunInternal
<1>4. CASE BeginHybrid(t)
  BY <1>4 DEF BeginHybrid
<1>5. CASE EndHybrid(t)
  BY <1>5, AttemptEndsType DEF EndHybrid
<1>6. CASE Register(t)
  <2>1. CASE shut # "open"
    BY <1>6, <2>1, AttemptEndsType DEF Register
  <2>2. CASE shut = "open"
    BY <1>6, <2>2, LimitsNat DEF Register
  <2> QED  BY <2>1, <2>2
<1>7. CASE AnnouncePending(t)
  BY <1>7 DEF AnnouncePending
<1>8. CASE Receive(t)
  <2>1. answer[t] \in {"ok", "err"}
    BY <1>8 DEF Receive
  <2> QED  BY <1>8, <2>1, AttemptEndsType DEF Receive
<1>9. CASE Expire(t)
  BY <1>9 DEF Expire
<1>10. CASE RemoveExpired(t)
  BY <1>10, AttemptEndsType, LimitsNat DEF RemoveExpired
<1>11. CASE LaneTimeout(t)
  BY <1>11, AttemptEndsType DEF LaneTimeout
<1>12. CASE GiveUp(t)
  BY <1>12 DEF GiveUp
<1> QED  BY <1>1, <1>2, <1>3, <1>4, <1>5, <1>6, <1>7, <1>8, <1>9, <1>10, <1>11,
            <1>12 DEF CommandStep

\* Steps of the host and of shutdown.
LEMMA CloserType ==
  ASSUME TypeOK,
         \/ \E h \in Hosts, t \in Tasks, ok \in BOOLEAN : Complete(h, t, ok)
         \/ \E c \in Closers : CloserStep(c)
         \/ SetFlag \/ ShutdownStep
  PROVE  TypeOK'
<1> USE DEF TypeOK, history, command
<1>1. ASSUME NEW h \in Hosts, NEW t \in Tasks, NEW ok \in BOOLEAN, Complete(h, t, ok)
      PROVE  TypeOK'
  BY <1>1, LimitsNat DEF Complete, Close, Closers
<1>2. ASSUME NEW c \in Closers, AnnounceCompleted(c)
      PROVE  TypeOK'
  BY <1>2 DEF AnnounceCompleted
<1>3. ASSUME NEW c \in Closers, SendResult(c)
      PROVE  TypeOK'
  BY <1>3 DEF SendResult
<1>4. CASE SetFlag
  BY <1>4 DEF SetFlag
<1>5. CASE ShutManager
  BY <1>5 DEF ShutManager
<1>6. CASE TakeAll
  BY <1>6, LimitsNat DEF TakeAll
<1>7. CASE CloseTaken
  BY <1>7 DEF CloseTaken, Closers
<1>8. CASE ShutdownReturns
  BY <1>8 DEF ShutdownReturns
<1> QED  BY <1>1, <1>2, <1>3, <1>4, <1>5, <1>6, <1>7, <1>8 DEF CloserStep, ShutdownStep

\* Every step keeps the types.
LEMMA NextType == TypeOK /\ [Next]_vars => TypeOK'
<1>1. TypeOK /\ UNCHANGED vars => TypeOK'
  BY DEF TypeOK, vars, command, history
<1> QED  BY <1>1, CommandType, CloserType DEF Next

----------------------------------------------------------------------------
(* Registration and answers.                                               *)

\* Shutdown holds entries it took only while it closes them.
NothingTaken == shut # "closing" => taken = {}

LEMMA NextTaken == NothingTaken /\ [Next]_vars => NothingTaken'
BY DEF NothingTaken, Next, vars, command, CommandStep, CloserStep, ShutdownStep,
   Submit, Execute, RunInternal, BeginHybrid, EndHybrid, Register,
   AnnouncePending, Receive, Expire, RemoveExpired, LaneTimeout, GiveUp,
   Complete, AnnounceCompleted, SendResult, SetFlag, ShutManager, TakeAll,
   CloseTaken, ShutdownReturns

\* Only an open queue takes an entry, so none is there once the map is taken.
LEMMA NextShut ==
  TypeOK /\ NothingRegisteredAfterShutdown /\ [Next]_vars
    => NothingRegisteredAfterShutdown'
<1> SUFFICES ASSUME TypeOK, NothingRegisteredAfterShutdown, [Next]_vars
             PROVE  NothingRegisteredAfterShutdown'
  OBVIOUS
<1>1. CASE TakeAll
  BY <1>1 DEF TakeAll, NothingRegisteredAfterShutdown
<1>2. ASSUME ~TakeAll
      PROVE  /\ shut' \in {"closing", "done"} => shut \in {"closing", "done"}
             /\ shut # "open" => \A t \in Tasks : entry'[t] \in {0, entry[t]}
  BY <1>2 DEF TypeOK, Next, vars, command, CommandStep, CloserStep, ShutdownStep,
     Submit, Execute, RunInternal, BeginHybrid, EndHybrid, Register,
     AnnouncePending, Receive, Expire, RemoveExpired, LaneTimeout, GiveUp,
     Complete, AnnounceCompleted, SendResult, SetFlag, ShutManager, CloseTaken,
     ShutdownReturns
<1> QED  BY <1>1, <1>2 DEF NothingRegisteredAfterShutdown

\* A command that waits in the next state, unanswered, did so before in the
\* same attempt or has just registered.
LEMMA CommandWaits ==
  ASSUME TypeOK, WaiterHasSender, NEW u \in Tasks,
         Submit(u) \/ CommandStep(u) \/ LaneTimeout(u) \/ GiveUp(u)
  PROVE  WaiterHasSender'
<1>1. UNCHANGED <<closer, taken>>
  BY DEF Submit, CommandStep, LaneTimeout, GiveUp, Execute, RunInternal,
     BeginHybrid, EndHybrid, Register, AnnouncePending, Receive, Expire,
     RemoveExpired
<1>2. \A t \in Tasks \ {u} :
        /\ phase'[t] = phase[t] /\ answer'[t] = answer[t]
        /\ attempt'[t] = attempt[t] /\ entry'[t] = entry[t]
  BY DEF TypeOK, Submit, CommandStep, LaneTimeout, GiveUp, Execute, RunInternal,
     BeginHybrid, EndHybrid, Register, AnnouncePending, Receive, Expire,
     RemoveExpired, AttemptEnds, Goto
<1>3. ASSUME phase'[u] \in {"announcing", "waiting"}, answer'[u] = "empty"
      PROVE  \/ entry'[u] = attempt'[u]
             \/ /\ phase[u] \in {"announcing", "waiting"} /\ answer[u] = "empty"
                /\ attempt'[u] = attempt[u] /\ entry'[u] = entry[u]
  BY <1>3 DEF TypeOK, Submit, CommandStep, LaneTimeout, GiveUp, Execute, RunInternal,
     BeginHybrid, EndHybrid, Register, AnnouncePending, Receive, Expire,
     RemoveExpired, AttemptEnds, Goto
<1> QED  BY <1>1, <1>2, <1>3 DEF WaiterHasSender

\* The sender of a waiting attempt passes from the map to the host's call or to
\* shutdown's list and on to its call, which sends.
LEMMA CloserWaits ==
  ASSUME TypeOK, NothingTaken, WaiterHasSender,
         \/ \E h \in Hosts, t \in Tasks, ok \in BOOLEAN : Complete(h, t, ok)
         \/ \E c \in Closers : CloserStep(c)
         \/ SetFlag \/ ShutdownStep
  PROVE  WaiterHasSender'
<1> USE CallIsSome DEF TypeOK, command, Calls
<1>1. ASSUME NEW h \in Hosts, NEW t \in Tasks, NEW ok \in BOOLEAN, Complete(h, t, ok)
      PROVE  WaiterHasSender'
  <2>1. /\ entry[t] \in 1..MaxAttempts /\ h \in Closers /\ closer[h] = None
        /\ closer' = [closer EXCEPT ![h] =
                        [task |-> t, attempt |-> entry[t], ok |-> ok, at |-> "announce"]]
        /\ entry' = [entry EXCEPT ![t] = 0]
        /\ UNCHANGED <<phase, attempt, answer, taken>>
    BY <1>1, LimitsNat DEF Complete, Close, Closers
  <2>2. closer'[h] \in Calls
    BY <2>1
  <2>3. /\ closer'[h] # None /\ closer'[h].task = t /\ closer'[h].attempt = entry[t]
        /\ \A c \in Closers : closer[c] # None => closer'[c] = closer[c]
    BY <2>1, <2>2
  <2> QED  BY <2>1, <2>3 DEF WaiterHasSender
<1>2. ASSUME NEW c \in Closers, AnnounceCompleted(c)
      PROVE  WaiterHasSender'
  <2>1. closer[c] \in Calls
    BY <1>2 DEF AnnounceCompleted
  <2>2. closer'[c] \in Calls /\ closer'[c].task = closer[c].task
        /\ closer'[c].attempt = closer[c].attempt
    BY <1>2, <2>1 DEF AnnounceCompleted
  <2>3. \A d \in Closers \ {c} : closer'[d] = closer[d]
    BY <1>2 DEF AnnounceCompleted
  <2> QED  BY <1>2, <2>2, <2>3 DEF AnnounceCompleted, WaiterHasSender
<1>3. ASSUME NEW c \in Closers, SendResult(c)
      PROVE  WaiterHasSender'
  <2>1. closer[c] \in Calls /\ closer[c].task \in Tasks
    BY <1>3 DEF SendResult
  <2>2. \A d \in Closers \ {c} : closer'[d] = closer[d]
    BY <1>3 DEF SendResult
  <2>3. \A t \in Tasks :
          /\ phase[t] \in {"announcing", "waiting"} /\ answer'[t] = "empty"
          => /\ answer[t] = "empty"
             /\ ~(closer[c].task = t /\ closer[c].attempt = attempt[t])
    BY <1>3, <2>1 DEF SendResult
  <2> QED  BY <1>3, <2>2, <2>3 DEF SendResult, WaiterHasSender
<1>4. CASE SetFlag \/ ShutManager \/ ShutdownReturns
  BY <1>4 DEF SetFlag, ShutManager, ShutdownReturns, WaiterHasSender
<1>5. CASE TakeAll
  <2>1. \A t \in Tasks : entry[t] = attempt[t] => <<t, attempt[t]>> \in taken'
    BY <1>5 DEF TakeAll
  <2>2. taken = {}
    BY <1>5 DEF TakeAll, NothingTaken
  <2> QED  BY <1>5, <2>1, <2>2 DEF TakeAll, WaiterHasSender
<1>6. CASE CloseTaken
  <2>1. PICK e \in taken :
          /\ closer' = [closer EXCEPT !["shutdown"] =
               [task |-> e[1], attempt |-> e[2], ok |-> FALSE, at |-> "announce"]]
          /\ taken' = taken \ {e}
    BY <1>6 DEF CloseTaken
  <2>2. /\ "shutdown" \in Closers /\ closer["shutdown"] = None
        /\ e[1] \in Tasks /\ e[2] \in 1..MaxAttempts /\ e = <<e[1], e[2]>>
    BY <1>6 DEF CloseTaken, Closers
  <2>3. closer'["shutdown"] \in Calls
    BY <2>1, <2>2
  <2>4. /\ closer'["shutdown"] # None
        /\ closer'["shutdown"].task = e[1] /\ closer'["shutdown"].attempt = e[2]
        /\ \A c \in Closers : closer[c] # None => closer'[c] = closer[c]
    BY <2>1, <2>2, <2>3
  <2> QED  BY <1>6, <2>1, <2>2, <2>4 DEF CloseTaken, WaiterHasSender
<1> QED  BY <1>1, <1>2, <1>3, <1>4, <1>5, <1>6 DEF CloserStep, ShutdownStep

----------------------------------------------------------------------------
(* Announcements.                                                          *)

\* The two sets that BeingClosed counts.
Announcing(t) == {c \in Closers : closer[c] # None /\ closer[c].task = t
                                   /\ closer[c].at = "announce"}
TakenOf(t) == {e \in taken : e[1] = t}

\* They are finite.
LEMMA Counted ==
  ASSUME TypeOK, NEW t \in Tasks
  PROVE  /\ IsFiniteSet(Announcing(t)) /\ IsFiniteSet(TakenOf(t))
         /\ Cardinality(Announcing(t)) \in Nat /\ Cardinality(TakenOf(t)) \in Nat
         /\ BeingClosed(t) = Cardinality(Announcing(t)) + Cardinality(TakenOf(t))
         /\ BeingClosed(t)' = Cardinality(Announcing(t)') + Cardinality(TakenOf(t)')
<1>1. IsFiniteSet(Closers)
  BY HostsFinite, FS_Singleton, FS_Union DEF Closers
<1>2. IsFiniteSet(1..MaxAttempts)
  BY LimitsNat, FS_Interval
<1>3. IsFiniteSet(Tasks \X (1..MaxAttempts))
  BY TasksFinite, <1>2, FS_Product
<1>4. Announcing(t) \subseteq Closers /\ TakenOf(t) \subseteq Tasks \X (1..MaxAttempts)
  BY DEF TypeOK, Announcing, TakenOf
<1>5. IsFiniteSet(Announcing(t)) /\ IsFiniteSet(TakenOf(t))
  BY <1>1, <1>3, <1>4, FS_Subset
<1> QED  BY <1>5, FS_CardinalityType DEF BeingClosed, Announcing, TakenOf

\* The announcements of task t that are open, of which the map, a hybrid
\* execution and a lost one account for one each.
InMap(t)    == IF entry[t] # 0 THEN 1 ELSE 0
InHybrid(t) == IF phase[t] = "hybrid" THEN 1 ELSE 0
Coming(t)   == IF phase[t] = "announcing" THEN 1 ELSE 0

Balanced(t) ==
  opened[t] + Coming(t)
    = closed[t] + lost[t] + BeingClosed(t) + InMap(t) + InHybrid(t)

\* The property in these terms.
LEMMA PairedIsBalanced ==
  /\ AnnouncementsPaired <=> \A t \in Tasks : Balanced(t)
  /\ AnnouncementsPaired' <=> \A t \in Tasks : Balanced(t)'
BY DEF AnnouncementsPaired, Balanced, Coming, InMap, InHybrid

\* Steps of a command move an announcement between these.
LEMMA CommandPaired ==
  ASSUME TypeOK, AnnouncementsPaired, NEW u \in Tasks,
         Submit(u) \/ CommandStep(u) \/ LaneTimeout(u) \/ GiveUp(u)
  PROVE  AnnouncementsPaired'
<1> DEFINE Same(t) == /\ entry'[t] = entry[t] /\ opened'[t] = opened[t]
                      /\ closed'[t] = closed[t] /\ lost'[t] = lost[t]
<1>1. UNCHANGED <<closer, taken>>
  BY DEF Submit, CommandStep, LaneTimeout, GiveUp, Execute, RunInternal,
     BeginHybrid, EndHybrid, Register, AnnouncePending, Receive, Expire,
     RemoveExpired
<1>2. \A t \in Tasks : BeingClosed(t)' = BeingClosed(t) /\ BeingClosed(t) \in Nat
  <2>1. \A t \in Tasks : BeingClosed(t)' = BeingClosed(t)
    BY <1>1 DEF BeingClosed
  <2>2. \A t \in Tasks : BeingClosed(t) \in Nat
    BY Counted
  <2> QED  BY <2>1, <2>2
<1>3. \A t \in Tasks \ {u} : Same(t) /\ phase'[t] = phase[t]
  BY DEF TypeOK, history, Submit, CommandStep, LaneTimeout, GiveUp, Execute,
     RunInternal, BeginHybrid, EndHybrid, Register, AnnouncePending, Receive,
     Expire, RemoveExpired, AttemptEnds, Goto
<1>4. opened'[u] + Coming(u)' + closed[u] + lost[u] + InMap(u) + InHybrid(u)
        = opened[u] + Coming(u) + closed'[u] + lost'[u] + InMap(u)' + InHybrid(u)'
  <2> USE DEF TypeOK, history, Goto, Coming, InMap, InHybrid
  <2>1. CASE \/ Submit(u) \/ Execute(u) \/ RunInternal(u) \/ Receive(u) \/ Expire(u)
             \/ GiveUp(u)
    BY <2>1 DEF Submit, Execute, RunInternal, Receive, Expire, GiveUp, AttemptEnds
  <2>2. CASE BeginHybrid(u) \/ EndHybrid(u)
    BY <2>2 DEF BeginHybrid, EndHybrid, AttemptEnds
  <2>3. CASE Register(u)
    BY <2>3, LimitsNat DEF Register, AttemptEnds
  <2>4. CASE AnnouncePending(u)
    BY <2>4 DEF AnnouncePending
  <2>5. CASE RemoveExpired(u)
    BY <2>5 DEF RemoveExpired, AttemptEnds
  <2>6. CASE LaneTimeout(u)
    BY <2>6 DEF LaneTimeout, AttemptEnds
  <2> QED  BY <2>1, <2>2, <2>3, <2>4, <2>5, <2>6 DEF CommandStep
<1>5. TypeOK'
  BY CommandType
<1>6. Balanced(u)'
  <2>1. Balanced(u)
    BY PairedIsBalanced
  <2>2. /\ {opened[u], closed[u], lost[u], opened'[u], closed'[u], lost'[u]} \subseteq Nat
        /\ {Coming(u), InMap(u), InHybrid(u)} \subseteq Nat
        /\ {Coming(u)', InMap(u)', InHybrid(u)'} \subseteq Nat
    BY <1>5 DEF TypeOK, Coming, InMap, InHybrid
  <2> QED  BY <1>2, <1>4, <2>1, <2>2 DEF Balanced
<1>7. \A t \in Tasks \ {u} : Balanced(t)'
  BY <1>2, <1>3, PairedIsBalanced DEF Balanced, Coming, InMap, InHybrid
<1> QED  BY <1>6, <1>7, PairedIsBalanced

\* A host's completion takes an entry out of the map.
LEMMA CompletePaired ==
  ASSUME TypeOK, AnnouncementsPaired, NEW h \in Hosts, NEW u \in Tasks,
         NEW ok \in BOOLEAN, Complete(h, u, ok)
  PROVE  AnnouncementsPaired'
<1> USE CallIsSome DEF Calls
<1>1. /\ entry[u] \in 1..MaxAttempts /\ h \in Closers /\ closer[h] = None
      /\ closer' = [closer EXCEPT ![h] =
                      [task |-> u, attempt |-> entry[u], ok |-> ok, at |-> "announce"]]
      /\ entry' = [entry EXCEPT ![u] = 0]
      /\ UNCHANGED <<phase, taken, opened, closed, lost>>
  BY LimitsNat DEF TypeOK, Complete, Close, Closers, command, history
<1>3. closer'[h] \in Calls /\ closer'[h] # None
  BY <1>1 DEF TypeOK
<1>4. \A c \in Closers \ {h} : closer'[c] = closer[c]
  BY <1>1 DEF TypeOK
<1>5. h \notin Announcing(u) /\ Announcing(u)' = Announcing(u) \cup {h}
  BY <1>1, <1>3, <1>4 DEF TypeOK, Announcing
<1>6. \A t \in Tasks \ {u} : Announcing(t)' = Announcing(t)
  BY <1>1, <1>3, <1>4 DEF TypeOK, Announcing
<1>7. \A t \in Tasks : TakenOf(t)' = TakenOf(t)
  BY <1>1 DEF TakenOf
<1>8. BeingClosed(u)' = BeingClosed(u) + 1 /\ BeingClosed(u) \in Nat
  <2>1. Cardinality(Announcing(u)') = Cardinality(Announcing(u)) + 1
    BY <1>5, Counted, FS_AddElement
  <2> QED  BY <1>7, <2>1, Counted
<1>9. \A t \in Tasks \ {u} : BeingClosed(t)' = BeingClosed(t)
  BY <1>6, <1>7, Counted
<1>10. Balanced(u)'
  BY <1>1, <1>8, PairedIsBalanced DEF Balanced, Coming, InMap, InHybrid, TypeOK
<1>11. \A t \in Tasks \ {u} : Balanced(t)'
  BY <1>1, <1>9, PairedIsBalanced DEF Balanced, Coming, InMap, InHybrid, TypeOK
<1> QED  BY <1>10, <1>11, PairedIsBalanced

\* Its event closes the announcement.
LEMMA AnnouncePaired ==
  ASSUME TypeOK, AnnouncementsPaired, NEW c \in Closers, AnnounceCompleted(c)
  PROVE  AnnouncementsPaired'
<1> USE CallIsSome DEF Calls
<1>u. PICK u \in Tasks : u = closer[c].task
  BY DEF TypeOK, AnnounceCompleted
<1>1. closer[c] \in Calls /\ closer[c].task = u /\ closer[c].at = "announce"
  BY <1>u DEF TypeOK, AnnounceCompleted
<1>2. /\ closer' = [closer EXCEPT ![c] = [closer[c] EXCEPT !.at = "send"]]
      /\ closed' = [closed EXCEPT ![u] = @ + 1]
      /\ UNCHANGED <<phase, entry, taken, opened, lost>>
  BY <1>u DEF AnnounceCompleted, command, history
<1>3. closer'[c].at = "send" /\ \A d \in Closers \ {c} : closer'[d] = closer[d]
  BY <1>1, <1>2 DEF TypeOK
<1>4. c \in Announcing(u) /\ Announcing(u)' = Announcing(u) \ {c}
  BY <1>1, <1>2, <1>3 DEF Announcing
<1>5. \A t \in Tasks \ {u} : Announcing(t)' = Announcing(t)
  BY <1>1, <1>2, <1>3 DEF Announcing
<1>6. \A t \in Tasks : TakenOf(t)' = TakenOf(t)
  BY <1>2 DEF TakenOf
<1>7. BeingClosed(u)' = BeingClosed(u) - 1 /\ BeingClosed(u) \in Nat
  <2>1. Cardinality(Announcing(u)') = Cardinality(Announcing(u)) - 1
    BY <1>1, <1>4, Counted, FS_RemoveElement
  <2> QED  BY <1>6, <2>1, Counted
<1>8. \A t \in Tasks \ {u} : BeingClosed(t)' = BeingClosed(t)
  BY <1>5, <1>6, Counted
<1>9. Balanced(u)'
  BY <1>1, <1>2, <1>7, PairedIsBalanced DEF Balanced, Coming, InMap, InHybrid, TypeOK
<1>10. \A t \in Tasks \ {u} : Balanced(t)'
  BY <1>1, <1>2, <1>8, PairedIsBalanced DEF Balanced, Coming, InMap, InHybrid, TypeOK
<1> QED  BY <1>9, <1>10, PairedIsBalanced

\* Sending the result and the steps of shutdown that only set its phase leave
\* the announcements alone.
LEMMA IdlePaired ==
  ASSUME TypeOK, AnnouncementsPaired, NEW c \in Closers,
         \/ SendResult(c) \/ SetFlag \/ ShutManager \/ ShutdownReturns \/ UNCHANGED vars
  PROVE  AnnouncementsPaired'
<1>1. UNCHANGED <<phase, entry, taken, opened, closed, lost>>
  BY DEF SendResult, SetFlag, ShutManager, ShutdownReturns, vars, command, history
<1>2. \A t \in Tasks : Announcing(t)' = Announcing(t)
  <2>1. CASE SendResult(c)
    <3>1. closer[c] # None /\ closer[c].at = "send" /\ closer'[c] = None
      BY <2>1 DEF SendResult, TypeOK
    <3>2. \A d \in Closers \ {c} : closer'[d] = closer[d]
      BY <2>1 DEF SendResult, TypeOK
    <3> QED  BY <3>1, <3>2 DEF Announcing
  <2>2. CASE closer' = closer
    BY <2>2 DEF Announcing
  <2> QED  BY <2>1, <2>2 DEF SetFlag, ShutManager, ShutdownReturns, vars
<1>3. \A t \in Tasks : TakenOf(t)' = TakenOf(t)
  BY <1>1 DEF TakenOf
<1>4. \A t \in Tasks : BeingClosed(t)' = BeingClosed(t)
  BY <1>2, <1>3, Counted
<1>5. \A t \in Tasks : Balanced(t)'
  BY <1>1, <1>4, PairedIsBalanced DEF Balanced, Coming, InMap, InHybrid
<1> QED  BY <1>5, PairedIsBalanced

\* Shutdown takes the whole map into its list,
LEMMA TakePaired ==
  ASSUME TypeOK, NothingTaken, AnnouncementsPaired, TakeAll
  PROVE  AnnouncementsPaired'
<1>1. /\ taken = {} /\ entry' = [t \in Tasks |-> 0]
      /\ taken' = {<<t, entry[t]>> : t \in {u \in Tasks : entry[u] # 0}}
      /\ UNCHANGED <<phase, closer, opened, closed, lost>>
  BY DEF TakeAll, NothingTaken, command, history
<1>2. SUFFICES ASSUME NEW t \in Tasks  PROVE Balanced(t)'
  BY PairedIsBalanced
<1>3. TakenOf(t) = {} /\ Announcing(t)' = Announcing(t)
  BY <1>1 DEF TakenOf, Announcing
<1>4. BeingClosed(t) = Cardinality(Announcing(t)) /\ BeingClosed(t) \in Nat
  BY <1>3, Counted, FS_EmptySet
<1>5. CASE entry[t] = 0
  <2>1. TakenOf(t)' = {}
    BY <1>1, <1>5 DEF TakenOf
  <2>2. BeingClosed(t)' = BeingClosed(t)
    BY <1>3, <1>4, <2>1, Counted, FS_EmptySet
  <2> QED  BY <1>1, <1>5, <2>2, PairedIsBalanced DEF Balanced, Coming, InMap, InHybrid
<1>6. CASE entry[t] # 0
  <2>1. TakenOf(t)' = {<<t, entry[t]>>}
    BY <1>1, <1>6 DEF TakenOf
  <2>2. BeingClosed(t)' = BeingClosed(t) + 1
    BY <1>3, <1>4, <2>1, Counted, FS_Singleton
  <2> QED  BY <1>1, <1>4, <1>6, <2>2, PairedIsBalanced
           DEF Balanced, Coming, InMap, InHybrid, TypeOK
<1> QED  BY <1>5, <1>6

\* and closes one after the other.
LEMMA CloseTakenPaired ==
  ASSUME TypeOK, AnnouncementsPaired, CloseTaken
  PROVE  AnnouncementsPaired'
<1> USE CallIsSome DEF Calls
<1>1. PICK e \in taken :
        /\ closer' = [closer EXCEPT !["shutdown"] =
             [task |-> e[1], attempt |-> e[2], ok |-> FALSE, at |-> "announce"]]
        /\ taken' = taken \ {e}
  BY DEF CloseTaken
<1>2. /\ "shutdown" \in Closers /\ closer["shutdown"] = None
      /\ e[1] \in Tasks /\ e[2] \in 1..MaxAttempts
      /\ UNCHANGED <<phase, entry, opened, closed, lost>>
  BY DEF CloseTaken, Closers, TypeOK, command, history
<1>3. closer'["shutdown"] \in Calls /\ closer'["shutdown"] # None
  <2>1. [task |-> e[1], attempt |-> e[2], ok |-> FALSE, at |-> "announce"] \in Calls
    BY <1>2
  <2>2. closer'["shutdown"] = [task |-> e[1], attempt |-> e[2], ok |-> FALSE, at |-> "announce"]
    BY <1>1, <1>2 DEF TypeOK
  <2> QED  BY <2>1, <2>2
<1>4. \A c \in Closers \ {"shutdown"} : closer'[c] = closer[c]
  BY <1>1 DEF TypeOK
<1>u. PICK u \in Tasks : u = e[1]
  BY <1>2
<1>5. "shutdown" \notin Announcing(u) /\ Announcing(u)' = Announcing(u) \cup {"shutdown"}
  BY <1>1, <1>2, <1>3, <1>4, <1>u DEF Announcing, TypeOK
<1>6. e \in TakenOf(u) /\ TakenOf(u)' = TakenOf(u) \ {e}
  BY <1>1, <1>u DEF TakenOf
<1>7. \A t \in Tasks \ {u} : Announcing(t)' = Announcing(t) /\ TakenOf(t)' = TakenOf(t)
  BY <1>1, <1>2, <1>3, <1>4, <1>u DEF Announcing, TakenOf, TypeOK
<1>8. BeingClosed(u)' = BeingClosed(u)
  <2>1. Cardinality(Announcing(u)') = Cardinality(Announcing(u)) + 1
    BY <1>2, <1>5, Counted, FS_AddElement
  <2>2. Cardinality(TakenOf(u)') = Cardinality(TakenOf(u)) - 1
    BY <1>2, <1>6, Counted, FS_RemoveElement
  <2> QED  BY <1>2, <2>1, <2>2, Counted
<1>9. \A t \in Tasks : BeingClosed(t)' = BeingClosed(t)
  BY <1>7, <1>8, Counted
<1>10. \A t \in Tasks : Balanced(t)'
  BY <1>2, <1>9, PairedIsBalanced DEF Balanced, Coming, InMap, InHybrid
<1> QED  BY <1>10, PairedIsBalanced

----------------------------------------------------------------------------
(* The inductive invariant.                                                *)

Inv ==
  /\ TypeOK /\ NothingTaken
  /\ NothingRegisteredAfterShutdown
  /\ WaiterHasSender
  /\ AnnouncementsPaired

LEMMA InitInv == Init => Inv
<1> SUFFICES ASSUME Init  PROVE Inv
  OBVIOUS
<1>1. TypeOK
  BY InitType
<1>2. \A t \in Tasks : Announcing(t) = {} /\ TakenOf(t) = {}
  BY DEF Init, Announcing, TakenOf
<1>3. \A t \in Tasks : BeingClosed(t) = 0
  BY <1>1, <1>2, Counted, FS_EmptySet
<1>4. \A t \in Tasks : Balanced(t)
  BY <1>3 DEF Init, Balanced, Coming, InMap, InHybrid
<1>5. WaiterHasSender /\ NothingTaken /\ NothingRegisteredAfterShutdown
  BY DEF Init, WaiterHasSender, NothingTaken, NothingRegisteredAfterShutdown
<1> QED  BY <1>1, <1>4, <1>5, PairedIsBalanced DEF Inv

\* Every step keeps a sender for each waiting command.
LEMMA NextWaits == Inv /\ [Next]_vars => WaiterHasSender'
<1>1. WaiterHasSender /\ UNCHANGED vars => WaiterHasSender'
  BY DEF WaiterHasSender, vars, command
<1> QED  BY <1>1, CommandWaits, CloserWaits DEF Inv, Next

\* Every step keeps the announcements balanced.
LEMMA NextPaired == Inv /\ [Next]_vars => AnnouncementsPaired'
<1> SUFFICES ASSUME Inv, [Next]_vars  PROVE AnnouncementsPaired'
  OBVIOUS
<1>1. "shutdown" \in Closers
  BY DEF Closers
<1>2. CASE \E t \in Tasks : Submit(t) \/ CommandStep(t) \/ LaneTimeout(t) \/ GiveUp(t)
  BY <1>2, CommandPaired DEF Inv
<1>3. CASE \E h \in Hosts, t \in Tasks, ok \in BOOLEAN : Complete(h, t, ok)
  BY <1>3, CompletePaired DEF Inv
<1>4. CASE \E c \in Closers : CloserStep(c)
  BY <1>4, AnnouncePaired, IdlePaired DEF Inv, CloserStep
<1>5. CASE TakeAll \/ CloseTaken
  BY <1>5, TakePaired, CloseTakenPaired DEF Inv
<1>6. CASE SetFlag \/ ShutManager \/ ShutdownReturns \/ UNCHANGED vars
  BY <1>1, <1>6, IdlePaired DEF Inv
<1> QED  BY <1>2, <1>3, <1>4, <1>5, <1>6 DEF Next, ShutdownStep

LEMMA NextInv == Inv /\ [Next]_vars => Inv'
BY NextType, NextTaken, NextShut, NextWaits, NextPaired DEF Inv

\* The types of the lane queue's state.
THEOREM LaneTypes == Spec => []TypeOK
<1>1. Inv => TypeOK
  BY DEF Inv
<1> QED  BY InitInv, NextInv, <1>1, PTL DEF Spec

\* Once shutdown has taken the map of external tasks, no command's
\* register_and_wait puts another one in.
THEOREM NothingRegisteredAlways == Spec => []NothingRegisteredAfterShutdown
<1>1. Inv => NothingRegisteredAfterShutdown
  BY DEF Inv
<1> QED  BY InitInv, NextInv, <1>1, PTL DEF Spec

\* A command waiting for the host still has a sender: in the map, in
\* shutdown's list or with the call that removed it, across retries.
THEOREM WaiterHasSenderAlways == Spec => []WaiterHasSender
<1>1. Inv => WaiterHasSender
  BY DEF Inv
<1> QED  BY InitInv, NextInv, <1>1, PTL DEF Spec

\* Every ExternalTaskPending event is matched by one ExternalTaskCompleted
\* event, come or coming, but for the attempts a lane timeout dropped.
THEOREM AnnouncementsPairedAlways == Spec => []AnnouncementsPaired
<1>1. Inv => AnnouncementsPaired
  BY DEF Inv
<1> QED  BY InitInv, NextInv, <1>1, PTL DEF Spec

=============================================================================
