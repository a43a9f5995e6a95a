----------------------------- MODULE LaneQueue -----------------------------
(***************************************************************************)
(* The session lane queue of core/src/session_lane_queue.rs: commands that *)
(* a lane runs itself, hands to the host (an external task) or runs while  *)
(* the host is told (hybrid), with the host's completions, both timeouts,  *)
(* retries and shutdown.                                                   *)
(*                                                                         *)
(* The map of external tasks has a lock of its own, held only for one      *)
(* insertion or removal.  Whoever removes an entry emits its completion    *)
(* event and then sends the result, on another thread than the command     *)
(* that waits, so those are steps of their own.                            *)
(*                                                                         *)
(* The lanes themselves are the library a3s-lane: it starts a queued       *)
(* command when a slot is free, drops an execution that outlasts the       *)
(* lane's timeout, retries a failed one and refuses commands once shut     *)
(* down.                                                                   *)
(***************************************************************************)
EXTENDS Integers, FiniteSets

CONSTANTS Tasks,        \* submitted commands; the task id is the same for each attempt
          Modes,        \* handler modes a command's lane may be set to
          Slots,        \* max_concurrency
          MaxAttempts,  \* attempts the retry policy allows
          Hosts,        \* concurrent calls of complete_external_task
          None

ASSUME ModesType == Modes \in [Tasks -> SUBSET {"internal", "external", "hybrid"}]
ASSUME LimitsNat == Slots \in Nat \ {0} /\ MaxAttempts \in Nat \ {0}
ASSUME TasksFinite == IsFiniteSet(Tasks)
ASSUME HostsFinite == IsFiniteSet(Hosts) /\ "shutdown" \notin Hosts
ASSUME NoneIsNoCall ==
  None \notin [task : Tasks, attempt : Nat, ok : BOOLEAN, at : {"announce", "send"}]

VARIABLES
  mode,      \* handler mode of the command's lane when it was submitted
  phase,     \* where a command is
  attempt,   \* its current attempt
  entry,     \* external_tasks: the attempt whose sender is in the map, or 0
  answer,    \* what the current attempt's channel holds
  result,    \* what the submitter got
  closer,    \* a host call or shutdown between its removal and its send
  taken,     \* entries shutdown took out of the map and has not closed
  shut,      \* phase of shutdown
  opened,    \* history: ExternalTaskPending events of a task
  closed,    \* history: ExternalTaskCompleted events of a task
  lost       \* history: announced attempts nobody will close

command == <<mode, phase, attempt, answer, result>>
history == <<opened, closed, lost>>
vars    == <<command, entry, closer, taken, shut, history>>

Closers == Hosts \cup {"shutdown"}
Running == {"started", "announcing", "waiting", "expired", "hybrid"}

Active == {t \in Tasks : phase[t] \in Running}
Goto(t, p) == phase' = [phase EXCEPT ![t] = p]

\* An attempt is over: the command is answered, or a failed one is queued
\* again while the retry policy allows.
AttemptEnds(t, r) ==
  /\ answer' = [answer EXCEPT ![t] = "empty"]
  /\ \/ /\ Goto(t, "answered")
        /\ result' = [result EXCEPT ![t] = IF @ = "none" THEN r ELSE @]
        /\ UNCHANGED attempt
     \/ /\ r = "err" /\ attempt[t] < MaxAttempts
        /\ Goto(t, "queued")
        /\ attempt' = [attempt EXCEPT ![t] = @ + 1]
        /\ UNCHANGED result

----------------------------------------------------------------------------
(* Commands.                                                               *)

\* submit: the command keeps the mode its lane has now, whatever
\* set_lane_handler does later.  A manager that is shut down refuses it.
Submit(t) ==
  /\ phase[t] = "new"
  /\ \E m \in Modes[t] : mode' = [mode EXCEPT ![t] = m]
  /\ IF shut \in {"open", "flagged"}
     THEN Goto(t, "queued") /\ UNCHANGED result
     ELSE Goto(t, "answered") /\ result' = [result EXCEPT ![t] = "err"]
  /\ UNCHANGED <<attempt, answer, entry, closer, taken, shut, history>>

\* The lane starts a queued command.
Execute(t) ==
  /\ phase[t] = "queued" /\ Cardinality(Active) < Slots
  /\ Goto(t, "started")
  /\ UNCHANGED <<mode, attempt, answer, result, entry, closer, taken, shut, history>>

RunInternal(t) ==
  /\ mode[t] = "internal" /\ phase[t] = "started"
  /\ \E r \in {"ok", "err"} : AttemptEnds(t, r)
  /\ UNCHANGED <<mode, entry, closer, taken, shut, history>>

\* execute_with_notification.
BeginHybrid(t) ==
  /\ mode[t] = "hybrid" /\ phase[t] = "started"
  /\ Goto(t, "hybrid")
  /\ opened' = [opened EXCEPT ![t] = @ + 1]
  /\ UNCHANGED <<mode, attempt, answer, result, entry, closer, taken, shut, closed, lost>>

EndHybrid(t) ==
  /\ phase[t] = "hybrid"
  /\ closed' = [closed EXCEPT ![t] = @ + 1]
  /\ \E r \in {"ok", "err"} : AttemptEnds(t, r)
  /\ UNCHANGED <<mode, entry, closer, taken, shut, opened, lost>>

\* Fault: the flag is not read under the map's lock.
RegisterUnchecked(t) ==
  /\ mode[t] = "external" /\ phase[t] = "started"
  /\ entry' = [entry EXCEPT ![t] = attempt[t]]
  /\ lost' = IF entry[t] # 0 THEN [lost EXCEPT ![t] = @ + 1] ELSE lost
  /\ Goto(t, "announcing")
  /\ UNCHANGED <<mode, attempt, answer, result, closer, taken, shut, opened, closed>>

\* Fault: a retry finds its id in the map and keeps the old sender.
RegisterOnce(t) ==
  /\ mode[t] = "external" /\ phase[t] = "started"
  /\ IF shut # "open"
     THEN AttemptEnds(t, "err") /\ UNCHANGED <<entry, lost>>
     ELSE /\ entry' = [entry EXCEPT ![t] = IF @ # 0 THEN @ ELSE attempt[t]]
          /\ lost' = IF entry[t] # 0 THEN [lost EXCEPT ![t] = @ + 1] ELSE lost
          /\ Goto(t, "announcing")
          /\ UNCHANGED <<attempt, answer, result>>
  /\ UNCHANGED <<mode, closer, taken, shut, opened, closed>>

\* register_and_wait: under the map's lock, refused while shutting down.  A
\* retry takes the place of an entry an earlier attempt left behind.
Register(t) ==
  /\ mode[t] = "external" /\ phase[t] = "started"
  /\ IF shut # "open"
     THEN AttemptEnds(t, "err") /\ UNCHANGED <<entry, lost>>
     ELSE /\ entry' = [entry EXCEPT ![t] = attempt[t]]
          /\ lost' = IF entry[t] # 0 THEN [lost EXCEPT ![t] = @ + 1] ELSE lost
          /\ Goto(t, "announcing")
          /\ UNCHANGED <<attempt, answer, result>>
  /\ UNCHANGED <<mode, closer, taken, shut, opened, closed>>

AnnouncePending(t) ==
  /\ phase[t] = "announcing"
  /\ opened' = [opened EXCEPT ![t] = @ + 1]
  /\ Goto(t, "waiting")
  /\ UNCHANGED <<mode, attempt, answer, result, entry, closer, taken, shut, closed, lost>>

\* The result arrives in time.
Receive(t) ==
  /\ phase[t] = "waiting" /\ answer[t] # "empty"
  /\ AttemptEnds(t, answer[t])
  /\ UNCHANGED <<mode, entry, closer, taken, shut, history>>

\* The handler's timeout fires on an empty channel; nothing is received after.
Expire(t) ==
  /\ phase[t] = "waiting" /\ answer[t] = "empty"
  /\ Goto(t, "expired")
  /\ UNCHANGED <<mode, attempt, answer, result, entry, closer, taken, shut, history>>

\* Fault: the timeout announces an end whoever removed the entry.
RemoveExpiredAnyway(t) ==
  /\ phase[t] = "expired"
  /\ entry' = [entry EXCEPT ![t] = 0]
  /\ closed' = [closed EXCEPT ![t] = @ + 1]
  /\ AttemptEnds(t, "err")
  /\ UNCHANGED <<mode, closer, taken, shut, opened, lost>>

\* Fault: without an entry the timeout leaves the answer to who removed it.
RemoveOwnExpired(t) ==
  /\ phase[t] = "expired" /\ entry[t] # 0
  /\ entry' = [entry EXCEPT ![t] = 0]
  /\ closed' = [closed EXCEPT ![t] = @ + 1]
  /\ AttemptEnds(t, "err")
  /\ UNCHANGED <<mode, closer, taken, shut, opened, lost>>

\* Only who removes the entry announces its end.
RemoveExpired(t) ==
  /\ phase[t] = "expired"
  /\ entry' = [entry EXCEPT ![t] = 0]
  /\ closed' = IF entry[t] # 0 THEN [closed EXCEPT ![t] = @ + 1] ELSE closed
  /\ AttemptEnds(t, "err")
  /\ UNCHANGED <<mode, closer, taken, shut, opened, lost>>

\* The lane's own timeout drops the execution at an await: an external entry
\* stays in the map, a hybrid announcement stays open.
LaneTimeout(t) ==
  /\ phase[t] \in {"started", "waiting", "expired", "hybrid"}
  /\ lost' = IF phase[t] = "hybrid" THEN [lost EXCEPT ![t] = @ + 1] ELSE lost
  /\ AttemptEnds(t, "err")
  /\ UNCHANGED <<mode, entry, closer, taken, shut, opened, closed>>

\* The caller's invocation is cancelled; the command goes on without it.
GiveUp(t) ==
  /\ phase[t] # "new" /\ result[t] = "none"
  /\ result' = [result EXCEPT ![t] = "abandoned"]
  /\ UNCHANGED <<mode, phase, attempt, answer, entry, closer, taken, shut, history>>

----------------------------------------------------------------------------
(* Completion by the host and shutdown.                                    *)

Close(c, t, ok) ==
  closer' = [closer EXCEPT ![c] =
               [task |-> t, attempt |-> entry[t], ok |-> ok, at |-> "announce"]]

\* complete_external_task: without an entry it returns false and does nothing.
Complete(h, t, ok) ==
  /\ closer[h] = None /\ entry[t] # 0
  /\ Close(h, t, ok)
  /\ entry' = [entry EXCEPT ![t] = 0]
  /\ UNCHANGED <<command, taken, shut, history>>

AnnounceCompleted(c) ==
  /\ closer[c] # None /\ closer[c].at = "announce"
  /\ closed' = [closed EXCEPT ![closer[c].task] = @ + 1]
  /\ closer' = [closer EXCEPT ![c].at = "send"]
  /\ UNCHANGED <<command, entry, taken, shut, opened, lost>>

\* The send fails when the attempt it belongs to waits no more.
SendResult(c) ==
  /\ closer[c] # None /\ closer[c].at = "send"
  /\ LET t == closer[c].task
     IN  answer' = IF attempt[t] = closer[c].attempt
                      /\ phase[t] \in {"announcing", "waiting"}
                   THEN [answer EXCEPT ![t] = IF closer[c].ok THEN "ok" ELSE "err"]
                   ELSE answer
  /\ closer' = [closer EXCEPT ![c] = None]
  /\ UNCHANGED <<mode, phase, attempt, result, entry, taken, shut, history>>

SetFlag ==
  /\ shut = "open" /\ shut' = "flagged"
  /\ UNCHANGED <<command, entry, closer, taken, history>>

ShutManager ==
  /\ shut = "flagged" /\ shut' = "stopped"
  /\ UNCHANGED <<command, entry, closer, taken, history>>

\* std::mem::take of the map, then one task after the other.
TakeAll ==
  /\ shut = "stopped" /\ shut' = "closing"
  /\ taken' = {<<t, entry[t]>> : t \in {u \in Tasks : entry[u] # 0}}
  /\ entry' = [t \in Tasks |-> 0]
  /\ UNCHANGED <<command, closer, history>>

CloseTaken ==
  /\ shut = "closing" /\ closer["shutdown"] = None
  /\ \E e \in taken :
       /\ closer' = [closer EXCEPT !["shutdown"] =
            [task |-> e[1], attempt |-> e[2], ok |-> FALSE, at |-> "announce"]]
       /\ taken' = taken \ {e}
  /\ UNCHANGED <<command, entry, shut, history>>

ShutdownReturns ==
  /\ shut = "closing" /\ taken = {} /\ closer["shutdown"] = None
  /\ shut' = "done"
  /\ UNCHANGED <<command, entry, closer, taken, history>>

----------------------------------------------------------------------------

Init ==
  /\ mode = [t \in Tasks |-> "internal"]
  /\ phase = [t \in Tasks |-> "new"]
  /\ attempt = [t \in Tasks |-> 1]
  /\ entry = [t \in Tasks |-> 0]
  /\ answer = [t \in Tasks |-> "empty"]
  /\ result = [t \in Tasks |-> "none"]
  /\ closer = [c \in Closers |-> None]
  /\ taken = {} /\ shut = "open"
  /\ opened = [t \in Tasks |-> 0]
  /\ closed = [t \in Tasks |-> 0]
  /\ lost = [t \in Tasks |-> 0]

CommandStep(t) ==
  \/ Execute(t) \/ RunInternal(t) \/ BeginHybrid(t) \/ EndHybrid(t)
  \/ Register(t) \/ AnnouncePending(t) \/ Receive(t) \/ Expire(t)
  \/ RemoveExpired(t)

CloserStep(c) == AnnounceCompleted(c) \/ SendResult(c)

ShutdownStep == ShutManager \/ TakeAll \/ CloseTaken \/ ShutdownReturns

Next ==
  \/ \E t \in Tasks : Submit(t) \/ CommandStep(t) \/ LaneTimeout(t) \/ GiveUp(t)
  \/ \E h \in Hosts, t \in Tasks, ok \in BOOLEAN : Complete(h, t, ok)
  \/ \E c \in Closers : CloserStep(c)
  \/ SetFlag \/ ShutdownStep

Spec == Init /\ [][Next]_vars

\* Lanes start what they can, commands run by the lane return, the handler's
\* timeout fires and a call that has begun goes on.  A host need not answer.
Fairness ==
  /\ \A t \in Tasks : SF_vars(Execute(t)) /\ WF_vars(CommandStep(t))
  /\ \A c \in Closers : WF_vars(CloserStep(c))
  /\ WF_vars(ShutdownStep)

FairSpec == Spec /\ Fairness

----------------------------------------------------------------------------
(* Properties.                                                             *)

\* Type invariant.  The attempts of a command never exceed the retry policy.
TypeOK ==
  /\ mode \in [Tasks -> {"internal", "external", "hybrid"}]
  /\ phase \in [Tasks -> Running \cup {"new", "queued", "answered"}]
  /\ attempt \in [Tasks -> 1..MaxAttempts]
  /\ entry \in [Tasks -> 0..MaxAttempts]
  /\ answer \in [Tasks -> {"empty", "ok", "err"}]
  /\ result \in [Tasks -> {"none", "ok", "err", "abandoned"}]
  /\ closer \in [Closers -> {None} \cup
       [task : Tasks, attempt : 1..MaxAttempts, ok : BOOLEAN,
        at : {"announce", "send"}]]
  /\ taken \subseteq Tasks \X (1..MaxAttempts)
  /\ shut \in {"open", "flagged", "stopped", "closing", "done"}
  /\ opened \in [Tasks -> Nat] /\ closed \in [Tasks -> Nat]
  /\ lost \in [Tasks -> Nat]

\* Entries between their removal and their completion event.
BeingClosed(t) ==
  Cardinality({c \in Closers : closer[c] # None /\ closer[c].task = t
                                /\ closer[c].at = "announce"})
  + Cardinality({e \in taken : e[1] = t})

\* Every announcement of a task to the host is closed exactly once, whoever of
\* the host, the timeout and the shutdown gets to its entry: what was
\* announced is closed, in the map, being closed, running in hybrid mode, or
\* lost to a lane timeout.
AnnouncementsPaired ==
  \A t \in Tasks :
    opened[t] + (IF phase[t] = "announcing" THEN 1 ELSE 0)
      = closed[t] + lost[t] + BeingClosed(t)
        + (IF entry[t] # 0 THEN 1 ELSE 0)
        + (IF phase[t] = "hybrid" THEN 1 ELSE 0)

\* Once shutdown has taken the map, no command registers an external task any
\* more: the flag is set before, and read under the map's lock.
NothingRegisteredAfterShutdown ==
  shut \in {"closing", "done"} => \A t \in Tasks : entry[t] = 0

\* A command's waiting attempt can still be answered: its entry is in the map
\* or whoever removed it is about to send.
WaiterHasSender ==
  \A t \in Tasks :
    phase[t] \in {"announcing", "waiting"} /\ answer[t] = "empty" =>
      \/ entry[t] = attempt[t]
      \/ <<t, attempt[t]>> \in taken
      \/ \E c \in Closers : closer[c] # None /\ closer[c].task = t
                             /\ closer[c].attempt = attempt[t]

\* Every submitted command is answered, with or without a host, unless its
\* caller gives up.
CommandsAnswered ==
  \A t \in Tasks : phase[t] = "queued" ~> result[t] # "none"

=============================================================================
