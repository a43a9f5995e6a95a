--------------------------- MODULE SubagentTasks ---------------------------
(***************************************************************************)
(* Delegated child agents and the tracker that records them:               *)
(*   core/src/subagent_task_tracker.rs     the tracker's three locked maps *)
(*   core/src/tools/task.rs                one child, foreground or not    *)
(*   core/src/tools/task/parallel_execution.rs   the fan-out with a limit  *)
(*   core/src/agent_api/session_close.rs   the cancellation at close       *)
(*                                                                         *)
(* A child, the wrapper around a background child, the fan-out, the host   *)
(* and session close all change the same record.  The tracker changes it   *)
(* under one lock and queues it for eviction under another, so every       *)
(* process p may be between the two: toMark[p].  A cancel is between its   *)
(* token and its record change: cancelling[p].  The future of any of them  *)
(* may be dropped at such an await.                                        *)
(***************************************************************************)
EXTENDS Integers, Sequences, FiniteSets, SequencesExt

CONSTANTS Tasks,        \* task ids
          Worlds,       \* how each task is run, and what happens around it
          MaxParallel,  \* children of the fan-out that run at once
          Target,       \* min_success_count: the fan-out returns early
          None          \* no task

ASSUME TasksFinite == IsFiniteSet(Tasks) /\ None \notin Tasks
ASSUME TasksAreNotRoles == Tasks \cap {"host", "close", "fan"} = {}
ASSUME NoneIsNoBranch == None \notin [task : Tasks, at : {"end", "announce"}]
\* cap: max_terminal_tasks, where |Tasks| stands for no limit.  disturb: host
\* cancellations, a session close, the end of the scope a child lives in.
\* deadline: the fan-out was given a timeout_ms.  early: it allows partial
\* failure and was given a min_success_count.  With neither there is no limit
\* to this fan-out and the code runs another.
ASSUME WorldsType ==
  Worlds \subseteq
    [mode : [Tasks -> {"foreground", "background", "fanout", "absent"}],
     cap : Nat, disturb : SUBSET {"host", "close", "scope"},
     deadline : BOOLEAN, early : BOOLEAN]
ASSUME FanoutLimited == \A w \in Worlds : w.deadline \/ w.early
ASSUME LimitsNat == MaxParallel \in Nat \ {0} /\ Target \in Nat \ {0}

VARIABLES
  world,       \* the member of Worlds this behaviour is in
  record,      \* tracker.tasks: status of the record of a task, or "none"
  known,       \* tasks whose record carries the parent session's id
  cancellers,  \* tracker.cancellers: tasks with a registered token
  order,       \* tracker.terminal_order
  fired,       \* tasks whose cancellation token is cancelled
  toMark,      \* per process: the task it still has to queue as terminal
  cancelling,  \* per canceller: the task whose token it took out and fired
  unmarked,    \* history: tasks a process was dropped before queueing
  pc,          \* where the child of a task is
  outcome,     \* success of the child's own execution
  ends,        \* history: SubagentEnd events broadcast for a task
  started,     \* ParallelTaskLifecycle.started
  ended,       \* ParallelTaskLifecycle.ended
  fan,         \* phase of the fan-out
  active,      \* its running branches
  results,     \* what it returns for a branch
  abandoned,   \* cancelled_indexes: branches still active when it stopped
  todo,        \* abandoned branches whose end is not looked at yet
  cleaning,    \* [task, at]: the abandoned branch it is closing
  closing,     \* phase of session close
  listed,      \* tasks the close found running
  toCancel     \* those it has still to cancel

tracker  == <<record, known, cancellers, order, toMark, cancelling, unmarked>>
child    == <<pc, outcome, started, ended>>
fanout   == <<fan, active, results, abandoned, todo, cleaning>>
session  == <<closing, listed, toCancel, world>>
vars     == <<tracker, fired, child, ends, fanout, session>>

Mode == world.mode
Cap  == world.cap

Procs     == Tasks \cup {"host", "close", "fan"}
Cancellers == {"host", "close", "fan"}
Fanned    == {t \in Tasks : Mode[t] = "fanout"}
Terminal  == {"completed", "failed", "cancelled"}
Statuses  == Terminal \cup {"none", "running"}
Phases    == {"idle", "spawned", "entered", "registered", "child", "finished",
              "clearing", "settling", "erring", "failing", "failClearing",
              "done", "aborted"}

----------------------------------------------------------------------------
(* The tracker.                                                            *)

\* record_event of a SubagentStart: a record is made, or refreshed except for
\* its status.
RecordStart(t) ==
  /\ record' = IF record[t] = "none" THEN [record EXCEPT ![t] = "running"]
               ELSE record
  /\ known' = known \cup {t}
  /\ UNCHANGED <<cancellers, order, toMark, cancelling, unmarked>>

\* Fault: a record made by the end itself is not queued.
RecordEndOfKnown(p, t, ok) ==
  /\ record' = [record EXCEPT ![t] =
                  IF @ = "cancelled" THEN @
                  ELSE IF ok THEN "completed" ELSE "failed"]
  /\ toMark' = IF record[t] = "running"
               THEN [toMark EXCEPT ![p] = t] ELSE toMark
  /\ UNCHANGED <<known, cancellers, order, cancelling, unmarked>>

\* record_event of a SubagentEnd by process p: the part under the tasks lock.
\* Only a record that was running, or made here, is queued afterwards.
RecordEnd(p, t, ok) ==
  /\ record' = [record EXCEPT ![t] =
                  IF @ = "cancelled" THEN @
                  ELSE IF ok THEN "completed" ELSE "failed"]
  /\ toMark' = IF record[t] \in {"none", "running"}
               THEN [toMark EXCEPT ![p] = t] ELSE toMark
  /\ UNCHANGED <<known, cancellers, order, cancelling, unmarked>>

\* mark_terminal_and_evict, under the three locks at once.
MarkTerminal(p) ==
  /\ toMark[p] # None
  /\ LET t       == toMark[p]
         queue   == IF t \in Range(order) THEN order ELSE Append(order, t)
         surplus == IF Len(queue) > Cap THEN Len(queue) - Cap ELSE 0
         victims == {queue[i] : i \in 1..surplus}
     IN  /\ order' = SubSeq(queue, surplus + 1, Len(queue))
         /\ record' = [u \in Tasks |->
                         IF u \in victims THEN "none" ELSE record[u]]
         /\ known' = known \ victims
         /\ cancellers' = cancellers \ victims
  /\ toMark' = [toMark EXCEPT ![p] = None]
  /\ UNCHANGED <<cancelling, unmarked, fired, child, ends, fanout, session>>

\* cancel(t) of process p: the token is taken out and fired; without a token
\* nothing happens.
TakeToken(p, t) ==
  /\ cancellers' = cancellers \ {t}
  /\ IF t \in cancellers
     THEN fired' = fired \cup {t} /\ cancelling' = [cancelling EXCEPT ![p] = t]
     ELSE UNCHANGED <<fired, cancelling>>
  /\ UNCHANGED <<record, known, order, toMark, unmarked>>

\* Fault: the task is queued whatever its record says.
MarkCancelledBlindly(p) ==
  /\ cancelling[p] # None
  /\ LET t == cancelling[p]
     IN  /\ record' = IF record[t] = "running"
                      THEN [record EXCEPT ![t] = "cancelled"] ELSE record
         /\ toMark' = [toMark EXCEPT ![p] = t]
  /\ cancelling' = [cancelling EXCEPT ![p] = None]
  /\ UNCHANGED <<known, cancellers, order, unmarked, fired, child, ends,
                 fanout, session>>

\* Its second half: a running record becomes cancelled.
MarkCancelled(p) ==
  /\ cancelling[p] # None
  /\ LET t == cancelling[p]
     IN  IF record[t] = "running"
         THEN /\ record' = [record EXCEPT ![t] = "cancelled"]
              /\ toMark' = [toMark EXCEPT ![p] = t]
         ELSE UNCHANGED <<record, toMark>>
  /\ cancelling' = [cancelling EXCEPT ![p] = None]
  /\ UNCHANGED <<known, cancellers, order, unmarked, fired, child, ends,
                 fanout, session>>

ClearCanceller(t) ==
  /\ cancellers' = cancellers \ {t}
  /\ UNCHANGED <<record, known, order, toMark, cancelling, unmarked>>

\* Process p is at an await of its own, inside no tracker operation.
Free(p) == toMark[p] = None /\ (p \in Cancellers => cancelling[p] = None)

\* The future of process p is dropped at the await it has reached: what was
\* left of its tracker operation is not done.
Drop(p) ==
  /\ unmarked' = unmarked \cup ({toMark[p]} \ {None})
  /\ toMark' = [toMark EXCEPT ![p] = None]
  /\ cancelling' = [c \in Cancellers |-> IF c = p THEN None ELSE cancelling[c]]
  /\ UNCHANGED <<record, known, cancellers, order>>

\* A SubagentEnd is sent to the subscribers.
Announce(t)    == ends' = [ends EXCEPT ![t] = @ + 1]
At(t, phase)   == pc[t] = phase /\ Free(t)
Goto(t, phase) == pc' = [pc EXCEPT ![t] = phase]

----------------------------------------------------------------------------
(* One child.                                                              *)

\* execute_background: the start is announced at once; when the capability
\* scope refuses the task, so is a failed end and nothing runs or is recorded.
LaunchBackground(t) ==
  /\ Mode[t] = "background" /\ pc[t] = "idle"
  /\ \/ Goto(t, "spawned") /\ UNCHANGED ends
     \/ Goto(t, "done") /\ Announce(t)
  /\ UNCHANGED <<tracker, fired, outcome, started, ended, fanout, session>>

\* The spawned future records the start itself, then enters the execution.
RecordBackgroundStart(t) ==
  /\ At(t, "spawned")
  /\ RecordStart(t)
  /\ Goto(t, "entered")
  /\ UNCHANGED <<fired, outcome, started, ended, ends, fanout, session>>

EnterForeground(t) ==
  /\ Mode[t] = "foreground" /\ pc[t] = "idle"
  /\ Goto(t, "entered")
  /\ UNCHANGED <<tracker, fired, outcome, started, ended, ends, fanout,
                 session>>

\* Fault: the background wrapper forgets a failed execution too.
DonePhase(t) == "done"

\* A failed execution goes back to its caller: only the background wrapper
\* still records an end.
FailedPhase(t) == IF Mode[t] = "background" THEN "failing" ELSE "done"

\* A cancelled parent or a refused capability scope ends the execution before
\* the canceller is registered.
RefuseEntry(t) ==
  /\ At(t, "entered")
  /\ Goto(t, FailedPhase(t))
  /\ outcome' = [outcome EXCEPT ![t] = FALSE]
  /\ UNCHANGED <<tracker, fired, started, ended, ends, fanout, session>>

RegisterCanceller(t) ==
  /\ At(t, "entered")
  /\ Mode[t] # "background" => t \notin fired
  /\ cancellers' = cancellers \cup {t}
  /\ Goto(t, "registered")
  /\ UNCHANGED <<record, known, order, toMark, cancelling, unmarked, fired,
                 outcome, started, ended, ends, fanout, session>>

\* The scheduler's admission fails or is cancelled, or the agent is unknown.
FailBeforeStart(t) ==
  /\ At(t, "registered")
  /\ Goto(t, "erring")
  /\ UNCHANGED <<tracker, fired, outcome, started, ended, ends, fanout,
                 session>>

\* The start is recorded, broadcast and marked without an await in between;
\* a background child did that when it was spawned.
Start(t) ==
  /\ At(t, "registered")
  /\ IF Mode[t] = "background"
     THEN UNCHANGED <<tracker, started>>
     ELSE /\ RecordStart(t)
          /\ started' = IF t \in Fanned THEN started \cup {t} ELSE started
  /\ Goto(t, "child")
  /\ UNCHANGED <<fired, outcome, ended, ends, fanout, session>>

\* Cancelled while the tools are set up, a conflicting tool, a refused
\* capability operation: the execution fails with its start on record.
BailAfterStart(t) ==
  /\ At(t, "child")
  /\ Goto(t, "erring")
  /\ UNCHANGED <<tracker, fired, outcome, started, ended, ends, fanout,
                 session>>

\* The child's run returns.  A run that finds its token cancelled has failed;
\* the result of a structured, tool-free one is not held against the token.
Finish(t) ==
  /\ At(t, "child")
  /\ \E ok \in BOOLEAN : outcome' = [outcome EXCEPT ![t] = ok]
  /\ Goto(t, "finished")
  /\ UNCHANGED <<tracker, fired, started, ended, ends, fanout, session>>

RecordOwnEnd(t) ==
  /\ At(t, "finished")
  /\ RecordEnd(t, t, outcome[t])
  /\ Goto(t, "clearing")
  /\ UNCHANGED <<fired, outcome, started, ended, ends, fanout, session>>

\* clear_canceller is the last await before the end is broadcast and marked.
AnnounceEnd(t) ==
  /\ At(t, "clearing")
  /\ ClearCanceller(t)
  /\ Announce(t)
  /\ ended' = IF t \in started THEN ended \cup {t} ELSE ended
  /\ Goto(t, "settling")
  /\ UNCHANGED <<fired, outcome, started, fanout, session>>

\* settle_delegated_execution: an unclean close of the capability subtask
\* turns the result into an error, after its end was announced.
Settle(t) ==
  /\ At(t, "settling")
  /\ \/ Goto(t, "done") /\ UNCHANGED outcome
     \/ Goto(t, FailedPhase(t)) /\ outcome' = [outcome EXCEPT ![t] = FALSE]
  /\ UNCHANGED <<tracker, fired, started, ended, ends, fanout, session>>

\* The error path of execute_with_task_id_in_scope.
ClearAfterError(t) ==
  /\ At(t, "erring")
  /\ ClearCanceller(t)
  /\ Goto(t, FailedPhase(t))
  /\ outcome' = [outcome EXCEPT ![t] = FALSE]
  /\ UNCHANGED <<fired, started, ended, ends, fanout, session>>

\* The background wrapper records a failed end of its own,
RecordFailedEnd(t) ==
  /\ At(t, "failing")
  /\ RecordEnd(t, t, FALSE)
  /\ Goto(t, "failClearing")
  /\ UNCHANGED <<fired, outcome, started, ended, ends, fanout, session>>

\* and announces it.
AnnounceFailedEnd(t) ==
  /\ At(t, "failClearing")
  /\ ClearCanceller(t)
  /\ Announce(t)
  /\ Goto(t, "done")
  /\ UNCHANGED <<fired, outcome, started, ended, fanout, session>>

\* A background child lives in the capability scope of the run that launched
\* it: the close of that scope cancels the child's token,
CloseScope(t) ==
  /\ "scope" \in world.disturb /\ Mode[t] = "background"
  /\ pc[t] # "idle" /\ t \notin fired
  /\ fired' = fired \cup {t}
  /\ UNCHANGED <<tracker, child, ends, fanout, session>>

\* and aborts what has not returned in time, at whatever await it has reached.
\* A foreground child is dropped with the tool call it is part of.
DropChild(t) ==
  /\ "scope" \in world.disturb
  /\ Mode[t] \in {"foreground", "background"}
  /\ Mode[t] = "background" => t \in fired
  /\ pc[t] \notin {"idle", "done", "aborted"}
  /\ Goto(t, "aborted")
  /\ Drop(t)
  /\ UNCHANGED <<fired, outcome, started, ended, ends, fanout, session>>

ChildStep(t) ==
  \/ RecordBackgroundStart(t) \/ RefuseEntry(t) \/ RegisterCanceller(t)
  \/ FailBeforeStart(t) \/ Start(t) \/ RecordOwnEnd(t) \/ AnnounceEnd(t)
  \/ Settle(t) \/ ClearAfterError(t) \/ RecordFailedEnd(t)
  \/ AnnounceFailedEnd(t)

Child(t) ==
  \/ LaunchBackground(t) \/ EnterForeground(t) \/ ChildStep(t)
  \/ BailAfterStart(t) \/ Finish(t)
  \/ CloseScope(t) \/ DropChild(t)

----------------------------------------------------------------------------
(* The fan-out: execute_parallel_for_tool with a timeout or a target.      *)

Succeeded == {t \in Fanned : results[t] = "ok"}
Waiting   == {t \in Fanned : pc[t] = "idle"}
Enough    == world.early /\ Cardinality(Succeeded) >= Target

\* The next branch is spawned while fewer than MaxParallel run.
SpawnBranch(t) ==
  /\ fan = "collecting" /\ t \in Waiting
  /\ Cardinality(active) < MaxParallel
  /\ ~Enough
  /\ active' = active \cup {t}
  /\ Goto(t, "entered")
  /\ UNCHANGED <<tracker, fired, outcome, started, ended, ends, fan, results,
                 abandoned, todo, cleaning, session>>

\* A finished branch is joined and its result kept.
JoinBranch(t) ==
  /\ fan = "collecting" /\ t \in active /\ pc[t] = "done"
  /\ ~Enough
  /\ active' = active \ {t}
  /\ results' = [results EXCEPT ![t] = IF outcome[t] THEN "ok" ELSE "failed"]
  /\ UNCHANGED <<tracker, fired, child, ends, fan, abandoned, todo, cleaning,
                 session>>

\* Every branch is joined: nothing is cancelled.
ReturnAll ==
  /\ fan = "collecting" /\ active = {} /\ Waiting = {}
  /\ ~Enough
  /\ fan' = "done"
  /\ UNCHANGED <<tracker, fired, child, ends, active, results, abandoned,
                 todo, cleaning, session>>

\* Enough branches have succeeded, or the deadline, if there is one, passes
\* with branches outstanding: the active ones are noted and the shared token
\* is cancelled.
StopCollecting ==
  /\ fan = "collecting"
  /\ Enough \/ (world.deadline /\ active \cup Waiting # {})
  /\ fan' = "settling"
  /\ abandoned' = active
  /\ fired' = fired \cup Fanned
  /\ UNCHANGED <<tracker, child, ends, active, results, todo, cleaning,
                 session>>

\* Fault: aborted branches are not joined.
DropFinishedBranch(t) ==
  /\ fan \in {"settling", "aborting"} /\ t \in active /\ pc[t] = "done"
  /\ active' = active \ {t}
  /\ UNCHANGED <<tracker, fired, child, ends, fan, results, abandoned, todo,
                 cleaning, session>>

\* settle_cancelled_parallel_tasks: what still finishes is joined and its
\* result dropped, also after the abort.
DropBranch(t) ==
  /\ fan \in {"settling", "aborting"} /\ t \in active
  /\ pc[t] \in {"done", "aborted"}
  /\ active' = active \ {t}
  /\ UNCHANGED <<tracker, fired, child, ends, fan, results, abandoned, todo,
                 cleaning, session>>

GraceOver ==
  /\ fan = "settling" /\ active # {}
  /\ fan' = "aborting"
  /\ UNCHANGED <<tracker, fired, child, ends, active, results, abandoned,
                 todo, cleaning, session>>

\* The tool call is dropped with the run it is part of; its JoinSet aborts the
\* branches, and nobody looks after their ends.
DropFanout ==
  /\ "scope" \in world.disturb /\ fan \notin {"done", "dropped"}
  /\ fan' = "dropped"
  /\ todo' = {} /\ cleaning' = None
  /\ Drop("fan")
  /\ UNCHANGED <<fired, child, ends, active, results, abandoned, session>>

\* An aborted branch stops at whatever await it has reached, inside a
\* tracker operation too.
AbortBranch(t) ==
  /\ fan \in {"aborting", "dropped"} /\ t \in active
  /\ pc[t] \notin {"done", "aborted"}
  /\ Goto(t, "aborted")
  /\ Drop(t)
  /\ UNCHANGED <<fired, outcome, started, ended, ends, fanout, session>>

AllJoined ==
  /\ fan \in {"settling", "aborting"} /\ active = {}
  /\ fan' = "cleaning"
  /\ todo' = abandoned
  /\ UNCHANGED <<tracker, fired, child, ends, active, results, abandoned,
                 cleaning, session>>

\* emit_abandoned_parallel_task_ends: a branch that never started or has
\* announced its end is passed over;
SkipAbandoned(t) ==
  /\ fan = "cleaning" /\ cleaning = None /\ t \in todo
  /\ t \notin started \/ t \in ended
  /\ todo' = todo \ {t}
  /\ UNCHANGED <<tracker, fired, child, ends, fan, active, results, abandoned,
                 cleaning, session>>

\* Fault: an end announced by the branch itself is not looked for.
CancelAnyAbandoned(t) ==
  /\ fan = "cleaning" /\ cleaning = None /\ t \in todo
  /\ t \in started
  /\ TakeToken("fan", t)
  /\ todo' = todo \ {t}
  /\ cleaning' = [task |-> t, at |-> "end"]
  /\ UNCHANGED <<child, ends, fan, active, results, abandoned, session>>

\* the others are cancelled,
CancelAbandoned(t) ==
  /\ fan = "cleaning" /\ cleaning = None /\ t \in todo
  /\ t \in started /\ t \notin ended
  /\ TakeToken("fan", t)
  /\ todo' = todo \ {t}
  /\ cleaning' = [task |-> t, at |-> "end"]
  /\ UNCHANGED <<child, ends, fan, active, results, abandoned, session>>

\* given a failed end,
EndAbandoned ==
  /\ cleaning # None /\ cleaning.at = "end" /\ Free("fan")
  /\ RecordEnd("fan", cleaning.task, FALSE)
  /\ cleaning' = [cleaning EXCEPT !.at = "announce"]
  /\ UNCHANGED <<fired, child, ends, fan, active, results, abandoned, todo,
                 session>>

\* and announced.
AnnounceAbandoned ==
  /\ cleaning # None /\ cleaning.at = "announce" /\ Free("fan")
  /\ ClearCanceller(cleaning.task)
  /\ Announce(cleaning.task)
  /\ ended' = IF cleaning.task \in started THEN ended \cup {cleaning.task}
              ELSE ended
  /\ cleaning' = None
  /\ UNCHANGED <<fired, pc, outcome, started, fan, active, results, abandoned,
                 todo, session>>

ReturnPartial ==
  /\ fan = "cleaning" /\ todo = {} /\ cleaning = None
  /\ fan' = "done"
  /\ results' = [t \in Fanned |-> IF results[t] = "none" THEN "failed"
                                  ELSE results[t]]
  /\ UNCHANGED <<tracker, fired, child, ends, active, abandoned, todo,
                 cleaning, session>>

Fanout ==
  \/ \E t \in Fanned :
       \/ SpawnBranch(t) \/ JoinBranch(t) \/ DropBranch(t) \/ AbortBranch(t)
       \/ SkipAbandoned(t) \/ CancelAbandoned(t)
  \/ ReturnAll \/ StopCollecting \/ GraceOver \/ AllJoined
  \/ EndAbandoned \/ AnnounceAbandoned \/ ReturnPartial

----------------------------------------------------------------------------
(* The host and session close.                                             *)

\* The host cancels one task.
HostCancel(t) ==
  /\ "host" \in world.disturb /\ Free("host")
  /\ t \in cancellers
  /\ TakeToken("host", t)
  /\ UNCHANGED <<child, ends, fanout, session>>

\* Its call is dropped before it is through.
DropHostCancel ==
  /\ ~Free("host")
  /\ Drop("host")
  /\ UNCHANGED <<fired, child, ends, fanout, session>>

\* Session close cancels the session's token, of which every task's token is
\* a descendant,
CloseSession ==
  /\ "close" \in world.disturb /\ closing = "open"
  /\ closing' = "listing"
  /\ fired' = Tasks
  /\ UNCHANGED <<tracker, child, ends, fanout, listed, toCancel, world>>

\* lists the running tasks of the session,
ListRunning ==
  /\ closing = "listing"
  /\ closing' = "cancelling"
  /\ listed' = {t \in known : record[t] = "running"}
  /\ toCancel' = listed'
  /\ UNCHANGED <<tracker, fired, child, ends, fanout, world>>

\* cancels each,
CloseCancel(t) ==
  /\ closing = "cancelling" /\ t \in toCancel /\ Free("close")
  /\ TakeToken("close", t)
  /\ toCancel' = toCancel \ {t}
  /\ UNCHANGED <<child, ends, fanout, closing, listed, world>>

\* and goes on.
CloseDone ==
  /\ closing = "cancelling" /\ toCancel = {} /\ Free("close")
  /\ closing' = "closed"
  /\ UNCHANGED <<tracker, fired, child, ends, fanout, listed, toCancel,
                 world>>

\* The close is dropped; a later one finds the session closed and does nothing.
DropClose ==
  /\ closing \in {"listing", "cancelling"}
  /\ closing' = "closed"
  /\ Drop("close")
  /\ UNCHANGED <<fired, child, ends, fanout, listed, toCancel, world>>

CloseStep == ListRunning \/ CloseDone \/ \E t \in Tasks : CloseCancel(t)

----------------------------------------------------------------------------

Init ==
  /\ world \in Worlds
  /\ record = [t \in Tasks |-> "none"]
  /\ known = {} /\ cancellers = {} /\ order = <<>> /\ fired = {}
  /\ toMark = [p \in Procs |-> None]
  /\ cancelling = [p \in Cancellers |-> None]
  /\ unmarked = {}
  /\ pc = [t \in Tasks |-> "idle"]
  /\ outcome = [t \in Tasks |-> FALSE]
  /\ ends = [t \in Tasks |-> 0]
  /\ started = {} /\ ended = {}
  /\ fan = IF Fanned = {} THEN "done" ELSE "collecting"
  /\ active = {} /\ abandoned = {} /\ todo = {} /\ cleaning = None
  /\ results = [t \in Fanned |-> "none"]
  /\ closing = "open" /\ listed = {} /\ toCancel = {}

TrackerStep(p) == MarkTerminal(p) \/ (p \in Cancellers /\ MarkCancelled(p))

Next ==
  \/ \E p \in Procs : TrackerStep(p)
  \/ \E t \in Tasks : Child(t) \/ HostCancel(t)
  \/ Fanout \/ DropFanout
  \/ DropHostCancel
  \/ CloseSession \/ CloseStep \/ DropClose

Spec == Init /\ [][Next]_vars

\* Futures that are not waiting are polled; a child whose token is cancelled
\* returns; the fan-out's timers fire, if it has a deadline.  Nothing makes a
\* child that was not cancelled return, or a host act.
Fairness ==
  /\ \A p \in Procs : WF_vars(TrackerStep(p))
  /\ \A t \in Tasks :
       /\ WF_vars(ChildStep(t))
       /\ WF_vars(t \in fired /\ Finish(t))
  /\ WF_vars(Fanout)
  /\ WF_vars(CloseStep)

FairSpec == Spec /\ Fairness

----------------------------------------------------------------------------
(* Properties.                                                             *)

\* Type invariant.  Only started branches are ever marked as ended.
TypeOK ==
  /\ world \in Worlds
  /\ record \in [Tasks -> Statuses]
  /\ known \subseteq Tasks /\ cancellers \subseteq Tasks /\ fired \subseteq Tasks
  /\ order \in Seq(Tasks)
  /\ toMark \in [Procs -> Tasks \cup {None}]
  /\ cancelling \in [Cancellers -> Tasks \cup {None}]
  /\ unmarked \subseteq Tasks
  /\ pc \in [Tasks -> Phases]
  /\ outcome \in [Tasks -> BOOLEAN]
  /\ ends \in [Tasks -> Nat]
  /\ started \subseteq Fanned /\ ended \subseteq started
  /\ fan \in {"collecting", "settling", "aborting", "cleaning", "done",
             "dropped"}
  /\ active \subseteq Fanned /\ abandoned \subseteq Fanned /\ todo \subseteq Fanned
  /\ results \in [Fanned -> {"none", "ok", "failed"}]
  /\ cleaning \in [task : Fanned, at : {"end", "announce"}] \cup {None}
  /\ closing \in {"open", "listing", "cancelling", "closed"}
  /\ listed \subseteq Tasks /\ toCancel \subseteq listed

\* "Running tasks are never in this queue": a task queued for eviction, or
\* about to be queued, has no running record, however its start, its ends,
\* cancellations before and after the start, and evictions interleave.
RunningNotQueued ==
  \A t \in Tasks :
    record[t] = "running" =>
      /\ t \notin Range(order)
      /\ \A p \in Procs : toMark[p] # t

\* The cap on terminal records: the queue respects it, and a terminal record
\* outside the queue is either about to be queued, or was to be queued by a
\* process that was dropped between the two halves of its tracker operation:
\* a child, a host's cancel, session close or the fan-out.
RetentionBounded ==
  /\ Len(order) <= Cap
  /\ \A t \in Tasks :
       record[t] \in Terminal =>
         \/ t \in Range(order)
         \/ \E p \in Procs : toMark[p] = t
         \/ t \in unmarked

\* Subscribers see one end for every child that is not in the background,
\* and when the fan-out returns, one for each branch it gave up on that had
\* announced its start: natural and synthetic ends never overlap.
OneAnnouncedEnd ==
  /\ \A t \in Tasks : Mode[t] # "background" => ends[t] <= 1
  /\ fan = "done" => \A t \in abandoned : ends[t] = 1 <=> t \in started

\* A background child whose token is cancelled before its future has first
\* run gets a terminal record, on every path through its execution and its
\* wrapper, unless its scope aborts it first.
CancelledBackgroundEnds ==
  \A t \in Tasks :
    (Mode[t] = "background" /\ pc[t] = "spawned" /\ t \in fired)
      ~> record[t] \in Terminal \/ pc[t] = "aborted"

\* With a deadline the fan-out returns, although its children may never do so
\* by themselves; without one, once session close has cancelled its branches.
\* Its tool call may be dropped first.
FanoutReturns ==
  (fan = "collecting" /\ (world.deadline \/ closing # "open"))
    ~> fan \in {"done", "dropped"}
=============================================================================
