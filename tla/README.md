# A TLA+ development for the A3S Code runtime

A3S Code is an asynchronous Rust runtime for coding agents. `core/` holds the
runtime: sessions that run an agent loop, the tools the loop calls, delegated
sub-agents, workflows, and the stores behind them. `acp/` serves it over the
Agent Client Protocol, `sdk/` binds it to Node, Python and Go, and
`vendor/a3s-code-ui` is a vendored user interface. The code runs on Tokio: tasks
interleave at every `await`, and a caller may drop a future at any of them.

This directory models the parts of `core/` whose correctness depends on such
interleavings, on failures and on the order of events:

| Module | Models | Checked by | Proved in |
| --- | --- | --- | --- |
| `TaskScheduler` | `core/src/task_scheduler.rs` | `MCTaskScheduler`: `Quotas`, `Aging`, `Progress` | `TaskSchedulerProofs` |
| `AdmissionLimits` | what the scheduler promises, abstractly | as `ImplementsLimits` of `Quotas` | `TaskSchedulerProofs` |
| `RunControl` | `core/src/run_control.rs` and its users | `MCRunControl`: `Inbox`, `InboxProgress` | `RunControlProofs` |
| `RunOwner` | a session's runs: `core/src/agent_api/run_admission.rs` and `run_admission/`, the worker in `conversation_runtime/`, `cancel_and_settle()` and `close()` | `MCRunOwner`: `RunOwner` | `RunOwnerProofs` |
| `SubagentTasks` | `core/src/subagent_task_tracker.rs`, `tools/task.rs`, `tools/task/parallel_execution.rs` | `MCSubagentTasks`: `Subagents` | `SubagentTasksProofs` |
| `LaneQueue` | `core/src/session_lane_queue.rs` | `MCLaneQueue`: `LaneQueue` | `LaneQueueProofs` |
| `Confirmations` | `core/src/hitl.rs`, `tool_confirmation.rs`, the delegation of `child_run.rs` | `MCConfirmations`: `Confirmations` | `ConfirmationsProofs` |
| `SessionStore` | snapshot commits of `core/src/store/file_store.rs`, `wal.rs`, `lease.rs` | `MCSessionStore`: `StoreCommits`, `Fencing`, `Sequences` | `SessionStoreProofs` |

`NumberLemmas` holds facts about numbers and finite sets that two of the proof modules
use.

`PROJECT.json` lists the components, the runs, the source lines of every
definition, the findings and the hazards. Run a model with
`tlc -config Quotas.cfg MCTaskScheduler` and the proofs with
`tlapm TaskSchedulerProofs.tla`. A definition whose comment starts with "Fault:"
is no part of a specification: it is a plausible slip in the definition that
follows it, and substituting it must make a property fail.

## Inventory

What each part keeps, what it does, and why it is hard. The first seven are
modelled, the others are not.

| Component | State | Operations | What is hard | What makes it correct |
| --- | --- | --- | --- | --- |
| Task scheduler (`task_scheduler.rs`) | priority queue, active leases, live and retained quotas, counters | acquire, cancel, drop a lease, health, shut down | three channels into one actor with a biased select; cancellation at every await; quotas that come and go; priorities that age | leases within every limit; exact accounts; no slot leaks; every waiter is answered; shutdown drains |
| Run control inbox (`run_control.rs`) | queue, controls in flight, receipts, two mutexes | submit with hooks, drain, acknowledge, persist, seal, close | hooks run with the admission mutex held; retries; a failing append; loss of the worker | no accepted control is forgotten; one effect per request; cancellation gets through |
| Run admission, ownership, release, session close (`agent_api/run_admission.rs`, `run_admission/`, `conversation_runtime/owned_*.rs`, `run_lifecycle.rs`, `session_close.rs`) | the admission, the registered original and its observations, the three slots, the abort list, the run's record | admit, launch, bind, attach, publish, retire, release, cancel, close | worker, guardian, model call and committer are tasks of their own; a worker may be lost anywhere; checks before and after awaits; close racing admission | operations never overlap; an accepted cancellation is what gets recorded; an abort never reaches a later run; every run is released or kept for a reason |
| Sub-agent tracker and task tool (`subagent_task_tracker.rs`, `tools/task.rs`, `tools/task/parallel_execution.rs`) | task records, cancellers, terminal queue; the fan-out's branches | record event, register and clear a canceller, cancel, evict; launch, fan out, abort | cancel racing start and end; callers aborted or dropped in the middle of a tracker operation; deadlines that may be missing | a queued record never runs again; the cap holds; one announced end; cancelled children end |
| Lane queue and external tasks (`session_lane_queue.rs`, `queue.rs`) | pending external tasks, lane handlers | submit, complete, time out, retry, shut down | two timeouts racing a completion and a shutdown; retries that reuse an id | announcements and completions pair up; a waiter can be answered; every command is answered |
| Human confirmation (`hitl.rs`, `tool_confirmation.rs`, `child_run.rs`) | pending confirmations, forwarded ids | request, answer, time out, cancel, close | requests are addressed by ids that repeat; two managers; a deadline in the middle of a cancellation | an approval reaches the call it was given to; nothing stays unanswerable |
| File session store (`store/`) | snapshot files, write-ahead log, file lock, writer lease | open and recover, save, compare-and-swap, acquire lease, delete | several processes; crashes between two file operations; dropped futures whose file operations go on | the log can be loaded; what is in place can be recovered; stale writers are fenced |
| Core event log (`core_event_log.rs`) | appended events, cursors | append, replay | reopen after a crash | sequence without gaps or duplicates |
| Fact runtime (`fact_control.rs`) | facts of a turn | append, settle | failing appends | modelled only where it meets the inbox and the confirmations |
| Goal control (`goal_control.rs`) | goal state, attestation | set, pause, complete | completion attested by a stale observation | a goal completes once, with its own evidence |
| Orchestration (`orchestration/`, `ordered_parallel.rs`) | workflow budget, checkpoints | parallel, pipeline, resume | concurrent charges; resume after a crash | budget never exceeded; a step is not repeated |
| Dynamic workflows (`dynamic_workflow/`) | workflow record, lease | drive, steer, stop | two drivers | one driver at a time |
| Agent loop (`agent.rs`), LLM clients, MCP, permissions, workspace, code intelligence, memory, research, evaluation, planning, skills, configuration, telemetry, bindings, ACP | mostly data, I/O or text | | their control flow is decided by data, or is sequential | left to tests |

How they interact: a session's operation takes the session's admission and a lease
of the scheduler (`RunOwner` waits for the lease that `TaskScheduler` grants);
`agent_sessions.rs` shuts the scheduler down when the agent closes. A host reaches a
running session through the run control inbox, whose safe points are steps of the
loop (or of the fact runtime), and whose binding, sealing and settlement are steps of
run admission and release: `RunOwner` keeps of the inbox whether it is bound and
decided, `RunControl` what happens inside. Delegated children report to the tracker
and to the subscribers of the session's events, and their tool calls may need the parent
session's confirmation. Close cancels the run, the children and the confirmations, in this
order. The session is saved through the store when a run ends; another process may
open the same directory.

## The models

### Task scheduler

One actor (`pc` follows `run_scheduler`) polls its three channels in the order of
its biased select: `HandleRelease`, the shutdown, then the admission channel; each
handler ends with the retirement of idle quotas and a dispatch. A task is one call
of `acquire*()`, which may be cancelled at each of its awaits, and its armed
lease then sends a Release. Time is a bounded clock that only ages priorities.
Quotas are registered at the enqueue, retired when idle, kept as retained records
and revived. The map from code to actions is one to one; `PROJECT.json` has the
lines. Left out: validation of arguments, the read-only statistics, wait times and
peaks, which nothing reads back, and the loop exit when every sender is gone.

`AdmissionLimits` says what callers rely on, without queue, actor or channel:
leases are granted at most once per call, within `max_active` and every quota
limit, and none after a shutdown has returned. `TaskScheduler` implements it under
the mapping at the end of `TaskScheduler.tla`: the held leases are the callers in
state "holding".

### Run control

The state mutex is never held across an await, so each of its critical sections is
one step. The admission mutex `gate` is held across the hooks' awaits; the worker's
operations need both. A submission goes through entering, hook, submit, fire and
record, and can be dropped at each of them (`DropSubmit`). The worker follows the
agent loop ("loop") or the fact runtime ("fact"), whichever `mode` says: drain and
acknowledge one by one, or append a batch whose k-th append may fail. A loop's run ends
by `FinishLoop` or displacement; its driver (`agent_api/runtime.rs`, `runtime_events.rs`,
`run_lifecycle.rs`) is marked as dead code today and is kept here because the inbox still
offers what it uses. A fact run ends by `PersistTerminal` or `CommitterFails`, seals its
inbox (`SealAndObserve`) and its publication (`SealPublication`), or loses its worker.
Either way the guardian joins the worker (`GuardianJoins`) and then settles what is left
in the inbox (`GuardianSettles`), as `continue_joined_failure` does for every joined
worker. A host's cancellation checks the run, seals the inbox, checks again and fires the
token; both checks (`CanRequestCancel`) refuse once the publication is sealed or the
worker is joined.

`posts`, `log`, `events`, `evicted` and `proof` record what the outside saw and are
what the properties speak of. Left out: validation and size limits of requests, the
test-only `submit()`, snapshot reads, the `interrupt_requested` flag, timestamps and
texts, the removal of a log entry's duplicate key, and the loss of a post-hook
observation.

### Run ownership

The calls of a session are numbered as they are admitted; the callers that find it
busy change nothing. `call` follows `admit()` and the launch, `worker` the owned worker
of `conversation_runtime/`, `guardian` the task that joins the worker, and `own[c]` is
the `OriginalExecutionContext`: what has been observed of the run's binding, inbox,
scope, model call, committer, publication, slots and tools. A mode "fence" is an
operation without a run (compaction, fork, goal writes). Every stage of the worker has
its failures: no run, an unproved error, a scope that cannot be built, a binding that
fails after the run was created, a refused attachment, a failed preparation, a failed
committer, an unclean scope. A worker may be lost at any of them (`LoseWorker`: a panic
or an abort). Model call and committer go on by themselves. The guardian decides what
is left of the inbox, publishes an end if the worker did not, joins model call and
committer, and frees the admission only when `Qualifies` holds; otherwise it keeps the
run for ever. `ask` follows the callers of `cancel_and_settle()` and of `close()`: a
request is checked, the sealing of the inbox awaited, and checked again.

Left out: hooks and events, the worker that never started, memory and worktree tails of
a streaming run, eviction of old records, and the momentary fence that
`cancel_and_settle()` takes when nothing is registered.

### Sub-agents

The tracker's three maps have a lock each. A record is changed under one lock and
queued for eviction under all three, so a process may be in between (`toMark`), and
`cancel()` takes the token out before it changes the record (`cancelling`). At both places
the process may be dropped: a host's cancel (`DropHostCancel`), a close (`DropClose`), the
fan-out with its tool call (`DropFanout`), a child (`DropChild`, `AbortBranch`);
`unmarked` remembers the tasks they had still to queue. A child follows
`execute_with_task_id_in_scope` with the ways it can fail; the background wrapper
records a failed end of its own. The fan-out keeps `MaxParallel` branches running, stops
at `Target` successes if it was given a target, and at its deadline if it was given one
(`world.early`, `world.deadline`; at least one, since the code otherwise runs another
fan-out), grants a grace, aborts, and announces an end for the branches it gave up. A
background child may be aborted by the capability scope of its run, a foreground one
dropped with its tool call. `ends` counts the announced ends. `world` selects the
children's modes, the cap, the fan-out's limits and which of host, close and scope disturb
them: one specification, several small instances.

The live code records starts and ends directly (`tools/task.rs:842`, `:1236`, `:1371`,
`:1403`, `parallel_execution.rs:348`). The forwarder in `agent_api/runtime_events.rs` that
also feeds the tracker, with progress events too, is reached from no live path and is not
modelled; an embedder that feeds the tracker by itself is outside the model as well.

Left out: record texts and timestamps, progress events, restored records, and the child's
own run.

### Lane queue

A command keeps the mode its lane had at submission: the lane runs it, hands it to the
host, or runs it while the host is told. An external attempt registers its sender in
the map, announces it, waits, and expires; whoever removes the entry announces the
completion and then sends, on another thread, so each is a step. The library a3s-lane
(slots, lane timeout, retries, refusal after shutdown) is external and modelled from
its use. `opened`, `closed` and `lost` count announcements.

Left out: lane priorities, metrics, statistics, the dead-letter queue, `drain()`.

### Confirmations

A manager holds one sender per tool call id. A call asks the child's manager, the
parent's or both (`asks`, chosen from `Asks[c]`), waits for all answers, and withdraws
by id when it is cancelled or, on the fact path, at its deadline, which may also
interrupt the requests and the withdrawal themselves. `forwarded` is the delegation's
memory of ids at the parent. `granted` records the host's approvals and to which call
they went.

Left out: policies and automatic approval, the events around a request, the timer in
`hitl.rs` that reports a timeout and settles nothing, `confirm` through the delegation,
and `ask_user`.

### Session store

A handle is a `FileSessionStore`; handles may live in one process or in several. Its
write lock admits one operation at a time, so an operation is a program counter and a
record: locking, minting, intent, replace, ack for a commit, leasing for an acquisition.
The file lock is `flock`. Any step may fail (an append also after its record was
written), a process may die between two file operations, which frees its lock, and a
caller may drop its future, of a commit, an acquisition (`Abandon`) or an open
(`AbandonOpen`), while Tokio's blocking pool still works: the locks are free, the
operation's effect moves to `stray` and happens later (`StrayEffect`). Opening takes the
lock, loads the log, closes the open intents whose digest is the durable one, in order,
and hands the handle out; a log with a conflict is put aside or fails the open. A
snapshot stands for its digest. Deletion takes no lock, as in the code.

Five variables are history: `durable` (what a session file ever held), `aside` (the
records of logs that were put aside), `fresh` (stray appends since whose abandonment
nobody has read the log), `overtaken` (a stray append came after another handle had read
the log) and `disturbed` (recoveries during which a stray intent or replacement took
place). The last three state the conditions of `LogLoads` and `RecoveryComplete`. Left
out: legacy and component files, artifacts, checkpoints, encryption, commit watchers, and
a line torn by a crash in the middle of a write.

## What the runs show

Scheduler:

* `quotas` (three calls, two closers, two quotas of limits 1 and 2 that requests
  disagree about, one slot, a queue of two, one retained record; 1.4 million states):
  `QuotaAccounting`, `NoLeakedSlot`, `WorkConserving`, `ShutdownDrains`,
  `ImplementsLimits`. With three calls one can hold while two wait, so that the first
  in the queue may be blocked by a quota and passed; two closers race for the shutdown;
  one retained record makes eviction happen.
* `aging` (three priorities, one tick, one health probe; 2.3 million states):
  `NoOvertaking`, `AgedNotStarved`. One tick lets an item pass a class boundary, and a
  probe lets the actor run without an admission.
* `progress` (three calls and a shutdown, one slot, a queue of one, so that it
  overflows; 113,000 states): `AcquireReturns`, `ShutdownReturns`, `QueueEmpties`.

Run control:

* `inbox` (two callers, two ids, steers and an interrupt that name turns, deadlines and
  other runs, three submissions, one retained receipt, one turn, one tick, both runtimes;
  1.7 million states):
  `AcceptedOwned`, `AppliedMeansLogged`, `PostsInOrder`, `InterruptIsLast`,
  `ReleaseProofSound`, `EffectOnce`. Three submissions let a retry meet both a queued
  control and one in flight, and with one receipt retained decided ones are trimmed and
  their ids admitted again, so that a second effect can happen and is counted.
* `inbox_progress` (queue and receipts of one, so that both limits are reached;
  31,000 states): `AcceptedDecided` when hooks return, and `CancelGetsThrough` also
  with hooks that only return once the run is cancelled, the case in which taking the
  admission mutex to cancel would be a deadlock. It promises the token or the end of
  `CanRequestCancel`, not more: see the end of the next section.

Run ownership:

* `run_owner` (357,000 states; four scenarios: a host cancels two streams in a row, or
  a blocking call; close meets an operation without a run followed by a stream, or a
  blocking call): `SingleFlight`, `CancelHonoured`, `LaterUntouched`, `RunSettles`. Two
  calls in a row are what it takes for an asker to outlive the run it observed.

Sub-agents:

* `subagents` (227,000 states; one child of each kind with every disturbance and no
  room for terminal records, the fan-out with each combination of deadline and target; two
  branches, two background children, or a background and a foreground child, with room for
  one or two): `RunningNotQueued`, `RetentionBounded`, `OneAnnouncedEnd`,
  `CancelledBackgroundEnds`, `FanoutReturns`. `RetentionBounded` excepts the records whose
  process was dropped before it queued them. `CancelledBackgroundEnds` is about a token
  cancelled before the child's future first runs, the case a close that lists running
  records may miss. `FanoutReturns` is about a fan-out with a deadline, or one whose session
  closes; without either a hanging branch holds it, in the model as in the code.

Lane queue:

* `lane_queue` (236,000 states; an external command and one of any mode, one slot, two
  attempts, one host): `AnnouncementsPaired`, `NothingRegisteredAfterShutdown`,
  `WaiterHasSender`, `CommandsAnswered`. Two attempts let a retry meet the entry of the
  first; host, timeout and shutdown compete for one entry.

Confirmations:

* `confirmations` (125,000 states; two calls of a child, one with a deadline, and one of
  the parent, all with one id): `UndecidedIsPending`, `ApprovalIsReal`, `NoDeadRequest`,
  `CloseSettles`. With one id every request collides with every other.

Session store (two handles are enough for every race between two processes):

* `store_commits` (one session, two snapshots, two calls, one crash, calls and opens
  dropped at any await; 171,000 states): `LogLoads`, `SnapshotAnnounced`,
  `CommittedWasDurable`, `RecoveryComplete`, `OperationsEnd`. Two calls let a commit fail,
  or be dropped, and meet another, and with their reopenings they reach conflicts and
  quarantine. The safety properties among them are proved for any number of handles,
  sessions, calls and crashes, so the run can be small; it is there for the mutants and
  for `OperationsEnd`.
* `fencing`, `sequences`: must fail, see below.

Bounds named `Max...` stop the state space and are no limits of the code, except
`MaxActive`, `MaxPending`, `MaxQueue`, `MaxSeen`, `MaxParallel` and `MaxAttempts`, which
are the code's own limits at small values. Deadlock is checked in `aging`; in the other
runs a scheduler that was shut down, a run, a command or a call that has ended, or a
store whose calls are used up really stops. The type invariants are proved, and no run
repeats them.

### Fairness

* Scheduler: Tokio polls the actor and every woken caller, so each is weakly fair;
  a holder drops its lease (RAII, the caller's duty). Nobody has to start or cancel.
* Run control: a submission whose hook returned goes on; the worker reaches its safe
  points; ending the run is strongly fair, since it needs the admission mutex, which
  Tokio's mutex grants in FIFO order. Hooks return, or in `inbox_progress` wait
  for the cancellation, which nobody has to request.
* Run ownership: the launch has no await before its end; worker, guardian and committer
  are polled. That a conversation and a model call come to an end is an assumption on the
  environment: rounds are bounded, but a model call has no timeout unless one is configured
  (`agent.rs:238`, `None` by default, `agent.rs:415`), and the parent's idle timeout does
  not abort a child's call (`fact_control/model_call.rs:194-196`). So is that hooks return:
  one that keeps the inbox's admission mutex also keeps the guardian from settling it.
  Nobody has to cancel, close or abort, and no worker has to be lost.
* Sub-agents: the second half of a tracker operation follows the first; a child goes on
  except while its run is under way, and a run whose token is cancelled returns; the
  fan-out's timers fire, where it has them; a close goes on. Nothing makes an uncancelled
  child return, a host act, or anybody be dropped.
* Lane queue: a free slot is given to a waiting command in the end (strong fairness,
  a3s-lane's duty), commands the lane runs return, the handler's timeout fires, and a
  completion or shutdown that has begun goes on. No host has to answer.
* Confirmations: a call that is not waiting for an answer goes on, and a close that has
  begun too. No host has to answer and no deadline has to exist.
* Store: the file system answers, so a started operation goes on without having to
  fail, and a waiter for the file lock is served if it is free again and again (strong
  fairness of `Lock` and `Open`). A call that outlives its future takes effect. No
  crash, failure or call has to happen.

### Where code and documentation disagree

Two runs must fail; `PROJECT.json` quotes the lines:

* `fencing`: taking the writer lease does not take the file lock, so a commit whose check
  came before a takeover can land after it;
* `sequences`: the file lock lives in the commit's future, the append in a blocking thread.
  A commit dropped in the append frees the lock, the next one mints the same sequence, and
  the log holds two intents with it, which `load_entries` refuses. `LogLoads` states what
  remains true: the log loads unless such an append came behind another reader.

The models also show these, which no run records.

Against a comment or a document of the repository:

* a Release handled before its own Enqueue leaves a cancelled item queued, and counted,
  while capacity is full (`task_scheduler.rs:919`, against `task_scheduler.rs:592-594`);
  it is not lost for ever, as `QueueEmpties` shows;
* a second `shutdown()` returns at once, while leases may still be held, though
  `task_scheduler.rs:700` says that it waits; `ShutdownDrains` speaks of the winner;
* quota conflicts count as `rejected`, which `task_scheduler.rs:361` explains as
  rejected by a closing scheduler;
* a control's deadline is compared with a clock read before the awaits
  (`run_control.rs:675`, against `manual/HARNESS_EVIDENCE.md:438`);
* a compare-and-swap compares before it takes the file lock (`file_store.rs:945`,
  against `store/mod.rs:97-99`);
* two acquisitions of the writer lease at once write the same epoch, though
  `lease.rs:18` says that each bumps it;
* recovery closes the intent of a failed attempt along with that of its retry with the
  same snapshot, so the log shows one more generation than was put in place
  (`wal.rs:4-7`);
* close marks the running sub-agents cancelled (`session_close.rs:248`), but only those
  with a canceller: a foreground child that bailed out after its start was recorded
  (`tools/task.rs:885-944`) stays running in the tracker;
* a child's cancellation can withdraw the parent's own request, when both use one id
  (`child_run.rs:184-185` says that the forwarded ids prevent it); the withdrawal is a
  decision and no approval, so no property here forbids it.

Behaviour worth knowing, which nothing in the repository contradicts:

* run control: a hook that holds the admission mutex and waits for the cancellation, when
  its worker is lost and joined before the host's second check, is never let go: the
  request is refused from the join on (`publication.rs:316`) and the guardian waits for
  the mutex in `persist_pending`. `CancelGetsThrough` ends at the join, and
  `AcceptedDecided` speaks of hooks that return;
* tracker: a cancelled record evicted before its child has ended is made again by that
  end, as completed or failed; `cancel()` between the record of an end and
  `clear_canceller` returns true for a task that has ended; a child, a cancel, a close
  or a fan-out dropped between changing a record and queueing it leaves a terminal
  record outside the cap, a child aborted earlier leaves a running record, and its
  canceller stays; a background child whose capability subtask closes uncleanly
  announces a second, failed end;
* lane queue: a completion may be announced before its pending event;
  `complete_external_task` returns true although the waiter has timed out; a lane
  timeout leaves an entry that only a retry, a host or the shutdown removes;
* store: a log may be put aside after another open has repaired it, with the intents of
  commits under way (`file_store.rs:81`); `SnapshotAnnounced` counts the records put aside;
* confirmations: a call rejected by one manager still waits for the other; a forward
  used up by another call with the same id, or interrupted by a deadline, leaves a
  request pending at the parent that no call waits for (`NoDeadRequest` excepts both);
* runs: an attachment refused by a racing close leaves the inbox bound but not
  installed, and a run whose admission failed after it was created has no inbox: both
  stay with their guardian for ever, with the session's admission and the scheduler's
  lease; a worker lost between sealing its verdict and storing it leaves a record that
  never becomes terminal (`RunSettles` names these causes); a cancellation that finds
  the inbox bound between its two checks is refused, though a close fires the parent
  token all the same.

## What is proved

`TaskSchedulerProofs` proves, for every set of calls, quotas and closers and every
limit, from the assumptions named in `TaskScheduler.tla` (requests name a
priority of 0..4 and a slot or a quota, limits are natural numbers, at least one
slot, a positive aging interval, and the two sentinels are no tasks or quotas):

| Theorem | Says |
| --- | --- |
| `TypeCorrect` | every variable keeps its type: effective priorities stay in 0..4, no counter falls below zero |
| `HoldersBoundedAlways` | the leases held never exceed `max_active` nor any quota limit |
| `QuotaAccountingAlways` | the live quotas are the ones in use, with exact counters |
| `ShutdownDrainsAlways` | after the winning shutdown returned, no lease is held or on its way and the queue is empty |
| `NoLeakedSlotAlways` | every active entry has a caller that holds its lease, is about to receive or return it, or has sent its Release |
| `WorkConservingAlways` | when the actor waits for a message, no queued item could be admitted |
| `NoOvertakingAlways`, `AgedNotStarvedAlways` | whom an admission may pass over |
| `SchedulerImplementsLimits` | the scheduler implements `AdmissionLimits` |

None of the safety properties is inductive. `IndInv` conjoins

* `TypeInv`: the types, and that no item was enqueued in the future (aging subtracts
  times);
* `SlotInv`: a call is in at most one of channel, queue and active map and where it is
  agrees with its caller's state (`OnePlace`); every lease held or on its way is backed
  by an active entry (`Backed`); active global entries are within `max_active`
  (`SlotBound`). `Backed` is what makes limits on the actor's map limits on callers;
* `ShutdownInv`: what is left in the channels and the queue once closing is set, for
  every place the actor may be at;
* `QuotaInv`: every live quota counts exactly the queued and active items that name it
  (`Exact`), its limit is the one each of them asked for, and only quotas in use live.

The proof has one lemma per action and conjunct. Helpers of the quota bookkeeping have
lemmas about the fields they return, and the cardinality lemmas (`OnAdd`, `OnRemove`)
carry the counting. `WorkConserving` is inductive once it is stated from the end of a
handler on (`Conserved`). The two action properties compare effective priorities, which
the actor computes before it dispatches: `AgingInv` says that while it dispatches all of
them were aged at one moment, not after now, so that the order of two effective
priorities is the order of what they were requested with and when (`AgedOrder`, from the
monotonicity of division), and `AdmitsSelected` that the admitted item is the first
eligible one of that order. Refinement follows from `IndInv`: receiving a lease maps to
a Grant, whose limit holds because the holder is backed by an active entry.

`ConfirmationsProofs` proves `ConfirmationTypes`, `UndecidedIsPendingAlways`,
`ApprovalIsRealAlways` and `NoDeadRequestAlways` for every set of calls and ids, every
assignment of ids and every choice of managers. The
invariant adds that a manager's map holds requests under their own ids, of calls that
asked it (`Keyed`), that nobody answers what was not asked, that an approval in a
channel was granted to that call (`ApprovedGranted`), and that what a call has to ask is
fixed from its beginning until its approval (`AsksFixed`). `NoDeadRequest` has an
invariant of its own on top (`Left`): a delegated call that may still be pending at the
parent has its id forwarded or its forward was lost (`Forwards`), and one on its way to
the parent's manager has left the child's (`LeftChild`).

`LaneQueueProofs` proves `LaneTypes`, `NothingRegisteredAlways`, `WaiterHasSenderAlways`
and `AnnouncementsPairedAlways` for every finite set of commands and hosts and every
number of slots and attempts. The inductive invariant conjoins the types, that nothing
is taken before the shutdown takes it, and the three properties: `AnnouncementsPaired`
counts the closers that have not announced yet, so it needs `NothingRegistered...` for
the shutdown's take of the map, and cardinality lemmas for one closer more or less.

`RunOwnerProofs` proves `RunsTyped`, `SingleFlightAlways`, `CancelHonouredAlways` and
`LaterUntouchedAlways` for any number of operations, any scenarios and any hosts, from
`NoneAssumption` alone. The inductive invariant `Safe` conjoins

* `TypeOK`; it is not inductive by itself, because a record takes its status from the
  verdict, which must have been given by then (`SealedFirst`);
* `OwnerInv`: who is between admission and release holds the admission (`Holds`),
  nothing of a run exists before its launch (`Unlaunched`), a guardian goes on only
  after its worker has ended (`Joined`), a worker that emptied the slots never returns
  to them (`Retired`), and what `qualify_release()` has seen stays true of a released
  run (`Proved`). `SingleFlight` follows: something open means launched and not
  released;
* `VerdictInv`: a worker that has not sealed leaves the verdict open, the record agrees
  with the verdict, and an accepted request has fired the token before it;
* `AskInv`, `AbortInv`: an asker that waits has found an original and keeps to it, and
  the abort list holds a worker of the registered original only.

The steps of the worker, of the tasks, of the guardian, of admission and of the askers
are first shown to be moves of five kinds (`WorkerMove`, `TaskMove`, `GuardianMove`,
`CallMove`, `AskMove`) that state what the invariant needs of them, one step per
action; then each kind of move is shown to be safe.

`RunControlProofs` proves `RunControlTyped`, `AcceptedOwnedAlways`,
`AppliedMeansLoggedAlways`, `PostsInOrderAlways`, `InterruptIsLastAlways`,
`ReleaseProofSoundAlways` and `EffectOnceAlways`: all the safety properties the runs
check, for any callers, ids, requests, hooks and turns and any limits of the queue and of
the retained receipts, from the assumptions named in `RunControl.tla` (the fields of a
request, natural limits, and a None that is neither a caller nor a receipt). The
inductive invariant `InboxInv` conjoins the types and

* `CallInv`: exactly the submission between the hook and its record holds the admission
  mutex, and the receipt it has still to observe is the latest one, Accepted and seen by
  no post-hook. Everything that decides receipts takes that mutex, which is why the
  receipt cannot be decided, let alone observed, before it is recorded as Accepted;
* `CountInv`: numbers given out and submissions that may still get one are no more than
  the submissions made;
* `ReceiptInv`, `OwnedInv`: a receipt is filed under its id with a number of its own, and
  the Accepted receipts are the controls in the queue and in flight, each in one place;
* `PostInv`: one terminal receipt of a control at most is on its way to a post-hook, and
  only while none was seen;
* `InterruptInv`, `SealInv`, `LogInv`: the token of a retained interrupt has fired or its
  submission is about to fire it; a clear observation is one of a closed inbox; the log
  holds only numbers given out;
* `TodoInv`, `EffectInv`: what the loop drained is in flight, or was settled by a close,
  which trims nothing, so `mark_applied` never finds a receipt that is Applied already;
  effects, with an event on its way counted, are at most the trimmed receipts plus one if
  the retained one is Applied.

Submissions, closes and the fact runtime's persistence are first summarised: `Takes` (one
control is taken in) and `Decides(V)` (every Accepted receipt i becomes V[i]), each
followed by a trim that drops terminal receipts only (`TrimmedTo`). Which of them it drops
is left open, so the theorems hold for every order of eviction; the order of retention
itself is no part of `TypeOK` for that reason. That `BySequence` lists a finite set
rests on `SortedListing` of `NumberLemmas`, shown there by a least counterexample, since
the prover has no induction over data.

`SubagentTasksProofs` proves `SubagentsTyped`, `RunningNotQueuedAlways`,
`RetentionBoundedAlways` and `OneAnnouncedEndAlways` for every finite set of tasks, every
world and every limit (assumed: tasks are neither the roles "host", "close" and "fan" nor
None, and a fan-out has a deadline or a target). Every step is a move of the tracker
(`TrackerMove`) together with moves of a child or of the fan-out; dropping a process moves
its task to `unmarked`. `QueueInv` adds to the first two
properties that a task is queued once and by one process: a task that a process has still
to queue (`toMark`), between the two halves of recording its end, is terminal, not queued,
and no other process's to queue. `EndInv` says for each place a child may be at how
many ends it has announced (`EndAt`), and which branches the fan-out has still to announce
(`FanInv`); `FanFree` that the fan-out is in no tracker operation when it cleans up
nothing.

`SessionStoreProofs` proves `StoreTyped`, `CommittedWasDurableAlways`, `LogLoadsAlways`,
`SnapshotAnnouncedAlways` and `RecoveryCompleteAlways` for any number of handles, sessions,
snapshots, operations and crashes and whatever calls are dropped half way; the conditions
of `LogLoads` and `RecoveryComplete` are part of the properties. `DurableInv` says that
what is in place, what a commit is about to acknowledge and what an abandoned one still
will, was durable. `StoreInv` adds that whoever is past locking holds the file lock
(`LockInv`); that, until an append is overtaken, a minted sequence is above the log's until
its intent is there, the intent is the only record with it until the commit ends, and the
same holds for the open intents a recovery has still to look at and for the fresh strays
(`LogInv`): a stray that nobody has read past is as good as an append under the lock; that
whoever replaces a snapshot, in its own step or in a stray one, has announced it
(`AnnounceInv`); and that in a recovery without disturbance an open intent that was
passed is not in place (`RecoveryInv`). The greatest sequence of a log exists by a least
counterexample.

Only model-checked: the liveness properties (`AcquireReturns`, `ShutdownReturns`,
`QueueEmpties`, `AcceptedDecided`, `CancelGetsThrough`, `RunSettles`,
`CancelledBackgroundEnds`, `FanoutReturns`, `CommandsAnswered`, `CloseSettles`,
`OperationsEnd`): the prover does not handle fairness and `ENABLED`. Every invariant and
action property that a passing run checks is proved.

## Plan

What is left, in this order:

1. Proofs: the steps that the liveness properties take, as far as they are safety (what an
   action leads to, what stays until it happens).
2. `SnapshotMap`, the abstract store of `store/mod.rs` and `memory_store.rs`, and
   `SessionStore` shown to implement its unconditional saves as long as nothing is dropped;
   component saves and session persistence on top.
3. `EventLog`, `GoalControl`, `WorkflowBudget` with checkpoints, the dynamic workflow's
   lease.

## Not modelled

Parts that are I/O, text or data: model clients, MCP, the workspace and its back ends,
code intelligence, permissions (matching of strings), memory, research, planning,
skills, prompts, configuration, telemetry, the bindings and the ACP server. They have
no state shared between tasks that the properties here could speak of, or their control
flow is decided by the content of texts. The vendored user interface, the website, the
examples and the live tests are not part of the runtime. `PROJECT.json` gives the
reason for each component.
