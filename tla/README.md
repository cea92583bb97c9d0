# Koder: TLA+ models, model checking and proofs

Koder is a terminal coding agent: one Python process per terminal, an asyncio
event loop in each, and a home directory (`~/.koder`) that several processes
share. This project models the parts whose correctness depends on the order in
which processes, callbacks, retries and crashes interleave, checks them with TLC
and proves what matters most with TLAPS.

## 1. Inventory

| Component | State it keeps | Operations | What is hard | Correct when |
|---|---|---|---|---|
| Cron (`harness/cron`) | one JSON document of jobs and run receipts, one OS lock file per job, per-process queue | create, delete, tick, claim, dispatch, acknowledge, stop | processes tick the same minute; crash between claim and acknowledgement; delete while queued | a job runs in one process at a time, no claimed delivery is lost, none is repeated after its acknowledgement |
| Shared task list (`harness/tasks/storage.py`) | one file per task, high-water mark, redo journal | create, update, delete, block | several files change in one edit; a crash or I/O error between any two | edits are atomic, dependencies symmetric and never dangling, identifiers never reused |
| Team tasks and memberships (`teams/task_service.py`, `service.py`, `in_process.py`) | tasks with owner, claim and revision; teams and members with generations; one loop per in-process member | create, claim, update, finish, block; create and delete teams; register, deactivate, reactivate; run, stop | hooks run between two transactions; members and teams are replaced meanwhile; late outcomes; rejected completions | one claim per task, one task per member, nothing in progress without an active owner, an old generation changes nothing, every claim ends |
| Channel inbox (`harness/channels/inbox.py`), its consumer and shutdown (`harness/session_flow.py`) | directory of message files, entries, queue, reservations, lock, consumer task | put, get, finish, close; turn, cancellation | disk operations run in threads while other tasks move; any of them may fail or be cancelled | within its limits, first come first served, nothing lost or run twice, shutdown ends |
| MCP servers (`mcp/reconnection.py`) | current connection, leases, retired connections, cleanup attempts | call, reconnect, retire, close | a connection is replaced while calls run on it; cleanups fail; shutdown during a reconnection | no call on a torn down connection, no connection forgotten, every wait ends |
| MCP authorization (`mcp/runtime_authorization.py`, `project_approvals.py`) | approvals file, revocation, operations in flight, cleanup | admit, validate, revoke, disable, approve, reset | approvals change in another process; sources drift; operations call operations | torn down only when nothing runs, nothing admitted after the approval was reset |
| Goals (`core/goals.py`, `core/goal_runtime.py`, `tools/goal.py`) | one row per session: objective, status, budget, usage | replace, update, pause, account, continue | user commands and the model's tool calls between the transactions of a turn | budgets stop the loop, a turn charges only its own goal, what stops a goal holds |
| Agent service (`harness/agents/service.py`) | a record per agent with mailbox and run lock, background tasks | launch, resume, send, settle, cancel, close | several runtimes share the record; transactions fail; a runtime dies | one runtime runs the agent, one outcome per execution, no message lost |
| Token refresh (`auth`) | token file, Keychain, lease | get, refresh, commit, login, logout | processes refresh one rotating credential while the user logs in or out | a login or logout stands, what is stored can be refreshed |
| Plugins (`harness/plugins/lifecycle.py`) | plugin root, registry, backup, journal | install, upgrade, uninstall, recover | exception or death at any file operation | payload and registry agree with what was reported |
| Checkpoints (`harness/checkpoint.py`) | file snapshots per turn, manifest | record, prune, restore | numbering of prompts and turns; failed snapshots | a prompt restores what there was when it was sent |
| AutoDream (`harness/memory`) | candidates and receipts, lock | stage, approve, reject, reconcile | death between two file operations | every candidate decided once, the queue within its bound |
| Session store and transcript (`core/session.py`, `harness/memory/compact.py`, `core/scheduler.py`) | SQLite items | append, replace, compact, rewind, repair | history rewritten while a cancelled run still saves | the model gets tool calls paired with outputs, nothing disappears unsummarized |
| Worktrees (`tools/worktree.py`) | checkouts, branches, a session per runtime | enter, exit with keep or remove | every git command can fail; the user and other runtimes act between them | no work or commit destroyed unasked, nothing left behind |
| Permissions and approvals (`harness/permissions`, `tools/permission_context.py`, `core/queued_input.py`) | rules by source, mode, approval line and generation | judge, ask, answer, save, mount, close | answers for a prompt that was closed; rules shared by sessions | deny wins, nothing runs unallowed, an answer belongs to what is on the screen |
| Team mailboxes and requests (`teams/service.py`) | mailbox files, plan approvals, shutdown requests | route, consume, request, answer | consumption racing deletion, identities registered again | no message of a former generation is delivered |
| Prompts queued while a turn runs (`core/queued_input.py`) | pending inputs | submit, drain | drained by any tool that shares the tool objects | a prompt reaches one turn |
| Agent worktrees (`harness/worktree`), background shells (`tools/shell.py`) | directories, processes | create, clean, run, kill | rollback of partial creation, exits nobody sees | nothing leaked |
| Transports, UI, file tools, sandbox, hooks, MCP OAuth | | | wire formats, rendering, pure I/O | not modelled |

Components interact through files under `~/.koder` (cron, tasks, teams, agents,
plugins, tokens, approvals), through the SQLite session (goals, transcript),
through asyncio tasks and queues inside a process (cron consumer, teammates,
background agents, channel inbox, reconnection), and through hooks, which run
user programs between two transactions of the same operation.

## 2. Plan

| Modules | Subject | State |
|---|---|---|
| `CronLedger`, `CronDelivery`, `CronDeliveryProofs` | durable cron delivery; refines the ledger | checked and proved |
| `TaskGraph`, `TaskStorage`, `TaskStorageProofs` | shared task list and redo journal; refines the graph | checked and proved |
| `TeamTasks`, `TeamTasksProofs` | task list, memberships and teammate loops composed | checked and proved |
| `ChannelInbox`, `ChannelInboxProofs` | bounded inbox, its consumer, shutdown | checked and proved |
| `LiveHandle`, `ServerLeases`, `ServerTrust`, `ServerProofs` | MCP leases and reconnection, which refine the handle; authorization | checked and proved |
| `Goals`, `AgentRuns`, `Approvals`, `Transcript`, `SessionProofs` | goal accounting, background runs, permissions and prompts, the history of a conversation | checked and proved |
| `Candidates`, `TokenRefresh`, `Worktrees`, `Checkpoints`, `PluginInstall`, `StoreProofs` | what several processes, turns or operations share on disk; plugin transactions | checked and proved |
| `MCServices`, `ServicesProofs` | the small instances of the last three rows, side by side | checked and proved |

Left: prompts queued during a turn, team mailboxes with their requests, agent
isolation worktrees, background shells, and cron expressions as an algorithm.
Every safety property that a run checks is proved.

`MCTaskStorage`, `MCCronDelivery`, `MCTeamTasks` and `MCChannelInbox` are the
instances of sections 3 to 6. `MCServices` holds twelve parts that share no
state, side by side: a behaviour belongs to one part, chosen at the start, and
the others stay as they were. So `services` checks the safety of each part as a
run of its own would, and `services_progress` the liveness of the six parts that
wait for something.

## 3. Durable cron jobs: `CronLedger`, `CronDelivery`

**Code.** `~/.koder/scheduled_tasks.json` holds the jobs and, per job, a
receipt: a pending and a completed minute (`cron/storage.py`). Every access to
the document takes the storage lock, so each is one step. A claim takes the
job's OS run lock without waiting, then stores the pending minute; the lock is
held until the prompt has run and is acknowledged, dropped or abandoned.
`cron/scheduler.py` ticks once per polling interval: it reads the clock, the
jobs and the pending receipts one after the other and claims what is due.
`cron/runtime.py` queues the claims and runs their prompts in one consumer task.

| State | Code |
|---|---|
| `tasks`, `runs` | "tasks" and "runs" of the document |
| `runLock` | the lock file of each job and the process that holds it |
| `mode` | runner not started, started, inside `stop()` before and after the scheduler's last tick began, stopped |
| `pc`, `tickMinute`, `todo`, `claiming` | where a tick or `enqueue_job` is, and what it has read |
| `fired`, `firedMinute` | `_fired_this_minute`, `_last_minute_key` |
| `queue`, `pendingIds`, `running` | the runner's queue, `_pending_job_ids`, the claim being run |

`TickBegin`, `TickList`, `TickScan`, `TryLock`, `ClaimStored`, `ClaimRefused`,
`ClaimFails` and `TickEnd` are a tick cut at its file accesses; other processes
move between any two of them. `Dispatch`, `DropStale`, `RunSucceeds`, `RunFails`
are the consumer, which cannot move while a tick of its own process is in
progress (`LoopFree`). `Crash` loses memory and releases OS locks at any point.
Schedules are constants: the minutes an expression matches.

**Runs.** `cron` has two processes, a recurring job due in both minutes and a
one-shot due in minute 0. Its bound `Small` keeps either both processes on one
job at a time or one process with both jobs: the first shows every race between
processes, the second every order of one queue. The run asks that run locks,
queues and filters agree (`ClaimsAccounted`), that every claim has its receipt
and receipts only advance (`ReceiptsTruthful`), that a receipt goes only with
its acknowledgement or its job, an acknowledged minute is not delivered again
and a deleted job stays deleted (`DeliveriesSound`), that the processes
implement the ledger (`ImplementsLedger`), and that a claimed delivery is
acknowledged and a claimed one-shot removed (`ClaimsSettle`).
`cron_blank_prompt` is the expected violation below.

A tick scheduled before `stop()` can still begin inside it (`settling`); a second
bound, `SettlesAlone`, lets that happen only while the other process is down. A
tick that read minute 0 can claim in minute 1, a recovery can come outside its
own minute, and a job can be deleted in every phase of its claim. Jobs are created at most once each because `uuid4`
names are not reused. Crashes, stops and failures do not happen in the last
minute (`Disturbance`, `ClaimFails`, `RunFails`), nor does a tick begin inside
`stop()` there (`TickBegin`), which gives the temporal properties
the quiet period they need and takes nothing from the safety properties: the
same steps are possible in the minute before.

**Fairness.** The clock advances, a stopped or dead process is started again, a
started tick goes on (weak). The consumer gets strong fairness: ticks of its own
process disable it again and again, and asyncio runs ready callbacks in turn.

**Finding.** `_enqueue_claim` (runtime.py:91) declines an empty prompt, but the
claim has stored its receipt by then. `cron_create` accepts an empty prompt, so
such a one-shot is claimed and declined for ever and never removed, although the
tool's documentation says it fires once and is deleted. `cron_blank_prompt`
shows the behaviour.

**Proved**, for any number of processes, jobs and minutes: every property of
the run except liveness. `CronInv` is the types, `ClaimsAccounted`,
`ReceiptsAdvance`, `ClaimsKnown` and `DeletedIsForgotten`. The parts of
`ClaimsAccounted`, `LocksMatchClaims` and `PendingIdsExact`, are inductive only
together: that the consumer releases the lock of a job it really holds follows
from the queue's distinctness, and that a new claim is not queued twice follows
from the lock. `ClaimHasReceipt` needs `ClaimsKnown`, because a tick stores a
receipt several steps after it read the job. `ExclusiveRun` (a job runs in one
process at a time) is a consequence of `LocksMatchClaims`. The refinement
(`DeliveryImplementsLedger`) follows step by step from `CronInv`: storing a
receipt is `Owe`, taking a claim from the queue `Start`, success `Settle`,
failures, shutdown and crashes `Abandon`, and ticks, locks and queues stutter.

**Not modelled.** Prompts queued without a job, callbacks without production
callers, the syntax of expressions, corrupt documents.

## 4. Shared task list: `TaskGraph`, `TaskStorage`

**Code.** `tasks/storage.py` keeps one file per task, `.highwatermark` and, while
an edit is being applied, `.transaction`. One file lock covers an operation
from its first read to its last write, so operations do not interleave; a crash
or an I/O error can end one between any two file writes, and `_with_lock` replays
the journal before the next one starts.

| State | Code |
|---|---|
| `file[t]` | `<t>.json`: status, `blocks`, `blocked_by` |
| `hwm` | `.highwatermark`, 0 when missing |
| `journal`, `todo` | `.transaction`, and the entries the current replay has not applied |
| `pc`, `target` | which operation holds the lock and how far it got |

`Lock`, `ReplayWrite`, `ReplayDelete`, `ReplayEnd` are `_with_lock` and
`_recover_transaction`; `Publish` is `_commit_graph_edit`; `CreateReserve`,
`CreateWrite`, `Update`, `AddBlock`, `DeleteMark`, `DeletePublish` are the
operations; `ReadOnly` stands for reads and for refused requests. `Fail` ends
any operation after any write. Replay order within the writes is left open.

**What it promises.** `TaskGraph` has a set of tasks, statuses, edges and the
numbers ever issued, changed by atomic actions. `ImplementsGraph` maps the
directory to it through `Committed(t)`: what the file will contain once the
journal is replayed. An edit happens in the abstract at the moment the journal
is published; replays and interruptions are invisible.

**Runs.** `tasks` starts from a directory with two tasks and no mark file (what
an older version leaves), has a third number to create, and two failures:
enough to fail inside an edit and again inside its recovery. It also checks that
a published edit reaches the files (`JournalDrains`).
Fairness: some process keeps using the list and an operation in progress
proceeds. No operation of this system can be stuck, so deadlock is checked.

**Proved**, for any number of tasks, failures and statuses: `TypeOK`,
`ReadersSeeWholeEdits`, `DependenciesSymmetric`, `ReservedIsFresh` and the
refinement. The inductive invariant `ListInv` adds `Progress` to them: what
`todo`, `target` and the files of finished journal entries are at every `pc`.
It is needed because the symmetry of the files is broken during a replay; what
is invariant is the symmetry of the committed records, and that operations
begin only where both agree. The refinement follows step by step from `ListInv`
(`StorageImplementsGraph`). Liveness is model-checked only.

**Not modelled.** Titles, owners and timestamps; damaged files; waiting for the
lock and its timeout; `TaskService`'s in-memory output text.

## 5. Team tasks, memberships and loops: `TeamTasks`

**Code.** A transaction of `TeamTaskService` holds the team's lifecycle lock and
the list's lock and checks the generation of the list: it is one step
(`Fenced`). Project hooks run outside transactions: creating a task, completing
one and deactivating a member are each two transactions with a hook in between,
during which anything can happen. A record carries an owner, a claim id and a
revision; a member-bound service stops working when the team or the membership
it was made for is over (`ScopeOk`).

| State | Code |
|---|---|
| `gen`, `up` | the team's generation; its configuration exists |
| `members`, `active`, `life` | entries of "members", their `is_active` and `generation` |
| `hwm`, `task` | `.highwatermark` and the task files |
| `creating` | creations between reservation and hook answer |
| `admin` | an update without a claim whose completion hook runs, with its snapshot |
| `leaving` | deactivations whose idle hook runs |
| `run` | the loop of a member: phase, scope, claimed task and claim, outcome, snapshot |

A loop goes `idle` - `launching` (claimed) - `running` (after
`_guarded_executor` read the claim again) - `done` (with an outcome) and then
through `_finish_task`: `Finish` is the first transaction of `finish_claim`,
`HookAccepts`/`HookRejects` what follows the hook, `Reread` and `FailClaim` the
second attempt after a rejection, `LoopEnds` the `finally` of the loop.
Generations are numbers, so a team or membership that comes back is told from
its predecessor; claims and revisions are drawn from small sets, always a value
that nobody remembers, which is what `uuid4` gives.

**Runs.**

| Run | Instance | Question |
|---|---|---|
| `team_handover` | 2 members (symmetric), 1 task, resets by the user | nothing in progress without an active owner (`OwnersAreActive`); owner, status and claim in step through resets and reassignments (`ClaimedIffInProgress`); terminal tasks stay, and an outcome is written only on the attempt that was executed (`OutcomesStand`) |
| `team_lifetimes` | 1 member, 2 teams, 2 memberships, completions by the user | types; a membership starts clean, what was started for a deleted team changes nothing in the next one, and a deactivation whose membership has gone ends nothing (`LifetimesApart`); a claim taken by a loop ends (`ClaimsEnd`) |
| `services`, part `team` | 1 member, 2 tasks | one task in progress per member (`OneTaskPerMember`); reserved numbers are exclusive while two creations of the team are in their hooks (`ReservationsHold`) |

In `team_handover` nobody is registered a second time (`MaxLife` is 1): of a
registration that meets a running loop only `team_lifetimes` and the theorems
speak.

`AdminStatuses` is what callers without a claim may set. `OwnersAreActive`,
`OneTaskPerMember` and `LifetimeStartsClean` are about systems where nobody sets
"in_progress" by hand: `update_task(status="in_progress")` checks neither
membership nor load. Two members and one task show every handover between
owners; two tasks and one member every conflict of its claims. One user
completion is in its hook at a time (`admin`), while every loop can be in its
own. Each action waits for a free claim and revision (`CanDraw`); with four of
each one is always free in these instances.

**Fairness.** A loop that has work goes on with it: agent runs end, hooks
return, transactions do not wait for ever. Nothing is assumed of users, of
claims or of stops.

**Proved**, for any members, tasks, teams and memberships (`TeamTasksProofs`): `TypeOK`,
`ClaimedIffInProgress`, `OwnersAreActive`, `OneTaskPerMember`,
`ReservationsHold`, `OutcomesStand` and `LifetimesApart`. The argument has one lemma per group of actions: every step keeps, releases,
removes, creates, takes or assigns a task (`Kinds`), and a member that leaves
or a team that goes leaves nothing in progress (`Revokes`). The
inductive invariant `Core` adds two facts: a loop with work knows its task,
outcome and snapshot (`LoopRecord`), and the completion whose hook runs is a
completion without a claim (`AdminCompletes`); without it `UpdateEnd` could
write anything. `ReservationsHold` needs that creations come from this team or
an earlier one, with numbers up to the high-water mark. `OutcomesStand` needs `SnapshotsAreOpen` as well: what a hook
was asked about was open when it was asked, and a task of the same revision
still is. Only `ClaimsEnd` is model-checked alone.

**Not modelled.** Mailboxes, plan approvals and shutdown requests; loop work
that comes from a mailbox; the `blocks` lists, which only decide whether `block_task` rewrites a record (`rewritten`); I/O
errors between two files of one transaction; the death of the process, after
which a claim stays with a member that is still marked active until the member
is registered or deactivated again: the code has no recovery for it.

## 6. Channel messages: `ChannelInbox`

**Code.** Messages of channel servers arrive in callbacks of the session's event
loop. `ChannelInbox.put` (`channels/inbox.py`) reserves a place without
suspending and starts an admission task that writes the message to a private
directory; the consumer of `session_flow.py` takes the oldest message, runs a
turn and records the outcome. Admissions, `get`, `finish` and `aclose` share an
asyncio lock, and their disk operations run in threads while they hold it.
Shutdown unregisters the callback, cancels and joins the consumer, and closes
the inbox.

| State | Code |
|---|---|
| `files`, `dir` | the state in each file name; the run directory exists |
| `entries`, `size`, `bytes`, `pending` | `_entries`, the record sizes, `_bytes`, `_pending` |
| `nextId`, `reserved`, `reservedBytes` | the sequence of identifiers, `_reservations` and their bytes |
| `adm[i]` | the admission task of a message: created, queued for the lock, writing, over |
| `holder`, `io` | the holder of `_lock` and its disk operation: in a thread, finished, failed |
| `fault`, `rejected`, `ready` | `_fault`, some rejection was recorded, `_ready` |
| `consumer` | its place in the loop, its message, the outcome, a cancellation not yet delivered |
| `owner`, `closer` | the phase of the session; where `_close` is |

A disk operation is three steps: its owner starts it under the lock (`Starts`),
the thread finishes or fails (`DiskDone`, `DiskFails`), the loop applies the
result (`Stored`, `Claimed`, `Finished`, `CloseMarked` and their failures).
Between them every other task may run, the directory is ahead of the entries,
and the owner may be cancelled: `await_owned_task` joins the operation first and
delivers the cancellation afterwards, which is why a cancelled claim leaves a
running message that nobody received. `asyncio.Lock` serves its waiters in
order. Admission tasks start in the order of their creation, so only the
consumer's place among them is kept (`queued`, `ahead`).

**Runs.** `inbox` has four arrivals of sizes 1, 2 and 4 for three places and
four bytes: two small messages fit together, two larger ones fill the bytes
before the places, one is refused by its size, and the fourth arrival meets a
full inbox or one that was emptied again. Any disk operation may fail, turns end
in every outcome, shutdown comes at any time. `MessagesKept` joins
`KeptUntilCompleted` and `NeverReplayed`, `InboxProgress` joins `TurnComes` and
`OnlyTurnsDelayShutdown`. The theorems below say the same of any number of
messages. Deadlock is not checked: the finding below is one.

**Fairness.** The event loop runs what is ready, threads finish and turns end.
Messages need not arrive, and the session need not be shut down.

**Finding.** With a terminal, a turn listens for ESC. A turn that was being
cancelled with ESC turns the `CancelledError` of the shutdown into an ordinary
return (`scheduler.py:866-869`), and so does one that is joining its listener
(`keyboard_listener.py:231-234`). The consumer then records an outcome, calls
`get` again and waits for messages that cannot come, while shutdown waits for
the consumer. `inbox_escape` shows it (`ShutdownEnds`); `inbox` shows that
nothing else can hold up shutdown (`OnlyTurnsDelayShutdown`).

**Proved**, for any number of messages, any limits and sizes: `TypeOK`,
`RecordsAgree`, `FirstComeFirstServed`, `WithinLimits`, `MessagesKept` and
`ClosedIsSettled` (`ChannelInboxProofs`). The inductive invariant `Core` says
that the lock and the operation belong to the task that is inside (`LockOwner`,
`Operation`), that admissions keep their order (`AdmissionOrder`), and what the consumer and the closer hold (`Holding`,
`Closing`). `Operation` is what makes the directory agree with the entries: when
a thread finishes, the file it changed is the one its owner will update next.
`ClosedIsSettled` needs `Settling` as well: once the admissions are joined only
the closer moves, so what it found is still true when its thread is done.
`BytesExact`, the part of `TypeOK` about the counters, is kept by every step once
it is known what one message more adds to a `Total`, which is proved by induction
on the identifiers. Liveness is model-checked.

**Not modelled.** The contents of records and their verification, which is one
more way for a claim to fail; permissions and the rate of warnings; puts and
deliveries after the callback was unregistered, which the order of the shutdown
excludes; the death of the process, after which the directory is left for the
user and never read again.

## 7. MCP connections: `ServerLeases`, `LiveHandle`, `ServerTrust`

**Code.** `mcp/reconnection.py` puts a handle in front of each server: a call
leases the current connection; when its session is gone a manager builds,
connects and publishes a replacement, with backoff; a retirement owner tears
replaced connections down once no call is left on them, and retries cleanups
that fail; closing the server set drains all of this.

| State | Code |
|---|---|
| `made`, `current`, `dropped`, `lease` | connections built, `_current`, lost sessions, the connection of each call |
| `rec`, `waits`, `att`, `closed` | the retirement owner's record, its `wait_until_idle`, its cleanup attempt, `_closed` |
| `mgr`, `closer` | where `reconnect_if_needed` and the shutdown are |

The locks of this module guard code without an `await`, so each such body is one
step; calls, waits, cleanups, connecting and backoffs suspend. `LiveHandle` is
what the handle promises: one current connection, a call keeps the connection it
began on, and what was given up is never current again and is torn down only
when no call runs on it. `ImplementsHandle` maps "given up" to the recorded
retirements and the closed connections, and "may be torn down" to those without
a wait. `HandlesAccounted` says that a leased connection is current or waits for
its calls (`LeasedIsOpen`) and that every open connection has exactly one owner
(`NothingForgotten`). `WaitsEnd`: reconnections, retirements and the shutdown end.

`ServerTrust` is one project server's `ProjectServerAuthorizationValidator` with
the approvals file that all processes share: an operation validates, reads the
sources, and is admitted under both locks; a reset, a drift of the sources or a
`disable` revokes; the last operation out starts the cleanup. `TrustIsSound`:
cleanup only when nothing is in flight, and always once revoked
(`ClosedAfterDrain`); nothing admitted after a reset (`NothingAfterReset`).

**Fairness.** Calls return, cleanups and connection attempts end, the loop runs
ready tasks; a lock is handed on (strong fairness for operations, which other
processes overtake at the approvals file). Nothing is assumed of drops, users
and the shutdown.

**Proved** (`ServerProofs`), for any number of calls, connections, attempts and
rounds: `HandlesAccounted` and the refinement, from `LeaseInv`, which adds that
the owner's records, waits and attempts fit each other (`LeaseOwned`), that a record
without its wait has no call left (`WaitsMatchCalls`), and that a backoff
follows an attempt that was not the last. For any finite set of operations:
`TrustIsSound`, from `Guarded`: who waits was refused, one operation at a time
is between the two locks, and the server is not disabled meanwhile.

**Not modelled.** Withdrawn handles and the owner of orphaned retirements,
`MCPConnection`'s task, configuration scopes and digests (a source is as
reviewed or not).

## 8. Goals, background agents, approvals: `Goals`, `AgentRuns`, `Approvals`

**`Goals`.** Every operation on the row of `session_goals` is one transaction,
but a turn makes several: it reads the goal, runs, reads it again, charges it,
stops it and reads it once more (`turn.at` is where it is). `/goal`, the goal
tools and other turns move between them; any transaction may fail
(`failures`). `row` is the row, `edit` a `/goal edit` between read and write,
`reported` the goal whose wrap-up turn was given. `spent` and `quiet` are history.
`GoalsAreSound`: an active goal has budget left; a goal is charged only for turns
bound to it; after a turn that failed or was cancelled nothing goes on unless
the user spoke. `HandleEnds`: the continuation loop ends, although users and
tools revive the goal.

*Proved*: `GoalsAreSound` for any budgets, costs, limits and failures.
`GoalInv` adds that what a turn still has to charge is part of what was spent
(`ChargeDue`) and that nobody but the turn has changed the goal it is bound to
while it was quiet (`BoundWhileQuiet`).

**`AgentRuns`.** One agent and the runtimes that share its record on disk. Each
change of the record is a transaction under the state lock that checks owner
and execution, and may fail; the run lock is freed by the operating system when
a process dies. `agent` is the record, `agentTask[r]` the background task of a
runtime, `checked` the runtimes between the two transactions of an idle cancel.
`AgentsAreSound`: who runs holds record and lock, an orphan is explained by a
death or a failed write, every message is acknowledged, in flight or pending,
once and in order, a run completes only with an empty mailbox, and the outcome
of an execution stands. `AgentRunsEnd`: tasks end and closing a runtime ends.

*Proved*: `AgentsAreSound` for any runtimes, rounds, messages, executions and
failures. `AgentInv` adds that a run that is over has recorded it or could not
(`EndRecorded`), that there is no mail between rounds (`RunsBetweenRounds`), and
that a runtime about to record a cancellation owns an open record
(`CancelsChecked`).

**`Approvals`.** Calls of the model are judged by mode and rules in one step;
then a classifier, the lock of the prompt and the user make them wait.
`rules`, `mode`, `planning` belong to a session, `stored` is the rules file that
all share, `line` the holder and the waiters of the broker's lock, `call` the
tool calls. A command is the set of its segments, a rule the words it covers.
`ApprovalsAreSound`: a denied command never runs, in no mode (`DenyWins`); what is
on the screen was put to the prompt that is open, and is the oldest question
(`ShownIsCurrent`); nothing runs unasked unless rules of a project or what the
user allowed for good cover all of it (`NothingSlipsThrough`); and what was
allowed for good is not asked again while sessions do not overlap and saves
succeed (`AlwaysHonoured`). `QuestionsEnd`: a question is settled once its prompt
is closed.

*Proved*: `ApprovalsAreSound` for any sessions, commands, rules, start modes and
calls, from `CallsJudged`, `LineKept` and `RulesKnown`: no judged call matches a
deny rule, the line and the calls agree, and no session knows a rule nobody
made.

**Fairness.** A turn's own steps and an agent's task go on; cancellations that
were checked are recorded; queued transactions get the lock in the end (strong
fairness); a free prompt goes to the first waiter and an answer is acted on.
Users need not answer.

**Not modelled.** Seconds of a goal; synchronous agents, their output files and
worktrees; the text of rules and commands, sandboxed commands, subagents without
an approver.

## 9. Shared on disk: `TokenRefresh`, `Candidates`, `Worktrees`, `Checkpoints`

**`TokenRefresh`.** A credential in the token file and, on macOS, the Keychain;
refreshing takes a lease, reads again, asks the provider, which accepts a
refresh token once, and commits unless login or logout came between. Callers
give up at deadlines, die, or are cancelled anywhere; stores can fail half-way.
`TokensAreSound`: what a reader may be given comes from the last login
(`UserCommandStands`), and what is stored can be refreshed (`StoredStaysUsable`)
unless a request or a write broke off half-way (`mishap`) or a model cache was
stored during a refresh (`overtaken`). *Proved* for any callers and credentials:
`TokenInv` says what a caller knows at each place (`CallsAreSound`), that ids are
fresh (`IssuedIsSound`), and what file and Keychain may hold (`StoreIsSound`).

**`Candidates`.** Every operation holds the lock but may end after any of its
file operations, so an operation is any beginning of its steps; reconciliation
completes it. `files[place]` are the candidates with a file in each directory.
`CandidatesAccounted`: a staged candidate is queued once or decided one way, the
queue keeps its bound, and no memory appears that was not claimed. *Proved* for
any candidates and bound; `QueueInv` adds that what waits is finite, without
which its size means nothing.

**`Worktrees`.** Runtimes that use one name, hence one path and branch. Every
git command and every change of the disk is a step; any may fail half-way, and
the user and other programs edit, commit, detach, delete and create between
them. `step`, `seen`, `session` are where a runtime is, what it inspected and
what it has recorded. `WorktreesAreSound`: a removal that looked destroys no work
and loses no commit but what came after it looked (`WorkKept`, `CommitsKept`), and a
runtime without a session has left nothing behind (`NothingLeft`). *Proved* for
any runtimes, checkouts, commits and disturbances: `SessionCovers` says that a
session is recorded until nothing of it is left, `RemovalIsSafe` what each step
of a removal relies on.

**`Checkpoints`.** The first edit of a file in a turn takes a snapshot under the
turn's number; `/rewind` counts the prompts of the transcript and restores the
oldest snapshot of each file from that number on. A snapshot is a record with
the time it was taken, which stands for its place in the manifest. `missing`
are the files with a snapshot not taken, pruned or not restored, `skew` tells
whether prompts and turns still count alike, `undone` which prompts a restore to
an earlier one has passed. `RewindIsExact`: every prompt of the list restores all
other files to what they were when it was sent. A prompt in `undone` is the
exception. `/rewind n code` leaves the transcript but consumes the snapshots of
prompt n and all later ones (checkpoint.py:248-257), so the list still offers
those prompts, "restore tracked files to that point" (interactive.py:3154), and
picking one restores what the last prompt before it outside `undone` would: the
property says which point that is. *Proved* for any files, turns, writes and
limit of snapshots: `Exactly` says of each prompt that one stands for it, itself
unless it is in `undone` (`StandsFor`), and of each file that it, or the oldest
of its later snapshots, has the content it had when that one was sent
(`KeepsPrompt`), and that snapshots taken later belong to later turns, so that
the oldest snapshot survives when a restore removes the later ones; after a
restore of the code the one that stood for the chosen prompt stands for all
later ones too.

**Findings.** `rewind_numbering`: after `/rewind` both, prompts and checkpoints
count differently (the counter is not set back), and restoring to a prompt
reverts edits made before it, against the comment at interactive.py:3143.
`worktree_adopted`: when `git worktree add` fails because another runtime was
faster, the partial result takes the other's checkout for its own and a later
removal deletes it (worktree.py:1241), although "existing paths are never
adopted".

**Not modelled.** OAuth flows, migration of token files; the dreaming itself,
its schedule and the queue's limit in bytes; names and paths of worktrees, a
process crash (documented: handles are not restored) and the isolation
worktrees of agents; changes of files by other programs than the file tools.

## 10. Plugins and transcript: `PluginInstall`, `Transcript`

**`PluginInstall`.** An operation is a plan, a sequence of file operations; each
may raise before, in the middle of or after its effect, and the process may die
there. The journal tells the next operation what to finish or undo.
`PluginsAgree`: when nothing is in progress, payload and registry agree with each
other and with what the operation reported, unless an exception left a backup
half removed (`torn`) or the recovery of an install was interrupted as well
(`again`): recovery is not idempotent. **Finding** `plugins_torn_backup`: the last
step removes the backup file by file; when that raises, the handlers move what
is left of it back over the complete new payload and report a rollback
(lifecycle.py:425).

**`Transcript`.** `history` are the items of the SQLite session; the SDK appends
while the model runs and, after a cancellation, for a while longer (`sdk`);
turns repair and compact, `/compact` and `/rewind` replace. `replace_items` runs
in a thread (`worker`) whose caller (`front`) may be cancelled before it commits.
`TranscriptIsSound`: when a run starts every call has its output and every output
its call (`ModelGetsPairs`), and nothing the SDK saved disappears unless it was
summarized, rewound or half a pair (`TranscriptKept`; not for the commands and
compactions that do not wait for a cancelled run, `crossed`).

Both are proved, see section 13.

## 11. The runs

| Run | Question | Distinct states |
|---|---|---|
| `cron`, `cron_blank_prompt` | section 3 | 336,208 and 287 |
| `tasks` | section 4 | 470,142 |
| `team_handover`, `team_lifetimes` | section 5 | 568,058 and 134,247 |
| `inbox`, `inbox_escape` | section 6 | 291,364 and 297 |
| `services` | safety of sections 7 to 10, `OneTaskPerMember` and `ReservationsHold` | 1,059,910 |
| `services_progress` | liveness of sections 7 and 8 and of `TokenRefresh` | 46,581 |
| `plugins_torn_backup`, `rewind_numbering`, `worktree_adopted` | the findings, until the violation | |

Bounds of `services` (Services.cfg), and why they are enough: two calls and five
connections with three attempts give every pair of a retirement and a
reconnection, and a cleanup that fails after a shutdown began; two goals, one
continuation and one failing transaction give a goal replaced under a turn; two
runtimes, two executions, two messages a run that dies and is resumed elsewhere
with mail; two callers and three credentials a refresh beside a login; three
versions and three faults an upgrade interrupted, recovered and interrupted
again; two files, three turns, three prompts, four writes and three snapshots a
rewind after a restore, to a prompt that a restore has passed and after pruning,
followed until prompts and checkpoints count apart (`Counted`: from there on
`RewindIsExact` says nothing); two candidates for one place; two
operations nested in each other; two prompts, one tool call and one failing
replacement; two runtimes, two checkouts, one commit and one disturbance; two
projects, a chain and a file write, two calls, started in the default mode, with
at most one call while two sessions run (`Roomy`). Larger instances were explored
once without an error: three operations of a server, three candidates for two
places, two disturbances of worktrees (2.5 million states), and wider start modes. `services_progress` uses smaller
bounds and no failures, because each part needs its own graph of behaviours; a
failure only adds steps that the bounds of the safety run cover.

History variables limit some properties, and each is named where the property
is: `mishap`, `overtaken` (tokens), `torn`, `again`, `told` (plugins), `missing`,
`skew` (checkpoints), `quiet`, `spent` (goals), `unrepaired`, `crossed`, `written`,
`accounted` (transcript), `maker`, `seen.late` (worktrees), `edited`, `linked`,
`everStaged` (candidates), `granted`, `apart` (approvals).

## 12. Noticed while modelling

No run shows these, because no comment or document says otherwise or because
they need a part that is not modelled.

- "Always" for a chain or a redirection saves a rule that never matches
  (permission_context.py:86-88 speaks of automatic approval in future); sessions
  that overlap forget each other's "always", and settings rules of one project
  are saved for all.
- Allow rules are consulted before plan mode, whose text says that writes are
  blocked (interactive.py:3249), and plan mode lets reads outside the workspace
  run unasked.
- Queued input is drained by any tool that shares the global tool objects, also
  into a turn that is being cancelled.
- Retirements orphaned by a second cancellation race their draining; the model
  cache of `/auth` is saved without the lease; recovering an interrupted install
  twice is not the same as once; a rejected candidate can have a memory if
  approving it was interrupted.
- `/compact`, `/rewind` and the compaction after a cancelled run do not wait for
  its late writes; a compaction that drops restored files can leave a tool pair
  at the end again; `replace_items` can spin when its worker is cancelled at
  shutdown.
- Mailboxes, plan approvals and shutdown requests are keyed by agent id and
  survive a registration of the same name; `/peers shutdown approve` ends the
  loop before it looks for a request.
- An agent worktree whose removal is followed by a death before the record is
  saved stays recorded; ignored files written after the check are removed with
  it; relocation by a WorktreeCreate hook leaks the first checkout.
- The monitor of a background shell does not see the exit while a grandchild
  holds the pipe. A member whose process died stays active with its claim
  (in_process.py:417).

## 13. What is proved, and the limits

43 theorems are listed in PROJECT.json: types and invariants of cron, the task
list, teams and the inbox, the three refinements (`CronLedger`, `TaskGraph`,
`LiveHandle`), and the safety properties of every module of sections 7 to 10.
Each follows the same three steps: an inductive invariant that holds initially,
is kept by every action, and implies the property; for an action property the
step itself is read off the invariant. The invariants were checked by TLC on the
instances above before they were proved. Where a step needs a least element of
a set of numbers (the oldest snapshot), it comes from the library's theorem that
the order of the naturals is well-founded.

`PluginsAgree` is the one with an argument over every point of every plan. While
a transaction is under way, what is left of its plan says exactly what is on
disk (`InstallAt`, `UninstallAt`). Wherever it breaks off, before, in the middle
of or after a file operation, the journal on disk says enough to recover
(`Recoverable`), and the handler of an exception can go back (`Promise`: what is
left of an undoing or recovering plan, and what must be on disk for it to end in
agreement). An uninstall keeps both through any number of interruptions
(`Resumable`); an install does not, and there the property says nothing
(`again`), because recovering an install is not idempotent.

`TranscriptIsSound` rests on three things. Who may be where: while a rewrite is
under way its caller waits for the worker, and only `/compact`, `/rewind` and the
compaction after a cancelled run meet an SDK that still saves (`FrontPlaced`,
`SdkPlaced`). What is rewritten into what: in every other rewrite the history is
still what was read until the worker commits, and from then on what was computed
from it (`RewritesKnown`). And which calls are open: none when a prompt was
repaired, at most the one the SDK is in the middle of while it runs
(`ToolsKnown`, which holds unless a repair failed). What the filters of the
history return (`OnlyFacts`) is proved by induction on the positions: the
positions up to which a claim holds are a set of numbers, and the least one it
fails at, which the well-founded order gives, contradicts the step (`CountUp`).
The totals of the inbox are proved about in the same way.

`ServicesProofs` is about the composition. `PartsKeepTheirSpecs`: a step of
`ServicesNext` is a step of one part and leaves the variables of the others, so
that `ServicesSpec` implies the specification of each of the twelve parts. With
it, what is proved of a part holds in the composition (`PartsStaySafe`), and
`PartsTypeOK` follows from the types of each part (`PartsStayTyped`). Most types
are in the inductive invariants already. Three need more: two snapshots are never
taken at the same write, without which the limit that `_prune` keeps would bound
their moments and not their number (`SnapshotsBounded`); a call that is over
leaves nothing behind (`SessionsTyped`); faults are counted (`FaultsCounted`).

The assumptions are those named in the modules: `CronConstants`,
`StorageConstants`, `TeamConstants`, `InboxConstants`, `LeaseConstants`,
`TrustConstants`, `GoalConstants`, `AgentConstants`, `ApprovalConstants`,
`CandidateConstants`, `TokenConstants`, `WorktreeConstants`,
`CheckpointConstants`, `PluginConstants` and `TranscriptConstants`. They say that bounds are natural numbers, that the value
for "none" is not one of the things it is none of, and that a saved rule matches
what it was saved for. TLC evaluates each in a run. Bounds are constants, so a
theorem holds for every bound.

Model-checked only: liveness under fairness, and everything with ENABLED.

## 14. Not modelled

Channel admission and routing; team mailboxes, plan approvals and shutdown
requests; prompts queued during a turn; cron expressions; MCP OAuth and provider
transports (protocols with one peer); shell classification, the sandbox and
hooks (no state of their own); the shell executor and background shells; todo,
plan and skill tools (one actor); agent assembly, the terminal UI, slash
commands and the CLI; file, search and web tools (pure I/O). PROJECT.json gives
the reason for each, and for each modelled part what was left out.
