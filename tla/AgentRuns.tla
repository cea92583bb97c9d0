----------------------------- MODULE AgentRuns -----------------------------
(***************************************************************************)
(* One background agent and the runtimes (koder processes) that share its  *)
(* record on disk: AgentService in harness/agents/service.py.              *)
(*                                                                         *)
(* A run holds the agent's run lock, which the operating system frees when *)
(* its process dies.  Each change of the record is a transaction under the *)
(* state lock, which reads the record, checks its owner and mostly its     *)
(* execution, and writes it; waiting for the lock or writing may fail.     *)
(* The steps of a run are separate because other runtimes, and threads of  *)
(* the same one, come between its transactions.  Messages are numbered in  *)
(* the order they are sent.                                                *)
(***************************************************************************)
EXTENDS Integers, Sequences

CONSTANTS
    Runtimes,           \* processes, each with one AgentService
    NoRuntime,
    MaxAgentRounds,          \* 32 in the code
    MaxMessages,        \* bound: messages sent
    MaxExecutions,      \* bound: launches and resumptions
    MaxAgentFailures    \* bound: transactions that fail

ASSUME AgentConstants ==
    /\ NoRuntime \notin Runtimes
    /\ MaxAgentRounds \in Nat \ {0} /\ MaxExecutions \in Nat \ {0}
    /\ MaxMessages \in Nat /\ MaxAgentFailures \in Nat

VARIABLES
    agent,          \* the record on disk
    runLock,        \* who holds .<agent>.run.lock
    runtime,        \* each runtime: up, closing, closed, dead
    agentTask,      \* each runtime's background task
    agentOwned,     \* the runtimes that have the agent in _owned_agents
    checked,        \* runtimes between the two transactions of an idle cancel
    agentFailures,  \* transactions that failed so far
    sent, acked     \* history: messages sent, messages acknowledged

agentVars == <<agent, runLock, runtime, agentTask, agentOwned, checked, agentFailures, sent, acked>>

AgentEnded == {"completed", "failed", "cancelled"}
AgentStates == AgentEnded \cup {"none", "in_progress", "delayed"}
IdleTask == [at |-> "none", execution |-> 0, rounds |-> 0, carried |-> <<>>]
\* The task's code runs in these; "unstarted" and "done" await their callback.
RunningAt == {"new", "claim", "execute", "ack", "finish", "failing", "cancelling"}

AgentInit ==
    /\ agent = [state |-> "none", owner |-> NoRuntime, execution |-> 0,
                pending |-> <<>>, inflight |-> <<>>]
    /\ runLock = NoRuntime
    /\ runtime = [r \in Runtimes |-> "up"]
    /\ agentTask = [r \in Runtimes |-> IdleTask]
    /\ agentOwned = {} /\ checked = {} /\ agentFailures = 0
    /\ sent = 0 /\ acked = <<>>

-----------------------------------------------------------------------------
Alive(r) == runtime[r] \in {"up", "closing"}
TaskAt(r, at) == agentTask[r].at = at
GoTo(r, at) == agentTask' = [agentTask EXCEPT ![r].at = at]
Succeeds == UNCHANGED agentFailures
TransactionFails ==
    agentFailures < MaxAgentFailures /\ agentFailures' = agentFailures + 1 /\ UNCHANGED agent

\* _finish_record: what is pending when a run completes delays the agent.
Finished(state) ==
    [agent EXCEPT !.state = IF state = "completed" /\ agent.pending # <<>> THEN "delayed"
                            ELSE state]

\* ... of a run, by its owner and execution; otherwise it raises.
MayFinish(r) == agent.owner = r /\ agent.execution = agentTask[r].execution

-----------------------------------------------------------------------------
(* Starting a run.                                                         *)

\* Mutant: the run lock is not taken.
ReserveUnlocked(r) ==
    runtime[r] = "up" /\ r \notin checked /\ TaskAt(r, "none") /\ UNCHANGED runLock

\* _reserve_run: open, no task of its own, and the lock at once or not at all.
Reserve(r) ==
    /\ runtime[r] = "up" /\ r \notin checked /\ TaskAt(r, "none")
    /\ runLock = NoRuntime /\ runLock' = r

Run(r) ==
    /\ agent' = [agent EXCEPT !.state = "in_progress", !.owner = r, !.execution = @ + 1]
    /\ agentOwned' = agentOwned \cup {r}
    /\ agentTask' = [agentTask EXCEPT ![r] = [IdleTask EXCEPT !.at = "new",
                                                       !.execution = agent.execution + 1]]
    /\ UNCHANGED <<runtime, checked, sent, acked>>

Launch(r) ==
    /\ agent.state = "none"
    /\ Reserve(r) /\ Run(r) /\ Succeeds

\* The team context cannot be built: the record is saved, then marked failed
\* if that succeeds, and the lock is given back.
LaunchAborts(r) ==
    /\ agent.state = "none" /\ runtime[r] = "up" /\ runLock = NoRuntime
    /\ \E marked \in BOOLEAN :
        /\ agent' = [agent EXCEPT !.state = IF marked THEN "failed" ELSE "in_progress",
                                  !.owner = r, !.execution = 1]
        /\ IF marked THEN Succeeds
           ELSE agentFailures < MaxAgentFailures /\ agentFailures' = agentFailures + 1
    /\ agentOwned' = agentOwned \cup {r}
    /\ UNCHANGED <<runLock, runtime, agentTask, checked, sent, acked>>

\* resume_background: any runtime, whatever became of the last run; messages
\* stay.  (A transaction that fails leaves everything as it was.)
Resume(r) ==
    /\ agent.state # "none" /\ agent.execution < MaxExecutions
    /\ Reserve(r) /\ Run(r) /\ Succeeds

\* send: only to an agent this runtime ran and still owns.
Send(r) ==
    /\ runtime[r] = "up" /\ r \in agentOwned /\ agent.owner = r
    /\ sent < MaxMessages
    /\ sent' = sent + 1
    /\ agent' = [agent EXCEPT !.pending = Append(@, sent + 1)]
    /\ UNCHANGED <<runLock, runtime, agentTask, agentOwned, checked, agentFailures, acked>>

-----------------------------------------------------------------------------
(* _run_background.                                                        *)

TaskOnly == UNCHANGED <<runLock, runtime, agentOwned, checked, sent>>

Begin(r, carried) ==
    agentTask' = [agentTask EXCEPT ![r].at = "execute", ![r].rounds = @ + 1, ![r].carried = carried]

ClaimableMail == agent.inflight \o agent.pending

\* The head of the loop: a closing service cancels, 32 rounds are enough; the
\* messages are moved to inflight before they are handed over.
Claim(r) ==
    /\ agentTask[r].at \in {"new", "claim"}
    /\ IF runtime[r] = "closing" THEN GoTo(r, "cancelling") /\ UNCHANGED agent /\ Succeeds
       ELSE IF agentTask[r].rounds = MaxAgentRounds
            THEN GoTo(r, "finish") /\ UNCHANGED agent /\ Succeeds
       ELSE \/ /\ agent.owner = r
               /\ IF ClaimableMail # <<>> THEN
                      /\ agent' = [agent EXCEPT !.inflight = ClaimableMail, !.pending = <<>>]
                      /\ Begin(r, ClaimableMail)
                  ELSE /\ IF TaskAt(r, "new") THEN Begin(r, <<>>) ELSE GoTo(r, "finish")
                       /\ UNCHANGED agent
               /\ Succeeds
            \/ agent.owner # r /\ GoTo(r, "failing") /\ UNCHANGED agent /\ Succeeds
            \/ GoTo(r, "failing") /\ TransactionFails
    /\ TaskOnly /\ UNCHANGED acked

RoundEnds(r) ==
    /\ TaskAt(r, "execute")
    /\ GoTo(r, "ack") \/ GoTo(r, "failing")
    /\ TaskOnly /\ UNCHANGED <<agent, agentFailures, acked>>

Acknowledge(r) ==
    /\ TaskAt(r, "ack")
    /\ \/ /\ MayFinish(r)
          /\ agent' = [agent EXCEPT !.inflight = <<>>]
          /\ acked' = acked \o agent.inflight
          /\ agentTask' = [agentTask EXCEPT ![r].at = "claim", ![r].carried = <<>>]
          /\ Succeeds
       \/ ~MayFinish(r) /\ GoTo(r, "failing") /\ UNCHANGED <<agent, acked>> /\ Succeeds
       \/ GoTo(r, "failing") /\ TransactionFails /\ UNCHANGED acked
    /\ TaskOnly

\* A run that cannot record its completion tries to record a failure; one that
\* cannot record how it ended leaves the record as it is.
Records(r, at, state, otherwise) ==
    /\ TaskAt(r, at)
    /\ \/ MayFinish(r) /\ agent' = Finished(state) /\ GoTo(r, "done") /\ Succeeds
       \/ ~MayFinish(r) /\ GoTo(r, otherwise) /\ UNCHANGED agent /\ Succeeds
       \/ GoTo(r, otherwise) /\ TransactionFails
    /\ TaskOnly /\ UNCHANGED acked

RunEnding(r) ==
    \/ Records(r, "finish", "completed", "failing")
    \/ Records(r, "failing", "failed", "done")
    \/ Records(r, "cancelling", "cancelled", "done")

Release(r) == runLock' = NoRuntime

\* The callback settled(): a task cancelled before it started has not recorded
\* it, and the lock is released whatever happens.
Settles(r) ==
    /\ agentTask[r].at \in {"unstarted", "done"} /\ r \notin checked
    /\ \/ /\ agent' = IF TaskAt(r, "unstarted") /\ agent.state = "in_progress" /\ MayFinish(r)
                      THEN Finished("cancelled") ELSE agent
          /\ Succeeds
       \/ TaskAt(r, "unstarted") /\ agent.state = "in_progress" /\ TransactionFails
    /\ agentTask' = [agentTask EXCEPT ![r] = IdleTask]
    /\ Release(r)
    /\ UNCHANGED <<runtime, agentOwned, checked, sent, acked>>

-----------------------------------------------------------------------------
(* Cancelling, closing, crashing.                                          *)

TaskCancelled(r) ==
    \/ TaskAt(r, "new") /\ GoTo(r, "unstarted")
    \/ TaskAt(r, "execute") /\ GoTo(r, "cancelling")

\* cancel_background of a task that still runs: it awaits something.
CancelRunning(r) ==
    /\ Alive(r) /\ TaskCancelled(r)
    /\ UNCHANGED <<agent, acked, agentFailures>> /\ TaskOnly

\* ... of an agent whose task is over, in two transactions: other runtimes, but
\* not this one's event loop, come between them.
CancelChecks(r) ==
    /\ Alive(r) /\ agentTask[r].at \in {"none", "done"} /\ r \notin checked
    /\ agent.state \notin AgentEnded \cup {"none"}
    /\ r \in agentOwned /\ agent.owner = r
    /\ checked' = checked \cup {r}
    /\ UNCHANGED <<agent, runLock, runtime, agentTask, agentOwned, agentFailures, sent, acked>>

CancelOwned(r) == agent.owner = r

CancelRecords(r) ==
    /\ r \in checked
    /\ checked' = checked \ {r}
    /\ agent' = IF CancelOwned(r) THEN Finished("cancelled") ELSE agent
    /\ UNCHANGED <<runLock, runtime, agentTask, agentOwned, agentFailures, sent, acked>>

\* mark_worker_delayed.
MarkDelayed(r) ==
    /\ Alive(r) /\ r \notin checked
    /\ agent.state # "none" /\ agent.owner = r
    /\ agent' = [agent EXCEPT !.state = "delayed"]
    /\ UNCHANGED <<runLock, runtime, agentTask, agentOwned, checked, agentFailures, sent, acked>>

\* aclose: no more admissions, then the task is cancelled and joined.
ServiceCloseBegins(r) ==
    /\ runtime[r] = "up" /\ r \notin checked
    /\ runtime' = [runtime EXCEPT ![r] = "closing"]
    /\ UNCHANGED <<agent, runLock, agentTask, agentOwned, checked, agentFailures, sent, acked>>

ServiceCloseCancels(r) == runtime[r] = "closing" /\ CancelRunning(r)

ServiceCloseEnds(r) ==
    /\ runtime[r] = "closing" /\ TaskAt(r, "none") /\ r \notin checked
    /\ runtime' = [runtime EXCEPT ![r] = "closed"]
    /\ UNCHANGED <<agent, runLock, agentTask, agentOwned, checked, agentFailures, sent, acked>>

Crash(r) ==
    /\ Alive(r)
    /\ runtime' = [runtime EXCEPT ![r] = "dead"]
    /\ agentTask' = [agentTask EXCEPT ![r] = IdleTask]
    /\ runLock' = IF runLock = r THEN NoRuntime ELSE runLock
    /\ checked' = checked \ {r}
    /\ UNCHANGED <<agent, agentOwned, agentFailures, sent, acked>>

-----------------------------------------------------------------------------
TaskStep(r) ==
    \/ Claim(r) \/ RoundEnds(r) \/ Acknowledge(r) \/ RunEnding(r) \/ ServiceCloseCancels(r)

\* Callbacks the event loop has queued, behind whatever it runs now.
QueuedStep(r) == Settles(r) \/ ServiceCloseEnds(r)

AgentNext == \E r \in Runtimes :
    \/ Launch(r) \/ LaunchAborts(r) \/ Resume(r) \/ Send(r)
    \/ TaskStep(r) \/ QueuedStep(r)
    \/ CancelRunning(r) \/ CancelChecks(r) \/ CancelRecords(r) \/ MarkDelayed(r)
    \/ ServiceCloseBegins(r) \/ Crash(r)

\* A task's code goes on, and a model's run ends by its limit of turns.  The
\* event loop serves its queue in order, however often it is kept busy.
AgentFairness == \A r \in Runtimes :
    WF_agentVars(TaskStep(r)) /\ WF_agentVars(CancelRecords(r)) /\ SF_agentVars(QueuedStep(r))

AgentSpec == AgentInit /\ [][AgentNext]_agentVars
AgentFairSpec == AgentSpec /\ AgentFairness

-----------------------------------------------------------------------------
AgentMessages == 1 .. MaxMessages

AgentTypeOK ==
    /\ agent \in [state : AgentStates, owner : Runtimes \cup {NoRuntime},
                  execution : 0 .. MaxExecutions,
                  pending : Seq(AgentMessages), inflight : Seq(AgentMessages)]
    /\ runLock \in Runtimes \cup {NoRuntime}
    /\ runtime \in [Runtimes -> {"up", "closing", "closed", "dead"}]
    /\ agentTask \in [Runtimes -> [at : RunningAt \cup {"none", "unstarted", "done"},
                              execution : 0 .. MaxExecutions, rounds : 0 .. MaxAgentRounds,
                              carried : Seq(AgentMessages)]]
    /\ agentOwned \subseteq Runtimes /\ checked \subseteq Runtimes
    /\ agentFailures \in 0 .. MaxAgentFailures
    /\ sent \in 0 .. MaxMessages /\ acked \in Seq(AgentMessages)

\* The task of a runtime that still runs has the lock, the record and its
\* execution, through crashes, resumptions elsewhere and late cancellations;
\* no one declares the run over before it is.
RunsHoldRecord == \A r \in Runtimes :
    /\ runLock = r <=> agentTask[r].at # "none"
    /\ runLock = r => agent.owner = r /\ agent.execution = agentTask[r].execution
    /\ agentTask[r].at \in RunningAt => agent.state \in {"in_progress", "delayed"}

\* An agent in progress that nobody runs was left by a crash or by a record
\* that could not be written.
OrphansExplained ==
    agent.state = "in_progress" /\ (\A r \in Runtimes : agentTask[r].at = "none") =>
        agentFailures > 0 \/ runtime[agent.owner] = "dead"

\* Every message is acknowledged, in flight or pending, once and in the order
\* it was sent, and a run carries what is in flight.
MailKept ==
    /\ acked \o agent.inflight \o agent.pending = [i \in 1 .. sent |-> i]
    /\ \A r \in Runtimes :
          agentTask[r].at \in {"execute", "ack"} => agentTask[r].carried = agent.inflight

\* A run completes only with an empty mailbox: late messages delay it.
CompletesEmpty ==
    agent.state # "completed" /\ agent'.state = "completed" =>
        agent'.pending = <<>> /\ agent'.inflight = <<>>

\* How an execution ended stands until another one begins; only a mark as
\* delayed, and a cancellation after it, may follow.
OutcomeStands ==
    agent.state \in AgentEnded /\ agent'.execution = agent.execution =>
        agent'.state \in {agent.state, "delayed"}

\* A record in progress has one run, and the run has its record and its
\* messages; what its end records is true when it is recorded, and stays
\* (service.py: one process runs an agent at a time, under its run lock; what
\* a run that died had claimed goes to the next one).
AgentsAreSound ==
    /\ [](RunsHoldRecord /\ OrphansExplained /\ MailKept)
    /\ [][CompletesEmpty /\ OutcomeStands]_agentVars

\* Tasks end, and with them the lock is free; closing a runtime ends.
AgentRunsEnd == \A r \in Runtimes :
    /\ agentTask[r].at # "none" ~> agentTask[r].at = "none"
    /\ runtime[r] = "closing" ~> runtime[r] \in {"closed", "dead"}
=============================================================================
