---------------------------- MODULE CronDelivery ----------------------------
(***************************************************************************)
(* Durable cron jobs of koder_agent/harness/cron: several koder processes  *)
(* share one JSON document (storage.py) and, per job, one OS lock file.    *)
(* In each process a scheduler tick (scheduler.py) claims due jobs and a   *)
(* consumer (runtime.py) drains the claimed prompts into the agent.        *)
(*                                                                         *)
(* Inside a process everything runs on one event loop: a tick has no await,*)
(* so it excludes the consumer of its own process, but other processes     *)
(* interleave with it at every file access.  A crash drops the memory of a *)
(* process and the OS drops its locks; the document stays.                 *)
(***************************************************************************)
EXTENDS Integers, Sequences, FiniteSets

CONSTANTS
    Procs,       \* koder processes sharing one home directory
    Nobody,      \* "the run lock of this job is free"
    Jobs,        \* job identifiers uuid4 hands out, each used at most once
    NoJob,       \* "no job is being claimed"
    OneShot,     \* jobs created with recurring=False
    Blank,       \* jobs whose stored prompt is the empty string
    Schedule,    \* Schedule[j]: the minutes the cron expression of j matches
    MaxJobs,     \* CronStorage max_jobs
    MaxMinute    \* bound: the last minute of the modelled clock

ASSUME CronConstants ==
    /\ Nobody \notin Procs
    /\ NoJob \notin Jobs
    /\ OneShot \subseteq Jobs
    /\ Blank \subseteq Jobs
    /\ Schedule \in [Jobs -> SUBSET Nat]
    /\ MaxJobs \in Nat
    /\ MaxMinute \in Nat

VARIABLES
    now,         \* the wall clock, in minutes
    created,     \* identifiers already allocated
    tasks,       \* "tasks" of the document
    runs,        \* "runs" of the document: pending and completed minute
    runLock,     \* runLock[j]: the process holding the run lock file of j
    mode,        \* "down", "up", "stopping", "settling" (no tick can begin) or "stopped"
    pc,          \* where the event loop of a process is inside a claim
    tickMinute,  \* the minute read at the start of the tick
    todo,        \* jobs the tick has yet to consider
    claiming,    \* the job whose run lock was just taken
    fired,       \* _fired_this_minute
    firedMinute, \* _last_minute_key
    queue,       \* claims accepted and not yet dispatched
    pendingIds,  \* _pending_job_ids
    running      \* the claim whose prompt is being dispatched

disk == <<created, tasks, runs>>
tick == <<pc, tickMinute, todo, claiming, fired, firedMinute>>
consumer == <<queue, pendingIds, running>>
vars == <<now, disk, runLock, mode, tick, consumer>>

None == -1
NoRun == [pending |-> None, completed |-> None]
Minute == 0 .. MaxMinute
Receipt == [pending : Minute \cup {None}, completed : Minute \cup {None}]
Claim == [job : Jobs, minute : Minute]
NoClaim == [job |-> NoJob, minute |-> None]

\* A claim is current while the very job it was made for is still stored.
IsCurrent(c) == c.job \in tasks

\* The jobs of the claims in a queue, and of all locks a process holds.
JobsIn(q) == {q[i].job : i \in DOMAIN q}
QueuedJobs(p) == JobsIn(queue[p])
HeldJobs(p) == {j \in Jobs : runLock[j] = p}

\* FileLock.release() of the run locks of the jobs in S.
Unlock(S) == [j \in Jobs |-> IF j \in S THEN Nobody ELSE runLock[j]]

\* The event loop of p is free: no tick or direct enqueue is in progress.
LoopFree(p) == mode[p] \in {"up", "stopping", "settling"} /\ pc[p] = "idle"

Init ==
    /\ now = 0
    /\ created = {}
    /\ tasks = {}
    /\ runs = [j \in Jobs |-> NoRun]
    /\ runLock = [j \in Jobs |-> Nobody]
    /\ mode = [p \in Procs |-> "down"]
    /\ pc = [p \in Procs |-> "idle"]
    /\ tickMinute = [p \in Procs |-> 0]
    /\ todo = [p \in Procs |-> {}]
    /\ claiming = [p \in Procs |-> NoJob]
    /\ fired = [p \in Procs |-> {}]
    /\ firedMinute = [p \in Procs |-> None]
    /\ queue = [p \in Procs |-> <<>>]
    /\ pendingIds = [p \in Procs |-> {}]
    /\ running = [p \in Procs |-> NoClaim]

-----------------------------------------------------------------------------
(* Environment: the clock, the users of the job list, processes.           *)

ClockTick ==
    /\ now < MaxMinute
    /\ now' = now + 1
    /\ UNCHANGED <<disk, runLock, mode, tick, consumer>>

CreateJob(j) ==
    /\ j \notin created
    /\ Cardinality(tasks) < MaxJobs
    /\ created' = created \cup {j}
    /\ tasks' = tasks \cup {j}
    /\ UNCHANGED <<now, runs, runLock, mode, tick, consumer>>

\* delete() rewrites the job list; _write drops the receipts of absent ids.
DeleteJob(j) ==
    /\ j \in tasks
    /\ tasks' = tasks \ {j}
    /\ runs' = [runs EXCEPT ![j] = NoRun]
    /\ UNCHANGED <<now, created, runLock, mode, tick, consumer>>

\* A new process, or start() on a runner whose stop has finished: the
\* scheduler object, and with it the fired set, survives a stop.
Start(p) ==
    /\ mode[p] \in {"down", "stopped"}
    /\ mode' = [mode EXCEPT ![p] = "up"]
    /\ UNCHANGED <<now, disk, runLock, tick, consumer>>

Crash(p) ==
    /\ mode[p] # "down"
    /\ mode' = [mode EXCEPT ![p] = "down"]
    /\ runLock' = Unlock(HeldJobs(p))
    /\ pc' = [pc EXCEPT ![p] = "idle"]
    /\ tickMinute' = [tickMinute EXCEPT ![p] = 0]
    /\ todo' = [todo EXCEPT ![p] = {}]
    /\ claiming' = [claiming EXCEPT ![p] = NoJob]
    /\ fired' = [fired EXCEPT ![p] = {}]
    /\ firedMinute' = [firedMinute EXCEPT ![p] = None]
    /\ queue' = [queue EXCEPT ![p] = <<>>]
    /\ pendingIds' = [pendingIds EXCEPT ![p] = {}]
    /\ running' = [running EXCEPT ![p] = NoClaim]
    /\ UNCHANGED <<now, disk>>

-----------------------------------------------------------------------------
(* One scheduler tick: clock, job list and receipts are read one after the *)
(* other, without a lock; then each due job is claimed in turn.            *)

\* A tick that was scheduled when stop() was called still begins; after it
\* the scheduler has been cancelled.
\* Bound: not in the last minute of the modelled clock (what such a tick fires
\* is declined, and not tried again before the next minute).
TickBegin(p) ==
    /\ mode[p] \in {"up", "stopping"}
    /\ mode[p] = "stopping" => now < MaxMinute
    /\ pc[p] = "idle"
    /\ mode' = [mode EXCEPT ![p] = IF @ = "stopping" THEN "settling" ELSE @]
    /\ pc' = [pc EXCEPT ![p] = "list"]
    /\ tickMinute' = [tickMinute EXCEPT ![p] = now]
    /\ firedMinute' = [firedMinute EXCEPT ![p] = now]
    /\ fired' = [fired EXCEPT ![p] = IF firedMinute[p] = now THEN @ ELSE {}]
    /\ UNCHANGED <<now, disk, runLock, todo, claiming, consumer>>

TickList(p) ==
    /\ pc[p] = "list"
    /\ pc' = [pc EXCEPT ![p] = "scan"]
    /\ todo' = [todo EXCEPT ![p] = tasks \ fired[p]]
    /\ UNCHANGED <<now, disk, runLock, mode, tickMinute, claiming, fired,
                   firedMinute, consumer>>

\* Mutant: the scan looks at the schedule only.
TickScanSchedule(p) ==
    /\ pc[p] = "scan"
    /\ pc' = [pc EXCEPT ![p] = "claim"]
    /\ todo' = [todo EXCEPT ![p] = {j \in @ : tickMinute[p] \in Schedule[j]}]
    /\ UNCHANGED <<now, disk, runLock, mode, tickMinute, claiming, fired,
                   firedMinute, consumer>>

\* pending_ids() is a second read: a job is due when a receipt of it is
\* pending or its expression matches the minute the tick started in.
TickScan(p) ==
    /\ pc[p] = "scan"
    /\ pc' = [pc EXCEPT ![p] = "claim"]
    /\ todo' = [todo EXCEPT ![p] =
                  {j \in @ : runs[j].pending # None \/ tickMinute[p] \in Schedule[j]}]
    /\ UNCHANGED <<now, disk, runLock, mode, tickMinute, claiming, fired,
                   firedMinute, consumer>>

TickEnd(p) ==
    /\ pc[p] = "claim"
    /\ todo[p] = {}
    /\ claiming[p] = NoJob
    /\ pc' = [pc EXCEPT ![p] = "idle"]
    /\ UNCHANGED <<now, disk, runLock, mode, tickMinute, todo, claiming, fired,
                   firedMinute, consumer>>

\* claim(): the run lock is tried without waiting; when any process holds
\* it, this one included, the job is passed over.
TryLock(p, j) ==
    /\ pc[p] = "claim"
    /\ claiming[p] = NoJob
    /\ j \in todo[p]
    /\ todo' = [todo EXCEPT ![p] = @ \ {j}]
    /\ IF runLock[j] = Nobody
       THEN /\ runLock' = [runLock EXCEPT ![j] = p]
            /\ claiming' = [claiming EXCEPT ![p] = j]
       ELSE UNCHANGED <<runLock, claiming>>
    /\ UNCHANGED <<now, disk, mode, pc, tickMinute, fired, firedMinute, consumer>>

\* enqueue_job(): a claim outside the tick, refused while the job is pending
\* in this process.  The minute is read when the claim is stored.
\* Bound: not in the last minute of the modelled clock.
EnqueueJob(p, j) ==
    /\ mode[p] = "up"
    /\ pc[p] = "idle"
    /\ j \in created \ Blank
    /\ now < MaxMinute
    /\ j \notin pendingIds[p]
    /\ runLock[j] = Nobody
    /\ runLock' = [runLock EXCEPT ![j] = p]
    /\ claiming' = [claiming EXCEPT ![p] = j]
    /\ pc' = [pc EXCEPT ![p] = "direct"]
    /\ UNCHANGED <<now, disk, mode, tickMinute, todo, fired, firedMinute, consumer>>

\* Mutant: the minute is rounded up.
ClaimMinuteLate(p) == (IF pc[p] = "direct" THEN now ELSE tickMinute[p]) + 1

ClaimMinute(p) == IF pc[p] = "direct" THEN now ELSE tickMinute[p]

\* A pending minute is recovered first.
RecoveredMinuteFresh(j, m) == m    \* mutant: a new minute each time
RecoveredMinute(j, m) == IF runs[j].pending # None THEN runs[j].pending ELSE m

\* Mutant: off by one, an acknowledged minute can be claimed again.
ClaimableAgain(j, m) ==
    /\ j \in tasks
    /\ runs[j].pending # None \/ runs[j].completed <= m

\* The claim is refused when the job is gone, or when the minute is not
\* later than the acknowledged one and nothing is pending.
Claimable(j, m) ==
    /\ j \in tasks
    /\ runs[j].pending # None \/ runs[j].completed < m

ResumedPc(p) == [pc EXCEPT ![p] = IF @ = "direct" THEN "idle" ELSE @]

ClaimRefused(p) ==
    LET j == claiming[p] IN
    /\ j # NoJob
    /\ ~Claimable(j, ClaimMinute(p))
    /\ runLock' = Unlock({j})
    /\ claiming' = [claiming EXCEPT ![p] = NoJob]
    /\ pc' = ResumedPc(p)
    /\ UNCHANGED <<now, disk, mode, tickMinute, todo, fired, firedMinute, consumer>>

\* _enqueue_claim: a stopping runner, a duplicate, an empty prompt say no.
Accepts(p, j) == mode[p] = "up" /\ j \notin pendingIds[p] /\ j \notin Blank

\* The receipt is written under the storage lock; the claim is then queued, or released when it is not
\* accepted.  A declined claim leaves the receipt pending.
ClaimStored(p) ==
    LET j == claiming[p]
        m == RecoveredMinute(j, ClaimMinute(p))
    IN
    /\ j # NoJob
    /\ Claimable(j, ClaimMinute(p))
    /\ runs' = [runs EXCEPT ![j].pending = m]
    /\ fired' = [fired EXCEPT ![p] = IF pc[p] = "claim" THEN @ \cup {j} ELSE @]
    /\ claiming' = [claiming EXCEPT ![p] = NoJob]
    /\ pc' = ResumedPc(p)
    /\ IF Accepts(p, j)
       THEN /\ queue' = [queue EXCEPT ![p] = Append(@, [job |-> j, minute |-> m])]
            /\ pendingIds' = [pendingIds EXCEPT ![p] = @ \cup {j}]
            /\ UNCHANGED runLock
       ELSE /\ runLock' = Unlock({j})
            /\ UNCHANGED <<queue, pendingIds>>
    /\ UNCHANGED <<now, created, tasks, mode, tickMinute, todo, firedMinute, running>>

\* The storage lock timed out or the document could not be read or written:
\* the run lock is released and the exception ends the whole tick.
\* Bound: not in the last minute of the modelled clock.
ClaimFails(p) ==
    /\ claiming[p] # NoJob
    /\ now < MaxMinute
    /\ runLock' = Unlock({claiming[p]})
    /\ claiming' = [claiming EXCEPT ![p] = NoJob]
    /\ todo' = [todo EXCEPT ![p] = {}]
    /\ pc' = [pc EXCEPT ![p] = "idle"]
    /\ UNCHANGED <<now, disk, mode, tickMinute, fired, firedMinute, consumer>>

-----------------------------------------------------------------------------
(* The consumer.  Each of its steps ends at an await, so it only runs when *)
(* the event loop of its process is free.  It still runs while stop() waits *)
(* for the scheduler to settle, and only then is it cancelled.             *)

\* A queued job deleted meanwhile is dropped, its lock released.
DropStale(p) ==
    /\ LoopFree(p)
    /\ running[p] = NoClaim
    /\ queue[p] # <<>>
    /\ ~IsCurrent(Head(queue[p]))
    /\ queue' = [queue EXCEPT ![p] = Tail(@)]
    /\ pendingIds' = [pendingIds EXCEPT ![p] = @ \ {Head(queue[p]).job}]
    /\ runLock' = Unlock({Head(queue[p]).job})
    /\ UNCHANGED <<now, disk, mode, tick, running>>

\* Mutant: the lock guards the queueing only.
DispatchUnlocked(p) ==
    /\ LoopFree(p)
    /\ running[p] = NoClaim
    /\ queue[p] # <<>>
    /\ IsCurrent(Head(queue[p]))
    /\ running' = [running EXCEPT ![p] = Head(queue[p])]
    /\ queue' = [queue EXCEPT ![p] = Tail(@)]
    /\ runLock' = Unlock({Head(queue[p]).job})
    /\ UNCHANGED <<now, disk, mode, tick, pendingIds>>

Dispatch(p) ==
    /\ LoopFree(p)
    /\ running[p] = NoClaim
    /\ queue[p] # <<>>
    /\ IsCurrent(Head(queue[p]))
    /\ running' = [running EXCEPT ![p] = Head(queue[p])]
    /\ queue' = [queue EXCEPT ![p] = Tail(@)]
    /\ UNCHANGED <<now, disk, runLock, mode, tick, pendingIds>>

\* _complete_claim under the storage lock: a one-shot is removed, a recurring
\* job records the minute; a stale acknowledgement changes nothing.
Acknowledge(c) ==
    IF c.job \in tasks /\ runs[c.job].pending = c.minute
    THEN IF c.job \in OneShot
         THEN /\ tasks' = tasks \ {c.job}
              /\ runs' = [runs EXCEPT ![c.job] = NoRun]
         ELSE /\ runs' = [runs EXCEPT ![c.job] =
                            [pending |-> None, completed |-> c.minute]]
              /\ UNCHANGED tasks
    ELSE UNCHANGED <<tasks, runs>>

\* The finally clause of the consumer: release the lock, forget the id.
EndRun(p) ==
    /\ runLock' = Unlock({running[p].job})
    /\ pendingIds' = [pendingIds EXCEPT ![p] = @ \ {running[p].job}]
    /\ running' = [running EXCEPT ![p] = NoClaim]

RunSucceeds(p) ==
    /\ LoopFree(p)
    /\ running[p] # NoClaim
    /\ Acknowledge(running[p])
    /\ EndRun(p)
    /\ UNCHANGED <<now, created, mode, tick, queue>>

\* The prompt raised, or the acknowledgement itself did, or stop() cancelled
\* the consumer in the middle of it: no acknowledgement.
\* Bound: prompts do not fail in the last minute of the modelled clock.
RunFails(p) ==
    /\ LoopFree(p)
    /\ running[p] # NoClaim
    /\ mode[p] = "up" => now < MaxMinute
    /\ EndRun(p)
    /\ UNCHANGED <<now, disk, mode, tick, queue>>

StopRequest(p) ==
    /\ mode[p] = "up"
    /\ LoopFree(p)
    /\ mode' = [mode EXCEPT ![p] = "stopping"]
    /\ UNCHANGED <<now, disk, runLock, tick, consumer>>

\* Mutant: the queue is dropped with its locks held.
StopFinishKeepsLocks(p) ==
    /\ mode[p] \in {"stopping", "settling"} /\ pc[p] = "idle"
    /\ running[p] = NoClaim
    /\ mode' = [mode EXCEPT ![p] = "stopped"]
    /\ queue' = [queue EXCEPT ![p] = <<>>]
    /\ pendingIds' = [pendingIds EXCEPT ![p] = {}]
    /\ UNCHANGED <<now, disk, runLock, tick, running>>

\* _stop_owned after the consumer ended: queued claims are released, their
\* receipts stay pending.
StopFinish(p) ==
    /\ mode[p] \in {"stopping", "settling"} /\ pc[p] = "idle"
    /\ running[p] = NoClaim
    /\ mode' = [mode EXCEPT ![p] = "stopped"]
    /\ runLock' = Unlock(QueuedJobs(p))
    /\ queue' = [queue EXCEPT ![p] = <<>>]
    /\ pendingIds' = [pendingIds EXCEPT ![p] = {}]
    /\ UNCHANGED <<now, disk, tick, running>>

-----------------------------------------------------------------------------
\* Bound: crashes and stops do not happen in the last modelled minute.
Disturbance(p) ==
    /\ now < MaxMinute
    /\ Crash(p) \/ StopRequest(p)

Tick(p) ==
    \/ TickBegin(p) \/ TickList(p) \/ TickScan(p) \/ TickEnd(p)
    \/ \E j \in Jobs : TryLock(p, j)
    \/ ClaimRefused(p) \/ ClaimStored(p)

Consume(p) == DropStale(p) \/ Dispatch(p) \/ RunSucceeds(p)

Next ==
    \/ ClockTick
    \/ \E j \in Jobs : CreateJob(j) \/ DeleteJob(j)
    \/ \E p \in Procs :
          \/ Start(p) \/ Disturbance(p)
          \/ Tick(p) \/ ClaimFails(p) \/ Consume(p) \/ RunFails(p) \/ StopFinish(p)
          \/ \E j \in Jobs : EnqueueJob(p, j)

Spec == Init /\ [][Next]_vars

\* The clock advances, a polling loop keeps ticking and a process is started
\* again.  The consumer shares its event loop with the ticks, so it is ready
\* again and again rather than continuously; asyncio runs ready callbacks in
\* turn, which is strong fairness.
Fairness ==
    /\ WF_vars(ClockTick)
    /\ \A p \in Procs :
          WF_vars(Start(p)) /\ WF_vars(Tick(p)) /\ SF_vars(Consume(p)) /\ WF_vars(StopFinish(p))

FairSpec == Spec /\ Fairness

-----------------------------------------------------------------------------
TypeOK ==
    /\ now \in Minute
    /\ created \subseteq Jobs
    /\ tasks \subseteq created
    /\ runs \in [Jobs -> Receipt]
    /\ runLock \in [Jobs -> Procs \cup {Nobody}]
    /\ mode \in [Procs -> {"down", "up", "stopping", "settling", "stopped"}]
    /\ pc \in [Procs -> {"idle", "list", "scan", "claim", "direct"}]
    /\ tickMinute \in [Procs -> Minute]
    /\ todo \in [Procs -> SUBSET Jobs]
    /\ claiming \in [Procs -> Jobs \cup {NoJob}]
    /\ fired \in [Procs -> SUBSET Jobs]
    /\ firedMinute \in [Procs -> Minute \cup {None}]
    /\ queue \in [Procs -> Seq(Claim)]
    /\ pendingIds \in [Procs -> SUBSET Jobs]
    /\ running \in [Procs -> Claim \cup {NoClaim}]

\* A process owns exactly the run locks of the claims it can account for:
\* the one it is making inside a tick or a direct enqueue, the queued ones
\* and the running one.  A lock held
\* by nobody's claim would silence its job for every process; a claim without
\* its lock could be delivered twice at once (storage.py CronClaim).
LocksMatchClaims ==
    \A p \in Procs :
        /\ HeldJobs(p) = (QueuedJobs(p) \cup {running[p].job, claiming[p]}) \ {NoJob}
        /\ pc[p] \in {"idle", "list", "scan"} => claiming[p] = NoJob

JobsDistinct(q) == \A i, k \in DOMAIN q : q[i].job = q[k].job => i = k

\* The duplicate filter of a process names the jobs it has queued or is
\* running, no job twice, and never the one being claimed (runtime.py
\* _pending_job_ids).
PendingIdsExact ==
    \A p \in Procs :
        /\ claiming[p] \notin pendingIds[p]
        /\ pendingIds[p] = (QueuedJobs(p) \cup {running[p].job}) \ {NoJob}
        /\ running[p].job \notin QueuedJobs(p)
        /\ JobsDistinct(queue[p])

\* A prompt of one job never runs in two processes at the same time.  It
\* follows from ClaimsAccounted: there is one run lock.
ExclusiveRun ==
    \A p, q \in Procs :
        p # q /\ running[p] # NoClaim => running[p].job # running[q].job

\* Locks, queues and duplicate filters describe the same claims, through
\* refused and failing claims, stops, deletions and crashes.
ClaimsAccounted == LocksMatchClaims /\ PendingIdsExact

\* While a claim waits or runs, the receipt of its job carries the minute of
\* the claim, unless the job was deleted: an acknowledgement can always be
\* matched, whatever the other processes did meanwhile.
ClaimHasReceipt ==
    \A p \in Procs :
        /\ \A i \in DOMAIN queue[p] :
              queue[p][i].job \in tasks => runs[queue[p][i].job].pending = queue[p][i].minute
        /\ running[p].job \in tasks => runs[running[p].job].pending = running[p].minute

\* A pending minute is later than the acknowledged one, although ticks claim
\* with a minute they read long before.
ReceiptsAdvance ==
    \A j \in Jobs : runs[j].pending # None => runs[j].completed < runs[j].pending

\* The receipts on disk and the claims in memory tell the same story.
ReceiptsTruthful == ClaimHasReceipt /\ ReceiptsAdvance

\* A pending receipt disappears only when the job does, or when the process
\* that was running exactly this delivery acknowledges it: a crash, a stop or
\* a failing prompt never loses a claimed delivery.
ReceiptDurable ==
    [][\A j \in Jobs :
         runs[j].pending # None /\ runs'[j].pending # runs[j].pending =>
            \/ j \notin tasks'
            \/ \E p \in Procs :
                  /\ running[p] = [job |-> j, minute |-> runs[j].pending]
                  /\ runs'[j].completed = runs[j].pending]_vars

\* A minute that was acknowledged is not delivered again, in any process.
NoRepeat ==
    [][\A p \in Procs :
         running[p] = NoClaim /\ running'[p] # NoClaim =>
            running'[p].minute > runs[running'[p].job].completed]_vars

\* A deleted job stays deleted: no late acknowledgement or claim brings its
\* entry or its receipts back (storage.py "Deletion wins").
DeletionFinal ==
    [][\A j \in created \ tasks : j \notin tasks' /\ runs'[j] = NoRun]_vars

\* No delivery is lost, repeated or made for a deleted job.
DeliveriesSound == ReceiptDurable /\ NoRepeat /\ DeletionFinal

\* The processes together implement the ledger.
Ledger == INSTANCE CronLedger WITH
    Minutes <- Minute,
    issued <- created,
    live <- tasks,
    owed <- [j \in Jobs |-> runs[j].pending],
    done <- [j \in Jobs |-> runs[j].completed],
    active <- {running[p].job : p \in Procs} \ {NoJob}

ImplementsLedger == Ledger!Spec

\* Once disturbances have ended, every claimed delivery with a prompt is
\* eventually acknowledged, or its job deleted.
ClaimedIsDelivered ==
    \A j \in Jobs \ Blank : (runs[j].pending # None) ~> (runs[j].pending = None)

\* cron_create(recurring=False) promises to "fire once then auto-delete":
\* a claimed one-shot is eventually gone.
OneShotAutoDeletes ==
    \A j \in OneShot : (runs[j].pending # None) ~> (j \notin tasks)

\* Claims settle: what was claimed is delivered, and one-shots go away.
ClaimsSettle == ClaimedIsDelivered /\ OneShotAutoDeletes
=============================================================================
