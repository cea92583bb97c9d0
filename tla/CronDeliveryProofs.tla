------------------------- MODULE CronDeliveryProofs -------------------------
(***************************************************************************)
(* Machine-checked facts about CronDelivery, for any number of processes,  *)
(* jobs and minutes: types, receipts that only advance, and that a job     *)
(* never runs in two processes at once.                                    *)
(***************************************************************************)
EXTENDS CronDelivery, TLAPS, SequenceTheorems

USE DEF disk, tick, consumer

\* Receipts are built and changed field by field.
LEMMA ReceiptType ==
    /\ NoRun \in Receipt
    /\ \A m \in Minute : [pending |-> None, completed |-> m] \in Receipt
    /\ \A r \in Receipt, m \in Minute : [r EXCEPT !.pending = m] \in Receipt
  BY DEF Receipt, NoRun

\* The minute stored with a claim is the recovered one or the one asked for.
LEMMA ClaimType ==
    ASSUME TypeOK, NEW p \in Procs, NEW j \in Jobs
    PROVE  /\ RecoveredMinute(j, ClaimMinute(p)) \in Minute
           /\ [job |-> j, minute |-> RecoveredMinute(j, ClaimMinute(p))] \in Claim
<1>1. runs[j] \in Receipt /\ now \in Minute /\ tickMinute[p] \in Minute
    BY DEF TypeOK
<1>2. runs[j].pending \in Minute \cup {None}
    BY <1>1 DEF Receipt
<1> QED
    BY <1>1, <1>2 DEF RecoveredMinute, ClaimMinute, Claim

LEMMA UnlockType ==
    ASSUME TypeOK, NEW S
    PROVE  Unlock(S) \in [Jobs -> Procs \cup {Nobody}]
  BY DEF TypeOK, Unlock

\* An acknowledgement of a real claim keeps the document well-formed.
LEMMA AcknowledgeType ==
    ASSUME TypeOK, NEW c \in Claim, Acknowledge(c)
    PROVE  /\ tasks' \subseteq created
           /\ runs' \in [Jobs -> Receipt]
<1>1. c.job \in Jobs /\ c.minute \in Minute
    BY DEF Claim
<1> QED
    BY <1>1, ReceiptType DEF TypeOK, Acknowledge

\* The state has its types in every step of any instance (TypeOK).
LEMMA TypeStep == CronConstants /\ TypeOK /\ [Next]_vars => TypeOK'
<1> SUFFICES ASSUME CronConstants, TypeOK, [Next]_vars
             PROVE  TypeOK'
    OBVIOUS
<1>1. CASE UNCHANGED vars
    BY <1>1 DEF TypeOK, vars
<1>2. CASE ClockTick
    BY <1>2 DEF TypeOK, ClockTick, CronConstants, Minute
<1>3. ASSUME NEW j \in Jobs, CreateJob(j)
      PROVE  TypeOK'
    BY <1>3 DEF TypeOK, CreateJob
<1>4. ASSUME NEW j \in Jobs, DeleteJob(j)
      PROVE  TypeOK'
    BY <1>4, ReceiptType DEF TypeOK, DeleteJob
<1>5. ASSUME NEW p \in Procs, Start(p) \/ StopRequest(p)
      PROVE  TypeOK'
    BY <1>5 DEF TypeOK, Start, StopRequest
<1>6. ASSUME NEW p \in Procs, TickBegin(p)
      PROVE  TypeOK'
    BY <1>6 DEF TypeOK, TickBegin
<1>7. ASSUME NEW p \in Procs, TickList(p) \/ TickScan(p) \/ TickEnd(p)
      PROVE  TypeOK'
  <2>1. CASE TickList(p)
      BY <2>1 DEF TypeOK, TickList
  <2>2. CASE TickScan(p)
    <3>1. todo' \in [Procs -> SUBSET Jobs]
        BY <2>2 DEF TypeOK, TickScan
    <3> QED
        BY <2>2, <3>1 DEF TypeOK, TickScan
  <2>3. CASE TickEnd(p)
      BY <2>3 DEF TypeOK, TickEnd
  <2> QED
      BY <1>7, <2>1, <2>2, <2>3
<1>8. ASSUME NEW p \in Procs, Crash(p)
      PROVE  TypeOK'
  <2>1. 0 \in Minute
      BY DEF CronConstants, Minute
  <2> QED
      BY <1>8, <2>1, UnlockType DEF TypeOK, Crash
<1>9. ASSUME NEW p \in Procs, NEW j \in Jobs, TryLock(p, j)
      PROVE  TypeOK'
  <2>1. todo' \in [Procs -> SUBSET Jobs]
    <3>1. todo' = [todo EXCEPT ![p] = todo[p] \ {j}]
        BY <1>9 DEF TryLock
    <3>2. todo \in [Procs -> SUBSET Jobs]
        BY DEF TypeOK
    <3> QED
        BY <3>1, <3>2
  <2>2. CASE runLock[j] = Nobody
    <3>1. /\ runLock' = [runLock EXCEPT ![j] = p]
          /\ claiming' = [claiming EXCEPT ![p] = j]
          /\ UNCHANGED <<now, disk, mode, pc, tickMinute, fired, firedMinute, consumer>>
        BY <1>9, <2>2 DEF TryLock
    <3> QED
        BY <2>1, <3>1 DEF TypeOK
  <2>3. CASE runLock[j] # Nobody
      BY <1>9, <2>1, <2>3 DEF TypeOK, TryLock
  <2> QED
      BY <2>2, <2>3
<1>10. ASSUME NEW p \in Procs, NEW j \in Jobs, EnqueueJob(p, j)
       PROVE  TypeOK'
    BY <1>10 DEF TypeOK, EnqueueJob
<1>11. ASSUME NEW p \in Procs, ClaimRefused(p)
       PROVE  TypeOK'
    BY <1>11, UnlockType DEF TypeOK, ClaimRefused, ResumedPc
<1>12. ASSUME NEW p \in Procs, ClaimFails(p)
       PROVE  TypeOK'
    BY <1>12, UnlockType DEF TypeOK, ClaimFails
<1>13. ASSUME NEW p \in Procs, ClaimStored(p)
       PROVE  TypeOK'
  <2> DEFINE j == claiming[p]
             m == RecoveredMinute(j, ClaimMinute(p))
             c == [job |-> j, minute |-> m]
  <2>1. j \in Jobs
      BY <1>13 DEF ClaimStored, TypeOK
  <2>2. m \in Minute /\ c \in Claim
      BY <2>1, ClaimType
  <2> HIDE DEF m, c
  <2>3. /\ \/ /\ queue' = [queue EXCEPT ![p] = Append(@, c)]
              /\ pendingIds' = [pendingIds EXCEPT ![p] = @ \cup {j}]
              /\ UNCHANGED runLock
           \/ /\ runLock' = Unlock({j})
              /\ UNCHANGED <<queue, pendingIds>>
        /\ runs' = [runs EXCEPT ![j].pending = m]
      BY <1>13 DEF ClaimStored, m, c
  <2>4. queue' \in [Procs -> Seq(Claim)]
    <3>1. queue \in [Procs -> Seq(Claim)]
        BY DEF TypeOK
    <3>2. Append(queue[p], c) \in Seq(Claim)
        BY <2>2, <3>1, AppendProperties
    <3> QED
        BY <2>3, <3>1, <3>2
  <2>5. runLock' \in [Jobs -> Procs \cup {Nobody}] /\ pendingIds' \in [Procs -> SUBSET Jobs]
      BY <2>1, <2>3, UnlockType DEF TypeOK
  <2>6. runs' \in [Jobs -> Receipt]
      BY <2>1, <2>2, <2>3, ReceiptType DEF TypeOK
  <2>7. /\ fired' \in [Procs -> SUBSET Jobs]
        /\ claiming' \in [Procs -> Jobs \cup {NoJob}]
        /\ pc' \in [Procs -> {"idle", "list", "scan", "claim", "direct"}]
      BY <1>13, <2>1 DEF ClaimStored, TypeOK, ResumedPc
  <2>8. UNCHANGED <<now, created, tasks, mode, tickMinute, todo, firedMinute, running>>
      BY <1>13 DEF ClaimStored
  <2> QED
      BY <2>4, <2>5, <2>6, <2>7, <2>8 DEF TypeOK
<1>14. ASSUME NEW p \in Procs, DropStale(p) \/ Dispatch(p)
       PROVE  TypeOK'
  <2>1. queue[p] \in Seq(Claim) /\ queue[p] # <<>>
      BY <1>14 DEF DropStale, Dispatch, TypeOK
  <2>2. Head(queue[p]) \in Claim /\ Tail(queue[p]) \in Seq(Claim)
      BY <2>1, HeadTailProperties
  <2>3. CASE DropStale(p)
      BY <2>2, <2>3, UnlockType DEF DropStale, TypeOK
  <2>4. CASE Dispatch(p)
      BY <2>2, <2>4 DEF Dispatch, TypeOK
  <2> QED
      BY <1>14, <2>3, <2>4
<1>15. ASSUME NEW p \in Procs, RunSucceeds(p)
       PROVE  TypeOK'
  <2>1. running[p] \in Claim
      BY <1>15 DEF RunSucceeds, TypeOK
  <2>2. Acknowledge(running[p]) /\ EndRun(p)
      BY <1>15 DEF RunSucceeds
  <2>3. tasks' \subseteq created /\ runs' \in [Jobs -> Receipt]
      BY <2>1, <2>2, AcknowledgeType
  <2> QED
      BY <1>15, <2>2, <2>3, UnlockType DEF RunSucceeds, EndRun, TypeOK
<1>16. ASSUME NEW p \in Procs, RunFails(p)
       PROVE  TypeOK'
    BY <1>16, UnlockType DEF RunFails, EndRun, TypeOK
<1>17. ASSUME NEW p \in Procs, StopFinish(p)
       PROVE  TypeOK'
  <2>1. <<>> \in Seq(Claim)
      OBVIOUS
  <2> QED
      BY <1>17, <2>1, UnlockType DEF StopFinish, TypeOK
<1> QED
    BY <1>1, <1>2, <1>3, <1>4, <1>5, <1>6, <1>7, <1>8, <1>9, <1>10, <1>11,
       <1>12, <1>13, <1>14, <1>15, <1>16, <1>17
    DEF Next, Disturbance, Tick, Consume

\* The variables of CronDelivery keep their types in every behaviour.
THEOREM TypeCorrect == Spec => []TypeOK
<1>1. Init => TypeOK
  <2>1. 0 \in Minute /\ <<>> \in Seq(Claim)
      BY CronConstants DEF CronConstants, Minute
  <2> QED
      BY <2>1, ReceiptType DEF Init, TypeOK
<1>2. TypeOK /\ [Next]_vars => TypeOK'
    BY CronConstants, TypeStep
<1> QED
    BY <1>1, <1>2, PTL DEF Spec

-----------------------------------------------------------------------------
\* A receipt's pending minute stays later than its acknowledged one: only a
\* claim sets it, and a claim either recovers it or compares the two.
LEMMA AdvanceStep == TypeOK /\ ReceiptsAdvance /\ [Next]_vars => ReceiptsAdvance'
<1> SUFFICES ASSUME TypeOK, ReceiptsAdvance, [Next]_vars
             PROVE  ReceiptsAdvance'
    OBVIOUS
<1>1. CASE UNCHANGED runs
    BY <1>1 DEF ReceiptsAdvance
<1>2. ASSUME NEW j \in Jobs, DeleteJob(j)
      PROVE  ReceiptsAdvance'
    BY <1>2 DEF ReceiptsAdvance, DeleteJob, TypeOK, NoRun
<1>3. ASSUME NEW p \in Procs, ClaimStored(p)
      PROVE  ReceiptsAdvance'
  <2> DEFINE j == claiming[p]
             m == ClaimMinute(p)
  <2>1. j \in Jobs /\ Claimable(j, m) /\ runs' = [runs EXCEPT ![j].pending = RecoveredMinute(j, m)]
      BY <1>3 DEF ClaimStored, TypeOK
  <2>2. runs[j] \in Receipt
      BY <2>1 DEF TypeOK
  <2>3. CASE runs[j].pending # None
    <3>1. runs'[j].pending = runs[j].pending /\ runs'[j].completed = runs[j].completed
        BY <2>1, <2>2, <2>3 DEF RecoveredMinute, TypeOK, Receipt
    <3>2. \A i \in Jobs : i # j => runs'[i] = runs[i]
        BY <2>1 DEF TypeOK
    <3> QED
        BY <3>1, <3>2 DEF ReceiptsAdvance
  <2>4. CASE runs[j].pending = None
    <3>1. runs[j].completed < m
        BY <2>1, <2>4 DEF Claimable
    <3>2. runs'[j].pending = m /\ runs'[j].completed = runs[j].completed
        BY <2>1, <2>2, <2>4 DEF RecoveredMinute, TypeOK, Receipt
    <3>3. \A i \in Jobs : i # j => runs'[i] = runs[i]
        BY <2>1 DEF TypeOK
    <3> QED
        BY <3>1, <3>2, <3>3 DEF ReceiptsAdvance
  <2> QED
      BY <2>3, <2>4
<1>4. ASSUME NEW p \in Procs, RunSucceeds(p)
      PROVE  ReceiptsAdvance'
  <2>1. Acknowledge(running[p]) /\ running[p] \in Claim
      BY <1>4 DEF RunSucceeds, TypeOK
  <2>2. running[p].job \in Jobs
      BY <2>1 DEF Claim
  <2> DEFINE j == running[p].job
  <2>3. \/ runs' = runs
        \/ runs' = [runs EXCEPT ![j] = NoRun]
        \/ runs' = [runs EXCEPT ![j] = [pending |-> None, completed |-> running[p].minute]]
      BY <2>1 DEF Acknowledge
  <2>4. runs'[j] = runs[j] \/ runs'[j].pending = None
      BY <2>2, <2>3 DEF TypeOK, NoRun
  <2>5. \A i \in Jobs : i # j => runs'[i] = runs[i]
      BY <2>2, <2>3 DEF TypeOK
  <2> QED
      BY <2>2, <2>4, <2>5 DEF ReceiptsAdvance
<1>5. ClockTick \/ UNCHANGED vars \/ (\E j \in Jobs : CreateJob(j)) => runs' = runs
    BY DEF ClockTick, vars, CreateJob
<1>6. \A p \in Procs : Start(p) \/ Crash(p) \/ StopRequest(p) \/ StopFinish(p) => runs' = runs
    BY DEF Start, Crash, StopRequest, StopFinish
<1>7. \A p \in Procs : TickBegin(p) \/ TickList(p) \/ TickScan(p) \/ TickEnd(p) => runs' = runs
    BY DEF TickBegin, TickList, TickScan, TickEnd
<1>8. \A p \in Procs : ClaimRefused(p) \/ ClaimFails(p)
                       \/ (\E j \in Jobs : TryLock(p, j) \/ EnqueueJob(p, j)) => runs' = runs
    BY DEF ClaimRefused, ClaimFails, TryLock, EnqueueJob
<1>9. \A p \in Procs : DropStale(p) \/ Dispatch(p) \/ RunFails(p) => runs' = runs
    BY DEF DropStale, Dispatch, RunFails
<1> QED
    BY <1>1, <1>2, <1>3, <1>4, <1>5, <1>6, <1>7, <1>8, <1>9 DEF Next, Disturbance, Tick, Consume

\* ReceiptsAdvance holds in every behaviour: ticks work with minutes they
\* read long before, and still no delivery goes back in time.
THEOREM ReceiptsOnlyAdvance == Spec => []ReceiptsAdvance
<1>1. Init => ReceiptsAdvance
    BY DEF Init, ReceiptsAdvance, NoRun
<1>2. TypeOK /\ ReceiptsAdvance /\ [Next]_vars => ReceiptsAdvance'
    BY AdvanceStep
<1> QED
    BY <1>1, <1>2, TypeCorrect, PTL DEF Spec

-----------------------------------------------------------------------------
(* A job never runs twice at once: the processes hold exactly the locks of *)
(* the claims they can account for, and no claim is accounted for twice.   *)

\* What ClaimsAccounted says of one process.
LockInvAt(p) ==
    /\ HeldJobs(p) = pendingIds[p] \cup ({claiming[p]} \ {NoJob})
    /\ pc[p] \in {"idle", "list", "scan"} => claiming[p] = NoJob
    /\ claiming[p] \notin pendingIds[p]
    /\ pendingIds[p] = (QueuedJobs(p) \cup {running[p].job}) \ {NoJob}
    /\ running[p].job \notin QueuedJobs(p)
    /\ JobsDistinct(queue[p])

LEMMA LockInvPointwise == ClaimsAccounted <=> \A p \in Procs : LockInvAt(p)
  BY DEF ClaimsAccounted, LockInvAt, LocksMatchClaims, PendingIdsExact

\* Appending a claim of a new job, and taking the head off a queue.
LEMMA AppendJobs ==
    ASSUME NEW q \in Seq(Claim), NEW c \in Claim
    PROVE  /\ JobsIn(Append(q, c)) = JobsIn(q) \cup {c.job}
           /\ JobsDistinct(q) /\ c.job \notin JobsIn(q) => JobsDistinct(Append(q, c))
<1>1. /\ DOMAIN Append(q, c) = 1 .. Len(q) + 1
      /\ DOMAIN q = 1 .. Len(q)
      /\ Len(q) \in Nat
      /\ Append(q, c)[Len(q) + 1] = c
      /\ \A i \in 1 .. Len(q) : Append(q, c)[i] = q[i]
    BY AppendProperties, LenProperties
<1> QED
    BY <1>1 DEF JobsIn, JobsDistinct

LEMMA TailJobs ==
    ASSUME NEW q \in Seq(Claim), q # <<>>, JobsDistinct(q)
    PROVE  /\ Head(q).job \in JobsIn(q)
           /\ JobsIn(Tail(q)) = JobsIn(q) \ {Head(q).job}
           /\ JobsDistinct(Tail(q))
<1>1. /\ Len(q) \in Nat \ {0}
      /\ DOMAIN q = 1 .. Len(q)
      /\ Head(q) = q[1]
      /\ DOMAIN Tail(q) = 1 .. Len(q) - 1
      /\ \A i \in 1 .. Len(q) - 1 : Tail(q)[i] = q[i + 1]
    BY HeadTailProperties, LenProperties, EmptySeq
<1>2. \A i \in 1 .. Len(q) : q[i].job = q[1].job => i = 1
    BY <1>1 DEF JobsDistinct
<1>3. JobsDistinct(Tail(q))
    BY <1>1 DEF JobsDistinct
<1>4. JobsIn(Tail(q)) \subseteq JobsIn(q) \ {Head(q).job}
    BY <1>1, <1>2 DEF JobsIn
<1>5. JobsIn(q) \ {Head(q).job} \subseteq JobsIn(Tail(q))
  <2>1. SUFFICES ASSUME NEW i \in 1 .. Len(q), q[i].job # q[1].job
                 PROVE  q[i].job \in JobsIn(Tail(q))
      BY <1>1 DEF JobsIn
  <2>2. i - 1 \in 1 .. Len(q) - 1 /\ Tail(q)[i - 1] = q[i]
      BY <1>1, <2>1
  <2> QED
      BY <1>1, <2>2 DEF JobsIn
<1>6. Head(q).job \in JobsIn(q)
  <2>1. 1 \in DOMAIN q /\ Head(q).job = q[1].job
      BY <1>1
  <2> QED
      BY <2>1 DEF JobsIn
<1> QED
    BY <1>3, <1>4, <1>5, <1>6

\* A step of p that releases locks p holds, or takes a free one, leaves the
\* other processes what they hold.
LEMMA OthersKeepLocks ==
    ASSUME TypeOK, CronConstants, NEW p \in Procs, NEW q \in Procs, q # p,
           \/ \E S : S \subseteq HeldJobs(p) /\ runLock' = Unlock(S)
           \/ \E j \in Jobs : runLock[j] = Nobody /\ runLock' = [runLock EXCEPT ![j] = p]
           \/ runLock' = runLock
    PROVE  HeldJobs(q)' = HeldJobs(q)
<1>1. q # Nobody
    BY DEF CronConstants
<1> QED
    BY <1>1 DEF TypeOK, HeldJobs, Unlock

\* A step that changes nothing the invariant mentions about q.
LEMMA FrameOfOthers ==
    ASSUME NEW q \in Procs, LockInvAt(q), HeldJobs(q)' = HeldJobs(q),
           queue'[q] = queue[q], pendingIds'[q] = pendingIds[q],
           running'[q] = running[q], claiming'[q] = claiming[q], pc'[q] = pc[q]
    PROVE  LockInvAt(q)'
  BY DEF LockInvAt, QueuedJobs

\* Locks, queues and duplicate filters agree after every step (LocksMatchClaims
\* and PendingIdsExact together are inductive).
LEMMA LockStep == CronConstants /\ TypeOK /\ ClaimsAccounted /\ [Next]_vars => ClaimsAccounted'
<1> SUFFICES ASSUME CronConstants, TypeOK, ClaimsAccounted, [Next]_vars
             PROVE  ClaimsAccounted'
    OBVIOUS
<1>1. \A p \in Procs : LockInvAt(p)
    BY LockInvPointwise
<1> SUFFICES \A p \in Procs : LockInvAt(p)'
    BY DEF ClaimsAccounted, LockInvAt, LocksMatchClaims, PendingIdsExact
<1>2. CASE UNCHANGED <<runLock, claiming, consumer, pc>>
    BY <1>1, <1>2 DEF LockInvAt, QueuedJobs, HeldJobs
<1>3. ASSUME NEW p \in Procs, TickBegin(p) \/ TickList(p) \/ TickScan(p) \/ TickEnd(p)
      PROVE  \A q \in Procs : LockInvAt(q)'
  <2>1. UNCHANGED <<runLock, claiming, consumer>> /\ claiming[p] = NoJob
      BY <1>1, <1>3 DEF LockInvAt, TickBegin, TickList, TickScan, TickEnd
  <2>2. \A q \in Procs : q # p => pc'[q] = pc[q]
      BY <1>3 DEF TypeOK, TickBegin, TickList, TickScan, TickEnd
  <2> QED
      BY <1>1, <2>1, <2>2 DEF LockInvAt, QueuedJobs, HeldJobs
<1>4. ASSUME NEW p \in Procs, NEW j \in Jobs, TryLock(p, j) \/ EnqueueJob(p, j)
      PROVE  \A q \in Procs : LockInvAt(q)'
  <2>1. CASE UNCHANGED <<runLock, claiming, consumer, pc>>
      BY <1>2, <2>1
  <2>2. CASE /\ runLock[j] = Nobody /\ runLock' = [runLock EXCEPT ![j] = p]
             /\ claiming' = [claiming EXCEPT ![p] = j]
             /\ UNCHANGED consumer
             /\ pc' \in {pc, [pc EXCEPT ![p] = "direct"]}
             /\ pc'[p] \in {"claim", "direct"}
             /\ claiming[p] = NoJob
    <3>1. HeldJobs(p)' = HeldJobs(p) \cup {j} /\ j \notin HeldJobs(p)
        BY <2>2 DEF TypeOK, HeldJobs, CronConstants
    <3>2. claiming'[p] = j /\ j # NoJob /\ j \notin pendingIds[p] /\ HeldJobs(p) = pendingIds[p]
      <4>1. HeldJobs(p) = pendingIds[p]
          BY <1>1, <2>2 DEF LockInvAt
      <4>2. claiming'[p] = j
          BY <2>2 DEF TypeOK
      <4> QED
          BY <3>1, <4>1, <4>2 DEF CronConstants
    <3>3. LockInvAt(p)'
      <4>1. HeldJobs(p)' = pendingIds'[p] \cup ({claiming'[p]} \ {NoJob})
          BY <2>2, <3>1, <3>2
      <4>2. claiming'[p] \notin pendingIds'[p]
          BY <2>2, <3>2
      <4> QED
          BY <1>1, <2>2, <4>1, <4>2 DEF LockInvAt, QueuedJobs
    <3>4. ASSUME NEW q \in Procs, q # p PROVE LockInvAt(q)'
      <4>1. HeldJobs(q)' = HeldJobs(q)
          BY <2>2, <3>4, OthersKeepLocks
      <4>2. claiming'[q] = claiming[q] /\ pc'[q] = pc[q]
          BY <2>2, <3>4 DEF TypeOK
      <4> QED
          BY <1>1, <2>2, <4>1, <4>2, FrameOfOthers
    <3> QED
        BY <3>3, <3>4
  <2>3. CASE TryLock(p, j)
      BY <2>1, <2>2, <2>3 DEF TryLock
  <2>4. CASE EnqueueJob(p, j)
    <3>1. claiming[p] = NoJob
        BY <1>1, <2>4 DEF EnqueueJob, LockInvAt
    <3>2. pc'[p] = "direct"
        BY <2>4 DEF EnqueueJob, TypeOK
    <3> QED
        BY <2>2, <2>4, <3>1, <3>2 DEF EnqueueJob
  <2> QED
      BY <1>4, <2>3, <2>4
<1>5. ASSUME NEW p \in Procs, NEW S,
             S = {claiming[p]} \ {NoJob}, runLock' = Unlock(S),
             claiming' = [claiming EXCEPT ![p] = NoJob], UNCHANGED consumer,
             \A q \in Procs : q # p => pc'[q] = pc[q]
      PROVE  \A q \in Procs : LockInvAt(q)'
  <2>1. S \subseteq HeldJobs(p) /\ HeldJobs(p) \ S = pendingIds[p]
      BY <1>1, <1>5 DEF LockInvAt
  <2>2. HeldJobs(p)' = HeldJobs(p) \ S
      BY <1>5 DEF HeldJobs, Unlock, TypeOK, CronConstants
  <2>3. claiming'[p] = NoJob /\ NoJob \notin pendingIds[p]
      BY <1>1, <1>5 DEF TypeOK, LockInvAt
  <2>4. LockInvAt(p)'
      BY <1>1, <1>5, <2>1, <2>2, <2>3 DEF LockInvAt, QueuedJobs
  <2>5. ASSUME NEW q \in Procs, q # p PROVE LockInvAt(q)'
    <3>1. HeldJobs(q)' = HeldJobs(q)
        BY <1>5, <2>1, <2>5, OthersKeepLocks
    <3>2. claiming'[q] = claiming[q]
        BY <1>5, <2>5 DEF TypeOK
    <3> QED
        BY <1>1, <1>5, <2>5, <3>1, <3>2, FrameOfOthers
  <2> QED
      BY <2>4, <2>5
<1>6. ASSUME NEW p \in Procs, ClaimRefused(p) \/ ClaimFails(p)
      PROVE  \A q \in Procs : LockInvAt(q)'
  <2>1. \A q \in Procs : q # p => pc'[q] = pc[q]
      BY <1>6 DEF ClaimRefused, ClaimFails, ResumedPc, TypeOK
  <2>2. {claiming[p]} = {claiming[p]} \ {NoJob}
      BY <1>6 DEF ClaimRefused, ClaimFails
  <2> QED
      BY <1>5, <1>6, <2>1, <2>2 DEF ClaimRefused, ClaimFails
<1>7. ASSUME NEW p \in Procs, ClaimStored(p)
      PROVE  \A q \in Procs : LockInvAt(q)'
  <2> DEFINE j == claiming[p]
             c == [job |-> j, minute |-> RecoveredMinute(j, ClaimMinute(p))]
  <2>1. j \in Jobs /\ j # NoJob /\ {j} = {claiming[p]} \ {NoJob}
      BY <1>7 DEF ClaimStored, TypeOK
  <2>2. c \in Claim /\ c.job = j
      BY <2>1, ClaimType
  <2> HIDE DEF c
  <2>3. /\ claiming' = [claiming EXCEPT ![p] = NoJob]
        /\ \A q \in Procs : q # p => pc'[q] = pc[q]
        /\ UNCHANGED running
      BY <1>7 DEF ClaimStored, ResumedPc, TypeOK
  <2>4. CASE Accepts(p, j)
    <3>1. /\ queue' = [queue EXCEPT ![p] = Append(@, c)]
          /\ pendingIds' = [pendingIds EXCEPT ![p] = @ \cup {j}]
          /\ UNCHANGED runLock
        BY <1>7, <2>4 DEF ClaimStored, c
    <3>2. queue[p] \in Seq(Claim) /\ queue'[p] = Append(queue[p], c)
        BY <3>1 DEF TypeOK
    <3>3. j \notin pendingIds[p] /\ j \notin QueuedJobs(p) /\ running[p].job # j
        BY <1>1, <2>1 DEF LockInvAt
    <3>4. QueuedJobs(p)' = QueuedJobs(p) \cup {j} /\ JobsDistinct(queue'[p])
        BY <1>1, <2>2, <3>2, <3>3, AppendJobs DEF LockInvAt, QueuedJobs
    <3>5. pendingIds'[p] = pendingIds[p] \cup {j} /\ claiming'[p] = NoJob /\ NoJob \notin pendingIds'[p]
        BY <1>1, <2>1, <2>3, <3>1 DEF TypeOK, LockInvAt
    <3>6. LockInvAt(p)'
      <4>1. HeldJobs(p)' = pendingIds'[p] \cup ({claiming'[p]} \ {NoJob})
          BY <1>1, <2>1, <3>1, <3>5 DEF LockInvAt, HeldJobs
      <4>2. pendingIds'[p] = (QueuedJobs(p)' \cup {running[p].job}) \ {NoJob}
          BY <1>1, <2>1, <3>4, <3>5 DEF LockInvAt
      <4>3. running[p].job \notin QueuedJobs(p)'
          BY <1>1, <3>3, <3>4 DEF LockInvAt
      <4> QED
          BY <2>3, <3>4, <3>5, <4>1, <4>2, <4>3 DEF LockInvAt
    <3>7. ASSUME NEW q \in Procs, q # p PROVE LockInvAt(q)'
      <4>1. HeldJobs(q)' = HeldJobs(q)
          BY <3>1 DEF HeldJobs
      <4>2. /\ queue'[q] = queue[q] /\ pendingIds'[q] = pendingIds[q]
            /\ claiming'[q] = claiming[q] /\ running'[q] = running[q]
          BY <2>3, <3>1, <3>7 DEF TypeOK
      <4> QED
          BY <1>1, <2>3, <3>7, <4>1, <4>2, FrameOfOthers
    <3> QED
        BY <3>6, <3>7
  <2>5. CASE ~Accepts(p, j)
    <3>1. runLock' = Unlock({j}) /\ UNCHANGED <<queue, pendingIds>>
        BY <1>7, <2>5 DEF ClaimStored
    <3> QED
        BY <1>5, <2>1, <2>3, <3>1
  <2> QED
      BY <2>4, <2>5
<1>8. ASSUME NEW p \in Procs, DropStale(p)
      PROVE  \A q \in Procs : LockInvAt(q)'
  <2> DEFINE d == Head(queue[p])
  <2>1. /\ queue[p] \in Seq(Claim) /\ queue[p] # <<>> /\ running[p] = NoClaim
        /\ queue'[p] = Tail(queue[p]) /\ pendingIds'[p] = pendingIds[p] \ {d.job}
        /\ runLock' = Unlock({d.job})
        /\ UNCHANGED <<claiming, running, pc>>
      BY <1>8 DEF DropStale, TypeOK
  <2>2. /\ d.job \in QueuedJobs(p)
        /\ QueuedJobs(p)' = QueuedJobs(p) \ {d.job}
        /\ JobsDistinct(queue'[p])
      BY <1>1, <2>1, TailJobs DEF LockInvAt, QueuedJobs
  <2>3. d.job \in Jobs /\ NoClaim.job = NoJob
    <3>1. d \in Claim
        BY <2>1, HeadTailProperties
    <3> QED
        BY <3>1 DEF Claim, NoClaim
  <2>4. d.job \in pendingIds[p] /\ d.job \in HeldJobs(p) /\ d.job # claiming[p] /\ d.job # NoJob
      BY <1>1, <2>2, <2>3 DEF LockInvAt, CronConstants
  <2>5. HeldJobs(p)' = HeldJobs(p) \ {d.job}
      BY <2>1 DEF HeldJobs, Unlock, TypeOK, CronConstants
  <2>6. LockInvAt(p)'
      BY <1>1, <2>1, <2>2, <2>3, <2>4, <2>5 DEF LockInvAt
  <2>7. ASSUME NEW q \in Procs, q # p PROVE LockInvAt(q)'
    <3>1. HeldJobs(q)' = HeldJobs(q)
      <4>1. {d.job} \subseteq HeldJobs(p)
          BY <2>4
      <4> QED
          BY <2>1, <2>7, <4>1, OthersKeepLocks
    <3>2. queue'[q] = queue[q] /\ pendingIds'[q] = pendingIds[q]
        BY <1>8, <2>7 DEF DropStale, TypeOK
    <3> QED
        BY <1>1, <2>1, <2>7, <3>1, <3>2, FrameOfOthers
  <2> QED
      BY <2>6, <2>7
<1>9. ASSUME NEW p \in Procs, Dispatch(p)
      PROVE  \A q \in Procs : LockInvAt(q)'
  <2> DEFINE d == Head(queue[p])
  <2>1. /\ queue[p] \in Seq(Claim) /\ queue[p] # <<>> /\ running[p] = NoClaim
        /\ queue'[p] = Tail(queue[p]) /\ running'[p] = d
        /\ UNCHANGED <<claiming, runLock, pendingIds, pc>>
      BY <1>9 DEF Dispatch, TypeOK
  <2>2. /\ d.job \in QueuedJobs(p)
        /\ QueuedJobs(p)' = QueuedJobs(p) \ {d.job}
        /\ JobsDistinct(queue'[p])
      BY <1>1, <2>1, TailJobs DEF LockInvAt, QueuedJobs
  <2>3. running[p].job = NoJob
      BY <2>1 DEF NoClaim
  <2>4. LockInvAt(p)'
      BY <1>1, <2>1, <2>2, <2>3 DEF LockInvAt, HeldJobs
  <2>5. ASSUME NEW q \in Procs, q # p PROVE LockInvAt(q)'
    <3>1. HeldJobs(q)' = HeldJobs(q)
        BY <2>1 DEF HeldJobs
    <3>2. queue'[q] = queue[q] /\ running'[q] = running[q]
        BY <1>9, <2>5 DEF Dispatch, TypeOK
    <3> QED
        BY <1>1, <2>1, <2>5, <3>1, <3>2, FrameOfOthers
  <2> QED
      BY <2>4, <2>5
<1>10. ASSUME NEW p \in Procs, RunSucceeds(p) \/ RunFails(p)
      PROVE  \A q \in Procs : LockInvAt(q)'
  <2> DEFINE r == running[p].job
  <2>1. /\ running[p] \in Claim
        /\ running'[p] = NoClaim /\ pendingIds'[p] = pendingIds[p] \ {r}
        /\ runLock' = Unlock({r})
        /\ UNCHANGED <<claiming, queue, pc>>
      BY <1>10 DEF RunSucceeds, RunFails, EndRun, TypeOK
  <2>2. r \in Jobs /\ r # NoJob /\ NoClaim.job = NoJob
      BY <2>1 DEF Claim, NoClaim, CronConstants
  <2>3. r \in pendingIds[p] /\ r \in HeldJobs(p) /\ r # claiming[p] /\ r \notin QueuedJobs(p)
      BY <1>1, <2>2 DEF LockInvAt
  <2>4. HeldJobs(p)' = HeldJobs(p) \ {r}
      BY <2>1 DEF HeldJobs, Unlock, TypeOK, CronConstants
  <2>5. NoJob \notin QueuedJobs(p)
    <3>1. queue[p] \in Seq(Claim)
        BY DEF TypeOK
    <3>2. \A i \in DOMAIN queue[p] : queue[p][i].job \in Jobs
      <4>1. \A i \in DOMAIN queue[p] : queue[p][i] \in Claim
          BY <3>1, ElementOfSeq, LenProperties
      <4> QED
          BY <4>1 DEF Claim
    <3> QED
        BY <3>2 DEF QueuedJobs, JobsIn, CronConstants
  <2>6. LockInvAt(p)'
      BY <1>1, <2>1, <2>2, <2>3, <2>4, <2>5 DEF LockInvAt, QueuedJobs
  <2>7. ASSUME NEW q \in Procs, q # p PROVE LockInvAt(q)'
    <3>1. HeldJobs(q)' = HeldJobs(q)
      <4>1. {r} \subseteq HeldJobs(p)
          BY <2>3
      <4> QED
          BY <2>1, <2>7, <4>1, OthersKeepLocks
    <3>2. running'[q] = running[q] /\ pendingIds'[q] = pendingIds[q]
        BY <1>10, <2>7 DEF RunSucceeds, RunFails, EndRun, TypeOK
    <3> QED
        BY <1>1, <2>1, <2>7, <3>1, <3>2, FrameOfOthers
  <2> QED
      BY <2>6, <2>7
<1>11. ASSUME NEW p \in Procs, StopFinish(p)
       PROVE  \A q \in Procs : LockInvAt(q)'
  <2>1. /\ queue'[p] = <<>> /\ pendingIds'[p] = {} /\ running[p] = NoClaim
        /\ runLock' = Unlock(QueuedJobs(p))
        /\ UNCHANGED <<claiming, running, pc>>
      BY <1>11 DEF StopFinish, TypeOK
  <2>2. QueuedJobs(p)' = {} /\ JobsDistinct(queue'[p]) /\ NoClaim.job = NoJob
      BY <2>1 DEF QueuedJobs, JobsIn, JobsDistinct, NoClaim
  <2>3. HeldJobs(p)' = HeldJobs(p) \ QueuedJobs(p)
      BY <2>1 DEF HeldJobs, Unlock, TypeOK, CronConstants
  <2>4. QueuedJobs(p) \ {NoJob} = pendingIds[p]
      BY <1>1, <2>1, <2>2 DEF LockInvAt
  <2>5. QueuedJobs(p) \subseteq HeldJobs(p)
    <3>1. NoJob \notin QueuedJobs(p)
        BY <1>1, <2>1, <2>2 DEF LockInvAt
    <3> QED
        BY <1>1, <2>4, <3>1 DEF LockInvAt
  <2>6. LockInvAt(p)'
    <3>1. HeldJobs(p)' = {claiming[p]} \ {NoJob}
        BY <1>1, <2>3, <2>4 DEF LockInvAt
    <3>2. claiming'[p] \notin pendingIds'[p] /\ running'[p].job = NoJob
        BY <2>1, <2>2
    <3> QED
        BY <1>1, <2>1, <2>2, <3>1, <3>2 DEF LockInvAt
  <2>7. ASSUME NEW q \in Procs, q # p PROVE LockInvAt(q)'
    <3>1. HeldJobs(q)' = HeldJobs(q)
        BY <2>1, <2>5, <2>7, OthersKeepLocks
    <3>2. queue'[q] = queue[q] /\ pendingIds'[q] = pendingIds[q]
        BY <1>11, <2>7 DEF StopFinish, TypeOK
    <3> QED
        BY <1>1, <2>1, <2>7, <3>1, <3>2, FrameOfOthers
  <2> QED
      BY <2>6, <2>7
<1>12. ASSUME NEW p \in Procs, Crash(p)
       PROVE  \A q \in Procs : LockInvAt(q)'
  <2>1. /\ queue'[p] = <<>> /\ pendingIds'[p] = {} /\ running'[p] = NoClaim
        /\ claiming'[p] = NoJob
        /\ runLock' = Unlock(HeldJobs(p))
      BY <1>12 DEF Crash, TypeOK
  <2>2. QueuedJobs(p)' = {} /\ JobsDistinct(queue'[p]) /\ NoClaim.job = NoJob
      BY <2>1 DEF QueuedJobs, JobsIn, JobsDistinct, NoClaim
  <2>3. HeldJobs(p)' = {}
      BY <2>1 DEF HeldJobs, Unlock, TypeOK, CronConstants
  <2>4. LockInvAt(p)'
      BY <2>1, <2>2, <2>3 DEF LockInvAt
  <2>5. ASSUME NEW q \in Procs, q # p PROVE LockInvAt(q)'
    <3>1. HeldJobs(q)' = HeldJobs(q)
        BY <2>1, <2>5, OthersKeepLocks
    <3>2. /\ queue'[q] = queue[q] /\ pendingIds'[q] = pendingIds[q]
          /\ running'[q] = running[q] /\ claiming'[q] = claiming[q] /\ pc'[q] = pc[q]
        BY <1>12, <2>5 DEF Crash, TypeOK
    <3> QED
        BY <1>1, <2>5, <3>1, <3>2, FrameOfOthers
  <2> QED
      BY <2>4, <2>5
<1>13. ASSUME \/ ClockTick
              \/ \E j \in Jobs : CreateJob(j) \/ DeleteJob(j)
              \/ \E p \in Procs : Start(p) \/ StopRequest(p)
              \/ UNCHANGED vars
       PROVE  UNCHANGED <<runLock, claiming, consumer, pc>>
    BY <1>13 DEF vars, ClockTick, CreateJob, DeleteJob, Start, StopRequest
<1> QED
    BY <1>2, <1>3, <1>4, <1>6, <1>7, <1>8, <1>9, <1>10, <1>11, <1>12, <1>13
    DEF Next, Disturbance, Tick, Consume

\* Every run lock belongs to a claim its holder can account for, and the
\* duplicate filter names exactly the queued and running jobs
\* (LocksMatchClaims, PendingIdsExact), in every behaviour.
THEOREM LocksAccounted == Spec => []ClaimsAccounted
<1>1. Init => ClaimsAccounted
  <2>1. NoClaim.job = NoJob
      BY DEF NoClaim
  <2>2. Init => \A p \in Procs : LockInvAt(p)
      BY <2>1, CronConstants
      DEF Init, LockInvAt, HeldJobs, QueuedJobs, JobsIn, JobsDistinct, CronConstants
  <2> QED
      BY <2>2, LockInvPointwise
<1>2. TypeOK /\ ClaimsAccounted /\ [Next]_vars => ClaimsAccounted'
    BY CronConstants, LockStep
<1> QED
    BY <1>1, <1>2, TypeCorrect, PTL DEF Spec

\* The prompt of one job never runs in two processes at the same time
\* (ExclusiveRun): whoever runs it holds its only lock.
THEOREM RunsAreExclusive == Spec => []ExclusiveRun
<1>1. TypeOK /\ LocksMatchClaims => ExclusiveRun
  <2> SUFFICES ASSUME TypeOK, LocksMatchClaims,
                      NEW p \in Procs, NEW q \in Procs,
                      p # q, running[p] # NoClaim, running[p].job = running[q].job
               PROVE  FALSE
      BY DEF ExclusiveRun
  <2>1. running[p].job \in Jobs /\ running[p].job # NoJob
      BY CronConstants DEF TypeOK, Claim, CronConstants
  <2>2. running[p].job \in HeldJobs(p) /\ running[p].job \in HeldJobs(q)
      BY <2>1 DEF LocksMatchClaims
  <2> QED
      BY <2>2 DEF HeldJobs
<1>2. ClaimsAccounted => LocksMatchClaims
    BY DEF ClaimsAccounted
<1> QED
    BY <1>1, <1>2, TypeCorrect, LocksAccounted, PTL

-----------------------------------------------------------------------------
(* What is on disk and what the processes have in memory.                  *)

\* The claims of p that wait or run.
ClaimsOf(p) == {queue[p][i] : i \in DOMAIN queue[p]} \cup ({running[p]} \ {NoClaim})

\* ClaimHasReceipt, for jobs that were once created.
ClaimsKnown ==
    \A p \in Procs : \A c \in ClaimsOf(p) :
        c.job \in created /\ (c.job \in tasks => runs[c.job].pending = c.minute)

\* The document has no receipt of a job that it does not list.
DeletedIsForgotten == \A j \in Jobs \ tasks : runs[j] = NoRun

LEMMA ClaimsOfType ==
    ASSUME TypeOK, NEW p \in Procs
    PROVE  /\ ClaimsOf(p) \subseteq Claim
           /\ \A c \in Claim : c.job \in Jobs /\ c.minute \in Minute /\ c # NoClaim
<1>1. queue[p] \in Seq(Claim) /\ running[p] \in Claim \cup {NoClaim}
    BY DEF TypeOK
<1>2. \A i \in DOMAIN queue[p] : queue[p][i] \in Claim
    BY <1>1, ElementOfSeq, LenProperties
<1>3. \A c \in Claim : c.job \in Jobs /\ c.minute \in Minute
    BY DEF Claim
<1>4. NoClaim.job = NoJob
    BY DEF NoClaim
<1> QED
    BY <1>1, <1>2, <1>3, <1>4, CronConstants DEF ClaimsOf, CronConstants

\* A claim waits or runs under the lock of its job, and alone.
LEMMA ClaimsApart ==
    ASSUME TypeOK, ClaimsAccounted, NEW p \in Procs, NEW q \in Procs,
           NEW c \in ClaimsOf(p), NEW d \in ClaimsOf(q), c.job = d.job
    PROVE  p = q /\ c = d
<1>1. LockInvAt(p) /\ LockInvAt(q)
    BY LockInvPointwise
<1>2. c.job \in Jobs /\ c.job # NoJob /\ c # NoClaim /\ d # NoClaim
    BY ClaimsOfType, CronConstants DEF CronConstants
<1>3. c.job \in HeldJobs(p) /\ d.job \in HeldJobs(q)
    BY <1>1, <1>2 DEF LockInvAt, ClaimsOf, QueuedJobs, JobsIn
<1>4. p = q
    BY <1>3 DEF HeldJobs
<1>5. CASE c = running[p] \/ d = running[p]
    BY <1>1, <1>2, <1>4, <1>5 DEF LockInvAt, ClaimsOf, QueuedJobs, JobsIn
<1>6. CASE c # running[p] /\ d # running[p]
    BY <1>1, <1>2, <1>4, <1>6 DEF LockInvAt, ClaimsOf, JobsDistinct
<1> QED
    BY <1>4, <1>5, <1>6

\* The claim being made is no claim of the same process yet.
LEMMA ClaimingApart ==
    ASSUME TypeOK, ClaimsAccounted, NEW p \in Procs, claiming[p] # NoJob,
           NEW q \in Procs, NEW c \in ClaimsOf(q)
    PROVE  c.job # claiming[p]
<1>1. LockInvAt(p) /\ LockInvAt(q)
    BY LockInvPointwise
<1>2. c.job \in Jobs /\ c.job # NoJob
    BY ClaimsOfType, CronConstants DEF CronConstants
<1>3. c.job \in HeldJobs(q) /\ c.job \in pendingIds[q]
    BY <1>1, <1>2 DEF LockInvAt, ClaimsOf, QueuedJobs, JobsIn
<1>4. claiming[p] \in HeldJobs(p)
    BY <1>1 DEF LockInvAt
<1> QED
    BY <1>1, <1>3, <1>4 DEF LockInvAt, HeldJobs

\* What the head of a queue is, and what its tail keeps.
LEMMA QueueClaims ==
    ASSUME NEW q \in Seq(Claim), q # <<>>
    PROVE  /\ Head(q) \in {q[i] : i \in DOMAIN q}
           /\ {Tail(q)[i] : i \in DOMAIN Tail(q)} \subseteq {q[i] : i \in DOMAIN q}
<1>1. /\ Len(q) \in Nat \ {0}
      /\ DOMAIN q = 1 .. Len(q)
      /\ Head(q) = q[1]
      /\ DOMAIN Tail(q) = 1 .. Len(q) - 1
      /\ \A i \in 1 .. Len(q) - 1 : Tail(q)[i] = q[i + 1]
    BY HeadTailProperties, LenProperties, EmptySeq
<1>2. \A i \in 1 .. Len(q) - 1 : i + 1 \in 1 .. Len(q)
    BY <1>1
<1>3. 1 \in DOMAIN q
    BY <1>1
<1> QED
    BY <1>1, <1>2, <1>3

\* The steps that take or drop claims, and leave the document as it is.
Lets(p) ==
    \/ DropStale(p) \/ Dispatch(p) \/ RunFails(p) \/ StopFinish(p) \/ Crash(p)

LEMMA ClaimsLet ==
    ASSUME TypeOK, NEW p \in Procs, Lets(p)
    PROVE  /\ UNCHANGED disk
           /\ \A q \in Procs : ClaimsOf(q)' \subseteq ClaimsOf(q)
<1>1. queue[p] \in Seq(Claim)
    BY DEF TypeOK
<1>2. /\ UNCHANGED disk
      /\ \A q \in Procs : q # p => queue'[q] = queue[q] /\ running'[q] = running[q]
    BY DEF Lets, DropStale, Dispatch, RunFails, EndRun, StopFinish, Crash, TypeOK
<1>3. CASE DropStale(p)
  <2>1. queue'[p] = Tail(queue[p]) /\ queue[p] # <<>> /\ running'[p] = running[p]
      BY <1>3 DEF DropStale, TypeOK
  <2>2. {queue'[p][i] : i \in DOMAIN queue'[p]} \subseteq {queue[p][i] : i \in DOMAIN queue[p]}
      BY <1>1, <2>1, QueueClaims
  <2>3. ClaimsOf(p)' \subseteq ClaimsOf(p)
      BY <2>1, <2>2 DEF ClaimsOf
  <2> QED
      BY <1>2, <2>3 DEF ClaimsOf
<1>4. CASE Dispatch(p)
  <2>1. queue'[p] = Tail(queue[p]) /\ queue[p] # <<>> /\ running'[p] = Head(queue[p])
      BY <1>4 DEF Dispatch, TypeOK
  <2>2. {queue'[p][i] : i \in DOMAIN queue'[p]} \subseteq {queue[p][i] : i \in DOMAIN queue[p]}
      BY <1>1, <2>1, QueueClaims
  <2>3. Head(queue[p]) \in {queue[p][i] : i \in DOMAIN queue[p]}
      BY <1>1, <2>1, QueueClaims
  <2>4. ClaimsOf(p)' \subseteq ClaimsOf(p)
      BY <2>1, <2>2, <2>3 DEF ClaimsOf
  <2> QED
      BY <1>2, <2>4 DEF ClaimsOf
<1>5. CASE RunFails(p)
  <2>1. queue'[p] = queue[p] /\ running'[p] = NoClaim
      BY <1>5 DEF RunFails, EndRun, TypeOK
  <2> QED
      BY <1>2, <2>1 DEF ClaimsOf
<1>6. CASE StopFinish(p) \/ Crash(p)
  <2>1. queue'[p] = <<>> /\ (running'[p] = running[p] \/ running'[p] = NoClaim)
      BY <1>6 DEF StopFinish, Crash, TypeOK
  <2> QED
      BY <1>2, <2>1 DEF ClaimsOf
<1> QED
    BY <1>3, <1>4, <1>5, <1>6 DEF Lets

\* A claim that is stored: its job exists, a pending minute is kept, and the
\* claim is the only one that is new.
LEMMA ClaimStoredShape ==
    ASSUME TypeOK, NEW p \in Procs, ClaimStored(p)
    PROVE  \E j \in tasks, m \in Minute :
              /\ UNCHANGED <<created, tasks, running>>
              /\ j = claiming[p] /\ runs' = [runs EXCEPT ![j] = [@ EXCEPT !.pending = m]]
              /\ runs[j].pending # None => m = runs[j].pending
              /\ runs[j].pending = None => runs[j].completed < m
              /\ \A q \in Procs :
                    ClaimsOf(q)' \subseteq ClaimsOf(q) \cup {[job |-> j, minute |-> m]}
<1> DEFINE j == claiming[p]
           m == RecoveredMinute(j, ClaimMinute(p))
           c == [job |-> j, minute |-> m]
<1>1. /\ j \in tasks /\ j \in Jobs
      /\ runs[j].pending # None \/ runs[j].completed < ClaimMinute(p)
    BY DEF ClaimStored, Claimable, TypeOK
<1>2. m \in Minute /\ c \in Claim
    BY <1>1, ClaimType
<1>3. /\ runs[j].pending # None => m = runs[j].pending
      /\ runs[j].pending = None => runs[j].completed < m
    BY <1>1 DEF RecoveredMinute
<1>4. UNCHANGED <<created, tasks, running>> /\ runs' = [runs EXCEPT ![j].pending = m]
    BY DEF ClaimStored
<1>5. queue' = [queue EXCEPT ![p] = Append(@, c)] \/ queue' = queue
    BY DEF ClaimStored
<1> HIDE DEF m, c
<1>6. ASSUME NEW q \in Procs
      PROVE  ClaimsOf(q)' \subseteq ClaimsOf(q) \cup {c}
  <2>1. CASE queue'[q] = queue[q]
      BY <1>4, <2>1 DEF ClaimsOf
  <2>2. CASE queue'[q] # queue[q]
    <3>1. queue'[q] = Append(queue[q], c) /\ queue[q] \in Seq(Claim)
        BY <1>5, <2>2 DEF TypeOK
    <3>2. /\ DOMAIN queue[q] = 1 .. Len(queue[q]) /\ Len(queue[q]) \in Nat
          /\ DOMAIN queue'[q] = 1 .. Len(queue[q]) + 1
          /\ queue'[q][Len(queue[q]) + 1] = c
          /\ \A i \in 1 .. Len(queue[q]) : queue'[q][i] = queue[q][i]
        BY <1>2, <3>1, AppendProperties, LenProperties
    <3>3. {queue'[q][i] : i \in DOMAIN queue'[q]}
              \subseteq {queue[q][i] : i \in DOMAIN queue[q]} \cup {c}
        BY <3>2
    <3> QED
        BY <1>4, <3>3 DEF ClaimsOf
  <2> QED
      BY <2>1, <2>2
<1> QED
    BY <1>1, <1>2, <1>3, <1>4, <1>6 DEF c

\* A prompt that ran: its claim goes, and is acknowledged if it still matches.
LEMMA RunSucceedsShape ==
    ASSUME TypeOK, ClaimsAccounted, NEW p \in Procs, RunSucceeds(p)
    PROVE  \E c \in ClaimsOf(p) :
              /\ c = running[p] /\ running' = [running EXCEPT ![p] = NoClaim]
              /\ UNCHANGED created
              /\ \A q \in Procs : ClaimsOf(q)' \subseteq ClaimsOf(q) \ {c}
              /\ \/ /\ ~(c.job \in tasks /\ runs[c.job].pending = c.minute)
                    /\ UNCHANGED <<tasks, runs>>
                 \/ /\ c.job \in tasks /\ runs[c.job].pending = c.minute
                    /\ c.job \in OneShot
                    /\ tasks' = tasks \ {c.job} /\ runs' = [runs EXCEPT ![c.job] = NoRun]
                 \/ /\ c.job \in tasks /\ runs[c.job].pending = c.minute
                    /\ c.job \notin OneShot
                    /\ runs' = [runs EXCEPT ![c.job] = [pending |-> None, completed |-> c.minute]]
                    /\ UNCHANGED tasks
<1> DEFINE c == running[p]
<1>1. c # NoClaim /\ c \in ClaimsOf(p) /\ Acknowledge(c)
    BY DEF RunSucceeds, ClaimsOf
<1>2. running' = [running EXCEPT ![p] = NoClaim] /\ queue' = queue /\ UNCHANGED created
    BY DEF RunSucceeds, EndRun
<1>3. ASSUME NEW q \in Procs
      PROVE  ClaimsOf(q)' \subseteq ClaimsOf(q) \ {c}
  <2>1. CASE q # p
    <3>1. ClaimsOf(q)' = ClaimsOf(q)
        BY <1>2, <2>1 DEF ClaimsOf, TypeOK
    <3>2. c \notin ClaimsOf(q)
        BY <1>1, <2>1, ClaimsApart
    <3> QED
        BY <3>1, <3>2
  <2>2. CASE q = p
    <3>1. LockInvAt(p)
        BY LockInvPointwise
    <3>2. \A i \in DOMAIN queue[p] : queue[p][i] # c
        BY <3>1 DEF LockInvAt, QueuedJobs, JobsIn
    <3>3. running'[p] = NoClaim
        BY <1>2 DEF TypeOK
    <3> QED
        BY <1>2, <2>2, <3>2, <3>3 DEF ClaimsOf
  <2> QED
      BY <2>1, <2>2
<1> QED
    BY <1>1, <1>2, <1>3 DEF Acknowledge

\* Every step but four leaves the document as it is, and no claim is new.
LEMMA OtherSteps ==
    ASSUME TypeOK, [Next]_vars,
           ~ \E j \in Jobs : CreateJob(j) \/ DeleteJob(j),
           ~ \E p \in Procs : ClaimStored(p) \/ RunSucceeds(p)
    PROVE  /\ UNCHANGED disk
           /\ \A q \in Procs : ClaimsOf(q)' \subseteq ClaimsOf(q)
<1>1. CASE \E p \in Procs : Lets(p)
    BY <1>1, ClaimsLet
<1>2. CASE UNCHANGED <<disk, queue, running>>
    BY <1>2 DEF ClaimsOf
<1> QED
    BY <1>1, <1>2
    DEF Next, Disturbance, Tick, Consume, vars, Lets, ClockTick, Start, StopRequest, TickBegin,
        TickList, TickScan, TickEnd, TryLock, EnqueueJob, ClaimRefused, ClaimFails

\* The receipts and the claims agree after every step.
LEMMA ReceiptStep ==
    TypeOK /\ ClaimsAccounted /\ ClaimsKnown /\ DeletedIsForgotten /\ [Next]_vars
        => ClaimsKnown' /\ DeletedIsForgotten'
<1> SUFFICES ASSUME TypeOK, ClaimsAccounted, ClaimsKnown, DeletedIsForgotten, [Next]_vars
             PROVE  ClaimsKnown' /\ DeletedIsForgotten'
    OBVIOUS
<1>1. CASE UNCHANGED disk /\ \A q \in Procs : ClaimsOf(q)' \subseteq ClaimsOf(q)
    BY <1>1 DEF ClaimsKnown, DeletedIsForgotten
<1>2. ASSUME NEW j \in Jobs, CreateJob(j) \/ DeleteJob(j)
      PROVE  ClaimsKnown' /\ DeletedIsForgotten'
  <2>1. \A q \in Procs : ClaimsOf(q)' = ClaimsOf(q)
      BY <1>2 DEF CreateJob, DeleteJob, ClaimsOf
  <2>2. CASE CreateJob(j)
      BY <2>1, <2>2 DEF CreateJob, ClaimsKnown, DeletedIsForgotten
  <2>3. CASE DeleteJob(j)
    <3>1. /\ tasks' = tasks \ {j} /\ created' = created /\ runs'[j] = NoRun
          /\ \A i \in Jobs : i # j => runs'[i] = runs[i]
        BY <2>3 DEF DeleteJob, TypeOK
    <3>2. \A q \in Procs : \A c \in ClaimsOf(q) : c.job \in Jobs
        BY ClaimsOfType
    <3> QED
        BY <2>1, <3>1, <3>2 DEF ClaimsKnown, DeletedIsForgotten
  <2> QED
      BY <1>2, <2>2, <2>3
<1>3. ASSUME NEW p \in Procs, ClaimStored(p)
      PROVE  ClaimsKnown' /\ DeletedIsForgotten'
  <2>1. PICK j \in tasks, m \in Minute :
              /\ UNCHANGED <<created, tasks, running>>
              /\ j = claiming[p] /\ runs' = [runs EXCEPT ![j] = [@ EXCEPT !.pending = m]]
              /\ runs[j].pending # None => m = runs[j].pending
              /\ runs[j].pending = None => runs[j].completed < m
              /\ \A q \in Procs :
                    ClaimsOf(q)' \subseteq ClaimsOf(q) \cup {[job |-> j, minute |-> m]}
      BY <1>3, ClaimStoredShape
  <2>2. /\ j \in Jobs /\ runs'[j].pending = m /\ \A i \in Jobs : i # j => runs'[i] = runs[i]
      BY <2>1 DEF TypeOK, Receipt
  <2>3. DeletedIsForgotten'
      BY <2>1, <2>2 DEF DeletedIsForgotten
  <2>4. ASSUME NEW q \in Procs, NEW c \in ClaimsOf(q)'
        PROVE  c.job \in created' /\ (c.job \in tasks' => runs'[c.job].pending = c.minute)
    <3>1. CASE c = [job |-> j, minute |-> m]
        BY <2>1, <2>2, <3>1 DEF TypeOK
    <3>2. CASE c \in ClaimsOf(q)
      <4>1. c.job # j /\ c.job \in Jobs
          BY <1>3, <2>1, <3>2, ClaimingApart, ClaimsOfType DEF ClaimStored
      <4> QED
          BY <2>1, <2>2, <3>2, <4>1 DEF ClaimsKnown
    <3> QED
        BY <2>1, <2>4, <3>1, <3>2
  <2> QED
      BY <2>3, <2>4 DEF ClaimsKnown
<1>4. ASSUME NEW p \in Procs, RunSucceeds(p)
      PROVE  ClaimsKnown' /\ DeletedIsForgotten'
  <2>1. PICK c \in ClaimsOf(p) :
              /\ UNCHANGED created
              /\ \A q \in Procs : ClaimsOf(q)' \subseteq ClaimsOf(q) \ {c}
              /\ \/ UNCHANGED <<tasks, runs>>
                 \/ tasks' = tasks \ {c.job} /\ runs' = [runs EXCEPT ![c.job] = NoRun]
                 \/ /\ runs' = [runs EXCEPT ![c.job] = [pending |-> None, completed |-> c.minute]]
                    /\ UNCHANGED tasks /\ c.job \in tasks
      BY <1>4, RunSucceedsShape
  <2>2. /\ c.job \in Jobs
        /\ \A i \in Jobs : i # c.job => runs'[i] = runs[i] /\ (i \in tasks' <=> i \in tasks)
      BY <2>1, ClaimsOfType DEF TypeOK
  <2>3. DeletedIsForgotten'
    <3>1. c.job \notin tasks' => runs'[c.job] = NoRun
        BY <2>1, <2>2 DEF DeletedIsForgotten, TypeOK
    <3> QED
        BY <2>2, <3>1 DEF DeletedIsForgotten
  <2>4. ASSUME NEW q \in Procs, NEW d \in ClaimsOf(q)'
        PROVE  d.job \in created' /\ (d.job \in tasks' => runs'[d.job].pending = d.minute)
    <3>1. d \in ClaimsOf(q) /\ d # c
        BY <2>1, <2>4
    <3>2. d.job # c.job /\ d.job \in Jobs
        BY <3>1, ClaimsApart, ClaimsOfType
    <3> QED
        BY <2>1, <2>2, <3>1, <3>2 DEF ClaimsKnown
  <2> QED
      BY <2>3, <2>4 DEF ClaimsKnown
<1> QED
    BY <1>1, <1>2, <1>3, <1>4, OtherSteps

\* All that is known of the receipts.
CronInv ==
    /\ TypeOK /\ ClaimsAccounted /\ ReceiptsAdvance
    /\ ClaimsKnown /\ DeletedIsForgotten

LEMMA CronInvariant == Spec => []CronInv
<1>1. Init => ClaimsKnown /\ DeletedIsForgotten
    BY DEF Init, ClaimsKnown, ClaimsOf, DeletedIsForgotten
<1>2. TypeOK /\ ClaimsAccounted /\ ClaimsKnown /\ DeletedIsForgotten /\ [Next]_vars
          => ClaimsKnown' /\ DeletedIsForgotten'
    BY ReceiptStep
<1>3. TypeOK /\ ClaimsAccounted /\ ReceiptsAdvance /\ ClaimsKnown /\ DeletedIsForgotten => CronInv
    BY DEF CronInv
<1> QED
    BY <1>1, <1>2, <1>3, TypeCorrect, LocksAccounted, ReceiptsOnlyAdvance, PTL DEF Spec

\* In every behaviour a claim in memory finds its receipt on disk, and a
\* receipt that waits is later than what was acknowledged (storage.py).
THEOREM ReceiptsStayTruthful == Spec => []ReceiptsTruthful
<1>1. CronInv => ReceiptsTruthful
  <2> SUFFICES ASSUME CronInv PROVE ClaimHasReceipt
      BY DEF CronInv, ReceiptsTruthful
  <2>1. NoClaim.job = NoJob /\ NoJob \notin tasks
      BY CronConstants DEF CronInv, TypeOK, NoClaim, CronConstants
  <2>2. ASSUME NEW p \in Procs, NEW i \in DOMAIN queue[p], queue[p][i].job \in tasks
        PROVE  runs[queue[p][i].job].pending = queue[p][i].minute
      BY <2>2 DEF CronInv, ClaimsKnown, ClaimsOf
  <2>3. ASSUME NEW p \in Procs, running[p].job \in tasks
        PROVE  runs[running[p].job].pending = running[p].minute
      BY <2>1, <2>3 DEF CronInv, ClaimsKnown, ClaimsOf
  <2> QED
      BY <2>2, <2>3 DEF ClaimHasReceipt
<1> QED
    BY <1>1, CronInvariant, PTL

-----------------------------------------------------------------------------
(* What a step may do to a receipt and to a job that is gone.              *)

\* A process begins to run only the head of its queue, of a listed job.
LEMMA OnlyDispatched ==
    ASSUME TypeOK, [Next]_vars, NEW p \in Procs, running[p] = NoClaim, running'[p] # NoClaim
    PROVE  /\ Dispatch(p) /\ running'[p] \in ClaimsOf(p) /\ running'[p].job \in tasks
<1>1. ASSUME NEW q \in Procs, q # p,
             \/ Dispatch(q) \/ RunSucceeds(q) \/ RunFails(q) \/ Crash(q)
      PROVE  FALSE
    BY <1>1 DEF Dispatch, RunSucceeds, RunFails, EndRun, Crash, TypeOK
<1>2. ASSUME RunSucceeds(p) \/ RunFails(p) \/ Crash(p)
      PROVE  FALSE
    BY <1>2 DEF RunSucceeds, RunFails, EndRun, Crash, TypeOK
<1>3. ASSUME running' = running PROVE FALSE
    BY <1>3
<1>4. Dispatch(p)
  <2>1. ClockTick \/ UNCHANGED vars \/ (\E j \in Jobs : CreateJob(j) \/ DeleteJob(j))
            => running' = running
      BY DEF ClockTick, vars, CreateJob, DeleteJob
  <2>2. \A q \in Procs : Start(q) \/ StopRequest(q) \/ DropStale(q) \/ StopFinish(q)
            => running' = running
      BY DEF Start, StopRequest, DropStale, StopFinish
  <2>3. \A q \in Procs : TickBegin(q) \/ TickList(q) \/ TickScan(q) \/ TickEnd(q)
            => running' = running
      BY DEF TickBegin, TickList, TickScan, TickEnd
  <2>4. \A q \in Procs : ClaimRefused(q) \/ ClaimStored(q) \/ ClaimFails(q)
                         \/ (\E j \in Jobs : TryLock(q, j) \/ EnqueueJob(q, j))
            => running' = running
      BY DEF ClaimRefused, ClaimStored, ClaimFails, TryLock, EnqueueJob
  <2>5. PICK q \in Procs : Dispatch(q) \/ RunSucceeds(q) \/ RunFails(q) \/ Crash(q)
      BY <1>3, <2>1, <2>2, <2>3, <2>4 DEF Next, Disturbance, Tick, Consume
  <2> QED
      BY <1>1, <1>2, <2>5
<1>5. /\ running'[p] = Head(queue[p]) /\ queue[p] \in Seq(Claim) /\ queue[p] # <<>>
      /\ Head(queue[p]).job \in tasks
    BY <1>4 DEF Dispatch, IsCurrent, TypeOK
<1> QED
    BY <1>4, <1>5, QueueClaims DEF ClaimsOf

\* What each step does to the receipt of a job.
LEMMA ReceiptMoves ==
    ASSUME CronInv, [Next]_vars, NEW j \in Jobs
    PROVE  \/ runs'[j] = runs[j] /\ (j \in tasks' <=> j \in tasks)
           \/ CreateJob(j)
           \/ DeleteJob(j) /\ j \notin tasks' /\ runs'[j] = NoRun
           \/ \E p \in Procs :
                 /\ ClaimStored(p) /\ j \in tasks /\ tasks' = tasks
                 /\ runs[j].pending # None => runs'[j].pending = runs[j].pending
           \/ \E p \in Procs :
                 /\ RunSucceeds(p) /\ j \in tasks
                 /\ running[p] = [job |-> j, minute |-> runs[j].pending]
                 /\ \/ j \notin tasks' /\ runs'[j] = NoRun
                    \/ tasks' = tasks /\ runs'[j].completed = runs[j].pending
<1> USE DEF CronInv
<1>1. CASE UNCHANGED disk
    BY <1>1
<1>2. ASSUME NEW i \in Jobs, CreateJob(i), i # j
      PROVE  runs'[j] = runs[j] /\ (j \in tasks' <=> j \in tasks)
    BY <1>2 DEF CreateJob
<1>3. ASSUME NEW i \in Jobs, DeleteJob(i)
      PROVE  \/ runs'[j] = runs[j] /\ (j \in tasks' <=> j \in tasks)
             \/ DeleteJob(j) /\ j \notin tasks' /\ runs'[j] = NoRun
    BY <1>3 DEF DeleteJob, TypeOK
<1>4. ASSUME NEW p \in Procs, ClaimStored(p)
      PROVE  \/ runs'[j] = runs[j] /\ (j \in tasks' <=> j \in tasks)
             \/ /\ j \in tasks /\ tasks' = tasks
                /\ runs[j].pending # None => runs'[j].pending = runs[j].pending
  <2>1. PICK i \in tasks, m \in Minute :
              /\ tasks' = tasks /\ runs' = [runs EXCEPT ![i] = [@ EXCEPT !.pending = m]]
              /\ runs[i].pending # None => m = runs[i].pending
      BY <1>4, ClaimStoredShape
  <2>2. CASE i # j
      BY <2>1, <2>2 DEF TypeOK
  <2>3. CASE i = j
    <3>1. runs'[j].pending = m
        BY <2>1, <2>3 DEF TypeOK, Receipt
    <3> QED
        BY <2>1, <2>3, <3>1
  <2> QED
      BY <2>2, <2>3
<1>5. ASSUME NEW p \in Procs, RunSucceeds(p)
      PROVE  \/ runs'[j] = runs[j] /\ (j \in tasks' <=> j \in tasks)
             \/ /\ j \in tasks
                /\ running[p] = [job |-> j, minute |-> runs[j].pending]
                /\ \/ j \notin tasks' /\ runs'[j] = NoRun
                   \/ tasks' = tasks /\ runs'[j].completed = runs[j].pending
  <2>1. PICK c \in ClaimsOf(p) :
              /\ c = running[p]
              /\ \/ UNCHANGED <<tasks, runs>>
                 \/ /\ c.job \in tasks /\ runs[c.job].pending = c.minute
                    /\ tasks' = tasks \ {c.job} /\ runs' = [runs EXCEPT ![c.job] = NoRun]
                 \/ /\ c.job \in tasks /\ runs[c.job].pending = c.minute
                    /\ runs' = [runs EXCEPT ![c.job] = [pending |-> None, completed |-> c.minute]]
                    /\ UNCHANGED tasks
      BY <1>5, RunSucceedsShape
  <2>2. CASE c.job # j
      BY <2>1, <2>2 DEF TypeOK
  <2>3. CASE c.job = j
    <3>1. c = [job |-> c.job, minute |-> c.minute]
        BY ClaimsOfType DEF Claim
    <3>2. CASE UNCHANGED <<tasks, runs>>
        BY <3>2
    <3>3. CASE /\ j \in tasks /\ runs[j].pending = c.minute
               /\ tasks' = tasks \ {j} /\ runs' = [runs EXCEPT ![j] = NoRun]
      <4>1. runs'[j] = NoRun /\ j \notin tasks'
          BY <3>3 DEF TypeOK
      <4> QED
          BY <2>1, <2>3, <3>1, <3>3, <4>1
    <3>4. CASE /\ j \in tasks /\ runs[j].pending = c.minute /\ tasks' = tasks
               /\ runs' = [runs EXCEPT ![j] = [pending |-> None, completed |-> c.minute]]
      <4>1. runs'[j].completed = c.minute
          BY <3>4 DEF TypeOK
      <4> QED
          BY <2>1, <2>3, <3>1, <3>4, <4>1
    <3> QED
        BY <2>1, <2>3, <3>2, <3>3, <3>4
  <2> QED
      BY <2>2, <2>3
<1> QED
    BY <1>1, <1>2, <1>3, <1>4, <1>5, OtherSteps

\* A pending delivery is settled by the process that ran it, or goes with its
\* job; no acknowledged minute is delivered again; a deleted job stays deleted
\* (storage.py, runtime.py), in every behaviour.
THEOREM DeliveriesStaySound == Spec => DeliveriesSound
<1>1. CronInv /\ [Next]_vars =>
        [\A j \in Jobs :
            runs[j].pending # None /\ runs'[j].pending # runs[j].pending =>
                \/ j \notin tasks'
                \/ \E p \in Procs :
                      /\ running[p] = [job |-> j, minute |-> runs[j].pending]
                      /\ runs'[j].completed = runs[j].pending]_vars
  <2> SUFFICES ASSUME CronInv, [Next]_vars, NEW j \in Jobs,
                      runs[j].pending # None, runs'[j].pending # runs[j].pending
               PROVE  \/ j \notin tasks'
                      \/ \E p \in Procs :
                            /\ running[p] = [job |-> j, minute |-> runs[j].pending]
                            /\ runs'[j].completed = runs[j].pending
      OBVIOUS
  <2>1. ~CreateJob(j)
      BY DEF CreateJob
  <2> QED
      BY <2>1, ReceiptMoves
<1>2. CronInv /\ [Next]_vars =>
        [\A p \in Procs :
            running[p] = NoClaim /\ running'[p] # NoClaim =>
                running'[p].minute > runs[running'[p].job].completed]_vars
  <2> SUFFICES ASSUME CronInv, [Next]_vars, NEW p \in Procs,
                      running[p] = NoClaim, running'[p] # NoClaim
               PROVE  running'[p].minute > runs[running'[p].job].completed
      OBVIOUS
  <2>1. running'[p] \in ClaimsOf(p) /\ running'[p].job \in tasks
      BY OnlyDispatched DEF CronInv
  <2>2. /\ runs[running'[p].job].pending = running'[p].minute
        /\ running'[p].job \in Jobs /\ running'[p].minute \in Minute
      BY <2>1, ClaimsOfType DEF CronInv, ClaimsKnown
  <2>3. running'[p].minute # None
      BY <2>2 DEF Minute, None
  <2>4. runs[running'[p].job].completed < running'[p].minute
      BY <2>2, <2>3 DEF CronInv, ReceiptsAdvance
  <2>5. runs[running'[p].job].completed \in Minute \cup {None}
      BY <2>2 DEF CronInv, TypeOK, Receipt
  <2> QED
      BY <2>2, <2>4, <2>5 DEF Minute, None
<1>3. CronInv /\ [Next]_vars =>
        [\A j \in created \ tasks : j \notin tasks' /\ runs'[j] = NoRun]_vars
  <2> SUFFICES ASSUME CronInv, [Next]_vars, NEW j \in created \ tasks
               PROVE  j \notin tasks' /\ runs'[j] = NoRun
      OBVIOUS
  <2>1. j \in Jobs /\ runs[j] = NoRun /\ ~CreateJob(j)
      BY DEF CronInv, TypeOK, DeletedIsForgotten, CreateJob
  <2> QED
      BY <2>1, ReceiptMoves
<1> QED
    BY <1>1, <1>2, <1>3, CronInvariant, PTL
    DEF Spec, DeliveriesSound, ReceiptDurable, NoRepeat, DeletionFinal

-----------------------------------------------------------------------------
(* The processes together implement the ledger.                            *)

ActiveJobs == {running[p].job : p \in Procs} \ {NoJob}
OwedOf == [j \in Jobs |-> runs[j].pending]
DoneOf == [j \in Jobs |-> runs[j].completed]

\* A step that leaves the document and the running claims alone is a stutter.
LEMMA LedgerStutters ==
    ASSUME UNCHANGED <<created, tasks, runs, running>>
    PROVE  UNCHANGED Ledger!ledger
BY DEF Ledger!ledger

\* The claims that run are of different jobs, so a run that ends takes its
\* job, and no other, out of the set of active jobs.
LEMMA RunLeaves ==
    ASSUME TypeOK, ClaimsAccounted, NEW p \in Procs, running[p] # NoClaim,
           running' = [running EXCEPT ![p] = NoClaim]
    PROVE  /\ running[p].job \in ActiveJobs /\ running[p].job \in Jobs
           /\ ActiveJobs' = ActiveJobs \ {running[p].job}
<1>1. running[p].job # NoJob /\ running[p] \in ClaimsOf(p) /\ running[p].job \in Jobs
  <2>1. running[p] \in ClaimsOf(p)
      BY DEF ClaimsOf
  <2> QED
      BY <2>1, ClaimsOfType, CronConstants DEF CronConstants
<1>2. ASSUME NEW q \in Procs, q # p, running[q].job # NoJob
      PROVE  running[q].job # running[p].job
  <2>1. running[q] \in ClaimsOf(q)
      BY <1>2 DEF ClaimsOf, NoClaim
  <2> QED
      BY <1>1, <1>2, <2>1, ClaimsApart
<1>3. running'[p].job = NoJob /\ \A q \in Procs : q # p => running'[q] = running[q]
    BY DEF TypeOK, NoClaim
<1>4. ActiveJobs' \subseteq ActiveJobs \ {running[p].job}
    BY <1>2, <1>3 DEF ActiveJobs
<1>5. ActiveJobs \ {running[p].job} \subseteq ActiveJobs'
    BY <1>3 DEF ActiveJobs
<1> QED
    BY <1>1, <1>4, <1>5 DEF ActiveJobs

\* Every step of the processes is a step of the ledger or a stutter.
LEMMA LedgerStep == CronInv /\ [Next]_vars => [Ledger!Next]_(Ledger!ledger)
<1> SUFFICES ASSUME CronInv, [Next]_vars
             PROVE  Ledger!Next \/ UNCHANGED Ledger!ledger
    OBVIOUS
<1> USE DEF CronInv
<1>1. runs \in [Jobs -> Receipt] /\ tasks \subseteq Jobs
      /\ \A r \in Receipt : r.pending \in Minute \cup {None} /\ r.completed \in Minute \cup {None}
    BY DEF TypeOK, Receipt
<1>2. ASSUME NEW j \in Jobs, CreateJob(j) PROVE Ledger!Next
  <2>1. Ledger!Create(j)
      BY <1>2 DEF CreateJob, Ledger!Create
  <2> QED
      BY <2>1 DEF Ledger!Next
<1>3. ASSUME NEW j \in Jobs, DeleteJob(j) PROVE Ledger!Next
  <2>1. /\ OwedOf' = [OwedOf EXCEPT ![j] = None]
        /\ DoneOf' = [DoneOf EXCEPT ![j] = None]
      BY <1>1, <1>3 DEF DeleteJob, NoRun, OwedOf, DoneOf
  <2>2. Ledger!Delete(j)
      BY <1>3, <2>1 DEF DeleteJob, Ledger!Delete, Ledger!None, None, OwedOf, DoneOf
  <2> QED
      BY <2>2 DEF Ledger!Next
<1>4. ASSUME NEW p \in Procs, ClaimStored(p) PROVE Ledger!Next \/ UNCHANGED Ledger!ledger
  <2>1. PICK j \in tasks, m \in Minute :
              /\ UNCHANGED <<created, tasks, running>>
              /\ runs' = [runs EXCEPT ![j] = [@ EXCEPT !.pending = m]]
              /\ runs[j].pending # None => m = runs[j].pending
              /\ runs[j].pending = None => runs[j].completed < m
      BY <1>4, ClaimStoredShape
  <2>2. /\ OwedOf' = [OwedOf EXCEPT ![j] = m]
        /\ DoneOf' = DoneOf
      BY <1>1, <2>1 DEF Receipt, OwedOf, DoneOf
  <2>3. CASE runs[j].pending # None
    <3>1. OwedOf' = OwedOf
        BY <1>1, <2>1, <2>2, <2>3 DEF OwedOf
    <3> QED
        BY <2>1, <2>2, <3>1 DEF Ledger!ledger, OwedOf, DoneOf
  <2>4. CASE runs[j].pending = None
    <3>1. m > runs[j].completed
        BY <1>1, <2>1, <2>4 DEF Minute, None
    <3>2. Ledger!Owe(j, m)
        BY <1>1, <2>1, <2>2, <2>4, <3>1
        DEF Ledger!Owe, Ledger!None, None, OwedOf, DoneOf
    <3> QED
        BY <1>1, <2>1, <3>2 DEF Ledger!Next
  <2> QED
      BY <2>3, <2>4
<1>5. ASSUME NEW p \in Procs, Dispatch(p) PROVE Ledger!Next
  <2> DEFINE c == Head(queue[p])
  <2>1. /\ running[p] = NoClaim /\ running' = [running EXCEPT ![p] = c]
        /\ queue[p] \in Seq(Claim) /\ queue[p] # <<>>
        /\ c.job \in tasks
        /\ UNCHANGED disk
      BY <1>5 DEF Dispatch, IsCurrent, TypeOK
  <2>2. c \in ClaimsOf(p) /\ c # running[p]
    <3>1. c \in {queue[p][i] : i \in DOMAIN queue[p]}
        BY <2>1, QueueClaims
    <3>2. c \in ClaimsOf(p)
        BY <3>1 DEF ClaimsOf
    <3> QED
        BY <2>1, <3>2, ClaimsOfType
  <2> HIDE DEF c
  <2>3. c.job \in Jobs /\ c.job # NoJob /\ runs[c.job].pending = c.minute /\ c.minute # None
    <3>1. c.job \in Jobs /\ c.minute \in Minute
        BY <2>2, ClaimsOfType
    <3> QED
        BY <2>1, <2>2, <3>1, CronConstants DEF ClaimsKnown, CronConstants, Minute, None
  <2>4. ASSUME NEW q \in Procs PROVE running[q].job # c.job
    <3>1. CASE running[q] = NoClaim
        BY <2>3, <3>1 DEF NoClaim
    <3>2. CASE running[q] # NoClaim
      <4>1. running[q] \in ClaimsOf(q)
          BY <3>2 DEF ClaimsOf
      <4> QED
          BY <2>2, <4>1, ClaimsApart
    <3> QED
        BY <3>1, <3>2
  <2>5. c.job \notin ActiveJobs
      BY <2>4 DEF ActiveJobs
  <2>6. ActiveJobs' = ActiveJobs \cup {c.job}
    <3>1. running'[p] = c /\ running[p].job = NoJob
          /\ \A q \in Procs : q # p => running'[q] = running[q]
        BY <2>1 DEF TypeOK, NoClaim
    <3>2. ActiveJobs' \subseteq ActiveJobs \cup {c.job}
        BY <3>1 DEF ActiveJobs
    <3>3. ActiveJobs \cup {c.job} \subseteq ActiveJobs'
        BY <2>3, <3>1 DEF ActiveJobs
    <3> QED
        BY <3>2, <3>3
  <2>7. OwedOf[c.job] # None
      BY <2>3 DEF OwedOf
  <2>8. PICK j \in Jobs : j = c.job
      BY <2>3
  <2>9. Ledger!Start(j)
      BY <2>1, <2>5, <2>6, <2>7, <2>8
      DEF Ledger!Start, Ledger!None, None, OwedOf, DoneOf, ActiveJobs, disk
  <2> QED
      BY <2>9 DEF Ledger!Next
<1>6. ASSUME NEW p \in Procs, RunSucceeds(p) PROVE Ledger!Next
  <2>1. PICK c \in ClaimsOf(p) :
              /\ c = running[p] /\ running' = [running EXCEPT ![p] = NoClaim]
              /\ UNCHANGED created
              /\ \/ /\ ~(c.job \in tasks /\ runs[c.job].pending = c.minute)
                    /\ UNCHANGED <<tasks, runs>>
                 \/ /\ c.job \in tasks /\ runs[c.job].pending = c.minute
                    /\ c.job \in OneShot
                    /\ tasks' = tasks \ {c.job} /\ runs' = [runs EXCEPT ![c.job] = NoRun]
                 \/ /\ c.job \in tasks /\ runs[c.job].pending = c.minute
                    /\ c.job \notin OneShot
                    /\ runs' = [runs EXCEPT ![c.job] = [pending |-> None, completed |-> c.minute]]
                    /\ UNCHANGED tasks
      BY <1>6, RunSucceedsShape
  <2>2. c \in Claim /\ c # NoClaim /\ c.job \in Jobs /\ c.minute \in Minute /\ c.minute # None
    <3>1. c \in Claim
        BY ClaimsOfType
    <3>2. c # NoClaim /\ c.job \in Jobs /\ c.minute \in Minute
        BY <3>1, ClaimsOfType
    <3> QED
        BY <3>1, <3>2 DEF Minute, None
  <2>3. /\ c.job \in ActiveJobs
        /\ ActiveJobs' = ActiveJobs \ {c.job}
      BY <2>1, <2>2, RunLeaves
  <2>4. CASE UNCHANGED <<tasks, runs>>
    <3>1. Ledger!Abandon({c.job})
        BY <2>1, <2>3, <2>4 DEF Ledger!Abandon, ActiveJobs
    <3> QED
        BY <2>2, <3>1 DEF Ledger!Next
  <2>5. CASE /\ c.job \in tasks /\ runs[c.job].pending = c.minute
             /\ c.job \in OneShot
             /\ tasks' = tasks \ {c.job} /\ runs' = [runs EXCEPT ![c.job] = NoRun]
    <3>1. /\ OwedOf' = [OwedOf EXCEPT ![c.job] = None]
          /\ DoneOf' = [DoneOf EXCEPT ![c.job] = None]
        BY <1>1, <2>5 DEF NoRun, OwedOf, DoneOf
    <3>2. OwedOf[c.job] # None
        BY <2>2, <2>5 DEF OwedOf
    <3>3. Ledger!Settle(c.job)
        BY <2>1, <2>3, <2>5, <3>1, <3>2
        DEF Ledger!Settle, Ledger!None, None, OwedOf, DoneOf, ActiveJobs
    <3> QED
        BY <2>2, <3>3 DEF Ledger!Next
  <2>6. CASE /\ c.job \in tasks /\ runs[c.job].pending = c.minute
             /\ c.job \notin OneShot
             /\ runs' = [runs EXCEPT ![c.job] = [pending |-> None, completed |-> c.minute]]
             /\ UNCHANGED tasks
    <3>1. /\ OwedOf' = [OwedOf EXCEPT ![c.job] = None]
          /\ DoneOf' = [DoneOf EXCEPT ![c.job] = OwedOf[c.job]]
        BY <1>1, <2>2, <2>6 DEF OwedOf, DoneOf
    <3>2. OwedOf[c.job] # None
        BY <2>2, <2>6 DEF OwedOf
    <3>3. Ledger!Settle(c.job)
        BY <2>1, <2>3, <2>6, <3>1, <3>2
        DEF Ledger!Settle, Ledger!None, None, OwedOf, DoneOf, ActiveJobs
    <3> QED
        BY <2>2, <3>3 DEF Ledger!Next
  <2> QED
      BY <2>1, <2>4, <2>5, <2>6
<1>7. ASSUME NEW p \in Procs, RunFails(p) \/ Crash(p)
      PROVE  Ledger!Next \/ UNCHANGED Ledger!ledger
  <2>1. running' = [running EXCEPT ![p] = NoClaim] /\ UNCHANGED disk
      BY <1>7 DEF RunFails, EndRun, Crash
  <2>2. CASE running[p] = NoClaim
    <3>1. running' = running
        BY <2>1, <2>2 DEF TypeOK
    <3> QED
        BY <2>1, <3>1, LedgerStutters DEF disk
  <2>3. CASE running[p] # NoClaim
    <3>1. /\ running[p].job \in ActiveJobs /\ running[p].job \in Jobs
          /\ ActiveJobs' = ActiveJobs \ {running[p].job}
        BY <2>1, <2>3, RunLeaves
    <3>2. PICK S \in SUBSET Jobs : S = {running[p].job}
        BY <3>1
    <3>3. Ledger!Abandon(S)
        BY <2>1, <3>1, <3>2 DEF Ledger!Abandon, ActiveJobs, disk
    <3> QED
        BY <3>3 DEF Ledger!Next
  <2> QED
      BY <2>2, <2>3
<1>8. CASE UNCHANGED <<created, tasks, runs, running>>
    BY <1>8, LedgerStutters
<1>9. ClockTick \/ UNCHANGED vars => UNCHANGED <<created, tasks, runs, running>>
    BY DEF ClockTick, vars, disk, consumer
<1>10. \A p \in Procs : Start(p) \/ StopRequest(p) \/ DropStale(p) \/ StopFinish(p)
           => UNCHANGED <<created, tasks, runs, running>>
    BY DEF Start, StopRequest, DropStale, StopFinish, disk, consumer
<1>11. \A p \in Procs : TickBegin(p) \/ TickList(p) \/ TickScan(p) \/ TickEnd(p)
           => UNCHANGED <<created, tasks, runs, running>>
    BY DEF TickBegin, TickList, TickScan, TickEnd, disk, consumer
<1>12. \A p \in Procs : ClaimRefused(p) \/ ClaimFails(p) \/ (\E j \in Jobs : TryLock(p, j) \/ EnqueueJob(p, j))
           => UNCHANGED <<created, tasks, runs, running>>
    BY DEF ClaimRefused, ClaimFails, TryLock, EnqueueJob, disk, consumer
<1> QED
    BY <1>2, <1>3, <1>4, <1>5, <1>6, <1>7, <1>8, <1>9, <1>10, <1>11, <1>12
    DEF Next, Disturbance, Tick, Consume

\* The scheduler, the consumer and the document of all processes together
\* behave as the ledger: a debt is made once, one delivery at a time is under
\* way, and what is settled was delivered (storage.py, scheduler.py,
\* runtime.py).
THEOREM DeliveryImplementsLedger == Spec => ImplementsLedger
<1>1. Init => Ledger!Init
  <2> SUFFICES ASSUME Init PROVE Ledger!Init
      OBVIOUS
  <2>1. \A p \in Procs : running[p].job = NoJob
      BY DEF Init, NoClaim
  <2>2. {running[p].job : p \in Procs} \ {NoJob} = {}
      BY <2>1
  <2> QED
      BY <2>2 DEF Init, Ledger!Init, Ledger!None, None, NoRun
<1>2. CronInv /\ [Next]_vars => [Ledger!Next]_(Ledger!ledger)
    BY LedgerStep
<1> QED
    BY CronInvariant, <1>1, <1>2, PTL DEF Spec, ImplementsLedger, Ledger!Spec
=============================================================================
