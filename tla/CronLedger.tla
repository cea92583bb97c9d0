----------------------------- MODULE CronLedger -----------------------------
(***************************************************************************)
(* What the durable cron machinery of koder_agent/harness/cron promises,   *)
(* with processes, files and locks left out.  A live job may owe the       *)
(* delivery of one minute; a minute that is owed is later than every       *)
(* minute already done; at most one delivery of a job is under way; a      *)
(* delivery that fails leaves the debt standing; a one-shot job disappears *)
(* with its first acknowledged delivery; deletion is final.                *)
(***************************************************************************)
EXTENDS Integers

CONSTANTS Jobs,      \* every job identifier ever allocated
          OneShot,   \* the jobs created with recurring=False
          Minutes    \* the minutes of the clock

VARIABLES issued,    \* identifiers already used by a create
          live,      \* jobs that exist
          owed,      \* owed[j]: the minute that must be delivered, or None
          done,      \* done[j]: the last acknowledged minute, or None
          active     \* jobs with a delivery under way

ledger == <<issued, live, owed, done, active>>

None == -1

Init ==
    /\ issued = {}
    /\ live = {}
    /\ owed = [j \in Jobs |-> None]
    /\ done = [j \in Jobs |-> None]
    /\ active = {}

Create(j) ==
    /\ j \notin issued
    /\ issued' = issued \cup {j}
    /\ live' = live \cup {j}
    /\ UNCHANGED <<owed, done, active>>

\* Deletion drops the receipts; a delivery under way runs on.
Delete(j) ==
    /\ j \in live
    /\ live' = live \ {j}
    /\ owed' = [owed EXCEPT ![j] = None]
    /\ done' = [done EXCEPT ![j] = None]
    /\ UNCHANGED <<issued, active>>

Owe(j, m) ==
    /\ j \in live
    /\ owed[j] = None
    /\ m > done[j]
    /\ owed' = [owed EXCEPT ![j] = m]
    /\ UNCHANGED <<issued, live, done, active>>

Start(j) ==
    /\ j \in live
    /\ owed[j] # None
    /\ j \notin active
    /\ active' = active \cup {j}
    /\ UNCHANGED <<issued, live, owed, done>>

\* The delivery succeeded: its debt is settled, a one-shot is used up.
Settle(j) ==
    /\ j \in active
    /\ j \in live
    /\ owed[j] # None
    /\ active' = active \ {j}
    /\ owed' = [owed EXCEPT ![j] = None]
    /\ IF j \in OneShot
       THEN /\ live' = live \ {j}
            /\ done' = [done EXCEPT ![j] = None]
       ELSE /\ done' = [done EXCEPT ![j] = owed[j]]
            /\ UNCHANGED live
    /\ UNCHANGED issued

\* Deliveries end without settling: failure, shutdown, or the crash of a
\* process; also a success whose job was deleted meanwhile.
Abandon(S) ==
    /\ S # {}
    /\ S \subseteq active
    /\ active' = active \ S
    /\ UNCHANGED <<issued, live, owed, done>>

Next ==
    \/ \E j \in Jobs : Create(j) \/ Delete(j) \/ Start(j) \/ Settle(j)
    \/ \E j \in Jobs, m \in Minutes : Owe(j, m)
    \/ \E S \in SUBSET Jobs : Abandon(S)

Spec == Init /\ [][Next]_ledger
=============================================================================
