---------------------------- MODULE ServerTrust ----------------------------
(***************************************************************************)
(* One project MCP server and whether it may be used:                      *)
(* ProjectServerAuthorizationValidator (mcp/runtime_authorization.py) over *)
(* the approvals that all processes share (mcp/project_approvals.py).      *)
(*                                                                         *)
(* The configuration that was reviewed has a digest; approval is for that  *)
(* digest.  An operation is admitted under the state lock of the process   *)
(* and the lock of the approvals file.  The state lock is never held over  *)
(* an await, so that what it protects is one step unless other processes   *)
(* come in between: only admission reads the sources first and the         *)
(* approvals after.                                                        *)
(***************************************************************************)
EXTENDS Integers, FiniteSets

CONSTANTS
    Users,              \* calls of the server's methods
    MaxCleanupFailures  \* bound: cleanups that fail

NoUser == "nobody"

ASSUME TrustConstants ==
    IsFiniteSet(Users) /\ NoUser \notin Users /\ MaxCleanupFailures \in Nat

VARIABLES
    sources,        \* the configuration and executables: as reviewed or not
    approvedFor,    \* the digest the approvals file allows
    approvalsLock,  \* the call that holds the lock of the approvals file
    disabled,
    inFlight,       \* _in_flight
    cleaning,       \* the cleanup task runs
    attempt,        \* ... the number of the last one
    cleaned,        \* _cleanup_complete
    use             \* each call

trustVars ==
    <<sources, approvedFor, approvalsLock, disabled, inFlight, cleaning, attempt, cleaned, use>>

Digests == {"reviewed", "drifted"}
NoDigest == "none"
IdleUse == [at |-> "idle", kind |-> "call", within |-> NoUser, consumer |-> FALSE,
            seen |-> NoDigest, joined |-> 0, nested |-> FALSE]
UseKinds == {"call", "validate", "disable"}

\* The server was connected because it was approved.
TrustInit ==
    /\ sources = "reviewed" /\ approvedFor = "reviewed" /\ approvalsLock = NoUser
    /\ disabled = FALSE /\ inFlight = 0 /\ cleaning = FALSE /\ attempt = 0 /\ cleaned = FALSE
    /\ use = [u \in Users |-> IdleUse]

-----------------------------------------------------------------------------
UseAt(u, at) == use[u].at = at
\* The state lock: admission holds it while it looks at files.
StateFree == \A u \in Users : ~UseAt(u, "admitting")
FilesUnchanged == UNCHANGED <<sources, approvedFor, approvalsLock>>
StateUnchanged == UNCHANGED <<disabled, inFlight, cleaning, attempt, cleaned>>

\* _revalidate; any error, a lock that times out included, counts as no.
Revalidates(digest) == {FALSE, digest = "reviewed" /\ approvedFor = "reviewed"}

\* Mutant: cleanup does not wait for what is in flight.
StartsCleanupAtOnce(n) == ~cleaned /\ ~cleaning

\* _start_cleanup_locked, with n operations in flight.
StartsCleanup(n) == ~cleaned /\ ~cleaning /\ n = 0

StartCleanup(n) ==
    /\ cleaning' = (cleaning \/ StartsCleanup(n))
    /\ attempt' = IF StartsCleanup(n) THEN attempt + 1 ELSE attempt

\* Mutant: nobody is told.
ToldNobody(calls) == calls

\* _notify_state_locked wakes those that wait for the drain.
Told(calls) ==
    [u \in Users |-> IF calls[u].at = "drain" THEN [calls[u] EXCEPT !.at = "waits"] ELSE calls[u]]

\* _has_active_admission_context: a task started inside an admitted operation.
Descends(u) == use[u].within # NoUser /\ ~use[u].consumer

\* _revoke.  A refused call does not wait for others to finish; a task inside
\* an operation waits for nothing.
Revoke(u) ==
    /\ disabled' = TRUE
    /\ StartCleanup(inFlight)
    /\ use' = Told([use EXCEPT ![u] =
            IF Descends(u) \/ (inFlight > 0 /\ @.kind = "call") THEN IdleUse
            ELSE [@ EXCEPT !.at = "waits"]])
    /\ UNCHANGED <<inFlight, cleaned>>

-----------------------------------------------------------------------------
(* A call: run_authorized or a stream, validate() at the start of a turn,  *)
(* or the disabling and cleanup of the handle.                             *)

\* It may come from a task inside an operation, which waits for its answer, or
\* from the consumer of a stream that is paused.
UseBegins(u, kind, within, consumer) ==
    /\ StateFree /\ UseAt(u, "idle")
    /\ within # NoUser =>
            UseAt(within, "inside") /\ ~use[within].nested /\ (consumer => kind = "call")
    /\ consumer => within # NoUser
    /\ use' = [c \in Users |->
            CASE c = u -> [IdleUse EXCEPT !.at = "begins", !.kind = kind,
                                          !.within = within, !.consumer = consumer]
              [] c = within -> [use[c] EXCEPT !.nested = TRUE]
              [] OTHER -> use[c]]
    /\ FilesUnchanged /\ StateUnchanged

\* validate(), which also precedes each admission.
Validate(u) ==
    /\ StateFree /\ UseAt(u, "begins")
    /\ \/ /\ use[u].kind # "disable" /\ ~disabled /\ TRUE \in Revalidates(sources)
          /\ use' = [use EXCEPT ![u] = IF @.kind = "call" THEN [@ EXCEPT !.at = "validated"]
                                       ELSE IdleUse]
          /\ StateUnchanged
       \/ Revoke(u)
    /\ FilesUnchanged

\* Mutant: what was validated is admitted.
AdmitsPreflight(u) == {FALSE, TRUE}

\* Under both locks.
Admits(u) == Revalidates(use[u].seen)

\* _admit: no other process changes an approval until the operation counts.
AdmitReads(u) ==
    /\ StateFree /\ UseAt(u, "validated") /\ ~disabled
    /\ use' = [use EXCEPT ![u].at = "admitting", ![u].seen = sources]
    /\ approvalsLock' = u
    /\ UNCHANGED <<sources, approvedFor>> /\ StateUnchanged

Admit(u) ==
    /\ UseAt(u, "admitting")
    /\ \/ /\ TRUE \in Admits(u)
          /\ inFlight' = inFlight + 1
          /\ use' = Told([use EXCEPT ![u].at = "inside"])
          /\ UNCHANGED <<disabled, cleaning, attempt, cleaned>>
       \/ FALSE \in Admits(u) /\ Revoke(u)
    /\ approvalsLock' = NoUser /\ UNCHANGED <<sources, approvedFor>>

AdmitDisabled(u) ==
    StateFree /\ UseAt(u, "validated") /\ disabled /\ Revoke(u) /\ FilesUnchanged

\* The lock of the approvals file times out: admission raises.
AdmitTimesOut(u) ==
    /\ StateFree /\ UseAt(u, "validated") /\ ~disabled
    /\ use' = [use EXCEPT ![u] = IdleUse]
    /\ FilesUnchanged /\ StateUnchanged

LastCleansUp == disabled

\* _finish_operation, in a finally and shielded.  It may wait for the cleanup.
OperationEnds(u) ==
    /\ StateFree /\ UseAt(u, "inside")
    /\ \A c \in Users : use[c].within # u
    /\ inFlight' = inFlight - 1
    /\ IF LastCleansUp THEN StartCleanup(inFlight - 1) ELSE UNCHANGED <<cleaning, attempt>>
    /\ use' = Told([use EXCEPT ![u] =
            IF LastCleansUp /\ cleaning' THEN [@ EXCEPT !.at = "joins", !.joined = attempt']
            ELSE IdleUse])
    /\ UNCHANGED <<disabled, cleaned>> /\ FilesUnchanged

\* One round of _wait_for_cleanup.
WaitForCleanup(u) ==
    /\ StateFree /\ UseAt(u, "waits")
    /\ IF cleaned THEN UNCHANGED <<cleaning, attempt>> ELSE StartCleanup(inFlight)
    /\ use' = [use EXCEPT ![u] =
            IF cleaned THEN IdleUse
            ELSE IF cleaning' THEN [@ EXCEPT !.at = "joins", !.joined = attempt']
            ELSE [@ EXCEPT !.at = "drain"]]
    /\ UNCHANGED <<disabled, inFlight, cleaned>> /\ FilesUnchanged

\* The attempt it waits for is over; a failure is raised or logged.
CleanupJoined(u) ==
    /\ UseAt(u, "joins") /\ ~(cleaning /\ attempt = use[u].joined)
    /\ use' = [use EXCEPT ![u] = IdleUse]
    /\ FilesUnchanged /\ StateUnchanged

WaitCancelled(u) ==
    /\ use[u].at \in {"waits", "drain", "joins"}
    /\ use' = [use EXCEPT ![u] = IdleUse]
    /\ FilesUnchanged /\ StateUnchanged

\* _run_cleanup_attempt.
CleanupEnds ==
    /\ StateFree /\ cleaning /\ cleaning' = FALSE
    /\ cleaned' \in {TRUE} \cup (IF attempt <= MaxCleanupFailures THEN {FALSE} ELSE {})
    /\ use' = Told(use)
    /\ UNCHANGED <<disabled, inFlight, attempt>> /\ FilesUnchanged

-----------------------------------------------------------------------------
(* The user, in any process.                                               *)

\* set_project_approval approves what there is now; reset_project_choices, or a
\* rejection, withdraws.
SetApproval(digest) ==
    /\ approvalsLock = NoUser
    /\ approvedFor' \in {sources, NoDigest}
    /\ approvedFor' = digest
    /\ UNCHANGED <<sources, approvalsLock, use>> /\ StateUnchanged

Drift ==
    /\ sources' \in Digests \ {sources}
    /\ UNCHANGED <<approvedFor, approvalsLock, use>> /\ StateUnchanged

-----------------------------------------------------------------------------
UseStep(u) ==
    \/ Validate(u) \/ AdmitReads(u) \/ Admit(u) \/ AdmitDisabled(u) \/ AdmitTimesOut(u)
    \/ OperationEnds(u) \/ WaitForCleanup(u) \/ CleanupJoined(u)

TrustNext ==
    \/ \E u \in Users :
        \/ \E kind \in UseKinds, within \in Users \cup {NoUser}, consumer \in BOOLEAN :
                UseBegins(u, kind, within, consumer)
        \/ UseStep(u) \/ WaitCancelled(u)
    \/ CleanupEnds
    \/ \E digest \in Digests \cup {NoDigest} : SetApproval(digest)
    \/ Drift

\* Tasks run, operations and cleanups come to an end.  (A call that finds the
\* process in an admission retries: it is the next step of that task alone.)
TrustFairness == (\A u \in Users : SF_trustVars(UseStep(u))) /\ WF_trustVars(CleanupEnds)

TrustSpec == TrustInit /\ [][TrustNext]_trustVars
TrustFair == TrustSpec /\ TrustFairness

-----------------------------------------------------------------------------
TrustTypeOK ==
    /\ sources \in Digests /\ approvedFor \in Digests \cup {NoDigest}
    /\ approvalsLock \in Users \cup {NoUser}
    /\ disabled \in BOOLEAN /\ cleaning \in BOOLEAN /\ cleaned \in BOOLEAN
    /\ inFlight \in 0 .. Cardinality(Users) /\ attempt \in 0 .. MaxCleanupFailures + 1
    /\ use \in [Users ->
            [at : {"idle", "begins", "validated", "admitting", "inside", "waits", "drain", "joins"},
             kind : UseKinds, within : Users \cup {NoUser}, consumer : BOOLEAN,
             seen : Digests \cup {NoDigest}, joined : 0 .. MaxCleanupFailures + 1,
             nested : BOOLEAN]]

\* The connection is closed only after the last admitted operation, however
\* calls, resets and cleanups interleave; and it is closed: a revoked server
\* nobody uses is being cleaned up, was, or the attempt failed.
ClosedAfterDrain ==
    /\ inFlight = Cardinality({u \in Users : UseAt(u, "inside")})
    /\ cleaning \/ cleaned => disabled /\ inFlight = 0 /\ ~(cleaning /\ cleaned)
    /\ disabled /\ inFlight = 0 => cleaning \/ cleaned \/ attempt > 0

\* Once a reset is done no call is admitted, in any process, until somebody
\* approves again; and a process that has seen it never admits another one.
NothingAfterReset ==
    [][\A u \in Users :
            ~UseAt(u, "inside") /\ UseAt(u, "inside")' => approvedFor = "reviewed" /\ ~disabled]_trustVars

\* Revocation, in two parts.
TrustIsSound == []ClosedAfterDrain /\ NothingAfterReset

\* Whoever waits for the drain or a cleanup gets an answer: also one inside an
\* operation, or between two items of its own stream.
TrustWaitsEnd == \A u \in Users : use[u].at # "idle" ~> use[u].at = "idle"
=============================================================================
