---------------------------- MODULE ServerLeases ----------------------------
(* A live MCP server handle of mcp/reconnection.py: calls lease the current *)
(* connection, a reconnection manager replaces it, a retirement owner tears *)
(* replaced connections down once they are idle, and the session's shutdown *)
(* closes the handle.                                                      *)
(*                                                                         *)
(* The state and transition locks guard bodies that never suspend, so each *)
(* body is one step.  What suspends, and lets everything else move, is: a  *)
(* call, the wait for a connection to be idle, its cleanup, building and   *)
(* connecting a candidate, joining retirements and the backoff.            *)
EXTENDS Integers, FiniteSets

CONSTANTS
    MaxServers,     \* bound: concrete connections ever built
    Calls,          \* concurrent calls through the handle
    Nothing,        \* no connection
    MaxAttempts,    \* ReconnectionConfig.max_attempts
    MaxRounds       \* _MAX_RETIREMENT_DRAIN_ATTEMPTS

Servers == 1 .. MaxServers

ASSUME LeaseConstants ==
    /\ MaxServers \in Nat \ {0}
    /\ MaxAttempts \in Nat \ {0}
    /\ MaxRounds \in Nat \ {0}
    /\ Nothing \notin Servers

VARIABLES
    made,       \* connections built so far, 1 .. made
    current,    \* LiveMCPServer._current
    dropped,    \* connections whose session is gone
    lease,      \* lease[c]: the connection call c holds
    rec,        \* record of the retirement owner: "none", "held", "retiring"
    waits,      \* the record still has its wait_until_idle
    att,        \* the cleanup attempt of a connection
    closed,     \* connections marked closed
    mgr,        \* where reconnect_if_needed is, under _reconnect_lock
    closer      \* where the shutdown of the owning server set is

handle == <<made, current, dropped, lease>>
owner == <<rec, waits, att, closed>>
leaseVars == <<handle, owner, mgr, closer>>

IdleManager == [pc |-> "idle", tries |-> 0, cand |-> Nothing, wait |-> {}]
OpenCloser == [pc |-> "open", rounds |-> 0, wait |-> {}]

LeaseInit ==
    /\ made = 1
    /\ current = 1
    /\ dropped = {}
    /\ lease = [c \in Calls |-> Nothing]
    /\ rec = [s \in Servers |-> "none"]
    /\ waits = [s \in Servers |-> FALSE]
    /\ att = [s \in Servers |-> "none"]
    /\ closed = {}
    /\ mgr = IdleManager
    /\ closer = OpenCloser

-----------------------------------------------------------------------------
(* Calls and the connection.                                               *)

\* _active_calls: how many calls hold s.
Leased(s) == \E c \in Calls : lease[c] = s

\* _invoke and its variants up to the call: _acquire_current.
CallBegins(c) ==
    /\ lease[c] = Nothing
    /\ current # Nothing
    /\ lease' = [lease EXCEPT ![c] = current]
    /\ UNCHANGED <<made, current, dropped, owner, mgr, closer>>

\* Mutant: the idle event is dropped unset.
CallEndsSilently(c) ==
    /\ lease[c] # Nothing
    /\ lease' = [lease EXCEPT ![c] = Nothing]
    /\ UNCHANGED <<made, current, dropped, owner, mgr, closer>>

\* _release: the last call to return sets the idle event of its connection.
CallEnds(c) ==
    LET s == lease[c]
        last == \A d \in Calls \ {c} : lease[d] # s
    IN
    /\ s # Nothing
    /\ lease' = [lease EXCEPT ![c] = Nothing]
    /\ att' = IF last /\ att[s] = "waiting" THEN [att EXCEPT ![s] = "woken"] ELSE att
    /\ UNCHANGED <<made, current, dropped, rec, waits, closed, mgr, closer>>

\* The peer went away: the session of the connection becomes None.
SessionDrops ==
    /\ current \notin dropped \cup {Nothing}
    /\ dropped' = dropped \cup {current}
    /\ UNCHANGED <<made, current, lease, owner, mgr, closer>>

\* _server_is_healthy
Healthy == current \notin dropped \cup {Nothing}

-----------------------------------------------------------------------------
(* The retirement owner.                                                   *)

\* pending_count: records whose retirement was requested.
Pending == {s \in Servers : rec[s] = "retiring"}

\* retire(): the record is kept, one cleanup attempt at a time is started.
Retired(r, s) == [r EXCEPT ![s] = "retiring"]
Started(a, S) == [s \in Servers |-> IF s \in S /\ a[s] = "none" THEN "created" ELSE a[s]]

\* Mutant: the connection is torn down under the calls that use it.
AttemptStartsAtOnce(s) ==
    /\ att[s] = "created"
    /\ att' = [att EXCEPT ![s] = "cleaning"]
    /\ waits' = [waits EXCEPT ![s] = FALSE]
    /\ UNCHANGED <<handle, rec, closed, mgr, closer>>

\* _retirement_attempt up to its first suspension.
AttemptStarts(s) ==
    /\ att[s] = "created"
    /\ IF waits[s] /\ Leased(s)
       THEN /\ att' = [att EXCEPT ![s] = "waiting"]
            /\ UNCHANGED waits
       ELSE /\ att' = [att EXCEPT ![s] = "cleaning"]
            /\ waits' = [waits EXCEPT ![s] = FALSE]
    /\ UNCHANGED <<handle, rec, closed, mgr, closer>>

AttemptWakes(s) ==
    /\ att[s] = "woken"
    /\ att' = [att EXCEPT ![s] = "cleaning"]
    /\ waits' = [waits EXCEPT ![s] = FALSE]
    /\ UNCHANGED <<handle, rec, closed, mgr, closer>>

\* The attempt of s is over: whoever joined it has its result.
Joined(s) ==
    /\ mgr' = [mgr EXCEPT !.wait = @ \ {s}]
    /\ closer' = [closer EXCEPT !.wait = @ \ {s}]

CleanupSucceeds(s) ==
    /\ att[s] = "cleaning"
    /\ att' = [att EXCEPT ![s] = "none"]
    /\ rec' = [rec EXCEPT ![s] = "none"]
    /\ closed' = closed \cup {s}
    /\ Joined(s)
    /\ UNCHANGED <<handle, waits>>

\* A failed cleanup keeps its record and can be tried again.
CleanupFails(s) ==
    /\ att[s] = "cleaning"
    /\ att' = [att EXCEPT ![s] = "none"]
    /\ Joined(s)
    /\ UNCHANGED <<handle, rec, waits, closed>>

-----------------------------------------------------------------------------
(* reconnect_if_needed: _reconnect_lock is held while mgr.pc # "idle".     *)

Retry == IF mgr.tries < MaxAttempts
         THEN [IdleManager EXCEPT !.pc = "backoff", !.tries = mgr.tries]
         ELSE IdleManager

\* The next attempt: what still has to be cleaned up is tried first.
Attempt(n) ==
    /\ mgr' = [IdleManager EXCEPT !.pc = IF Pending = {} THEN "building" ELSE "clearing",
                                  !.tries = n, !.wait = Pending]
    /\ att' = Started(att, Pending)
    /\ UNCHANGED <<handle, rec, waits, closed, closer>>

\* The managers are dropped with the closed set.
\* Bound: there are connections left for every attempt.
ReconnectBegins ==
    /\ mgr.pc = "idle"
    /\ closer.pc # "done"
    /\ made + MaxAttempts <= MaxServers
    /\ \/ /\ Pending # {}
          /\ mgr' = [mgr EXCEPT !.pc = "draining", !.wait = Pending]
          /\ att' = Started(att, Pending)
          /\ UNCHANGED <<handle, rec, waits, closed, closer>>
       \/ Pending = {} /\ ~Healthy /\ Attempt(1)

\* drain(max_attempts=1) before the probe: its failure is only logged.
Probe ==
    /\ mgr.pc = "draining"
    /\ mgr.wait = {}
    /\ IF Healthy
       THEN mgr' = IdleManager /\ UNCHANGED <<handle, owner, closer>>
       ELSE Attempt(1)

\* drain(max_attempts=1) inside an attempt: it raises unless nothing is left.
Cleared ==
    /\ mgr.pc = "clearing"
    /\ mgr.wait = {}
    /\ IF Pending = {}
       THEN mgr' = [mgr EXCEPT !.pc = "building"]
       ELSE mgr' \in {Retry, IdleManager}
    /\ UNCHANGED <<handle, owner, closer>>

\* connect_fn: the candidate is held before it connects.
BuildSucceeds ==
    LET s == made + 1 IN
    /\ mgr.pc = "building"
    /\ s <= MaxServers
    /\ made' = s
    /\ rec' = [rec EXCEPT ![s] = "held"]
    /\ mgr' = [mgr EXCEPT !.pc = "connecting", !.cand = s]
    /\ UNCHANGED <<current, dropped, lease, waits, att, closed, closer>>

\* A PermissionError ends the reconnection, anything else only the attempt.
BuildFails ==
    /\ mgr.pc = "building"
    /\ mgr' \in {Retry, IdleManager}
    /\ UNCHANGED <<handle, owner, closer>>

\* replace(): the candidate becomes current and its predecessor is retired.
Replace ==
    /\ mgr.pc = "connecting"
    /\ current # Nothing
    /\ current' = mgr.cand
    /\ rec' = Retired([rec EXCEPT ![mgr.cand] = "none"], current)
    /\ waits' = [waits EXCEPT ![current] = TRUE]
    /\ att' = Started(att, {current})
    /\ mgr' = [mgr EXCEPT !.pc = "publishing", !.wait = {current}]
    /\ UNCHANGED <<made, dropped, lease, closed, closer>>

\* Mutant: the closed handle takes the candidate.
ReplaceClosedAnyway ==
    /\ mgr.pc = "connecting"
    /\ current = Nothing
    /\ current' = mgr.cand
    /\ rec' = [rec EXCEPT ![mgr.cand] = "none"]
    /\ mgr' = IdleManager
    /\ UNCHANGED <<made, dropped, lease, waits, att, closed, closer>>

\* replace() on a closed handle retires the candidate and raises.
ReplaceClosed ==
    /\ mgr.pc = "connecting"
    /\ current = Nothing
    /\ rec' = Retired(rec, mgr.cand)
    /\ att' = Started(att, {mgr.cand})
    /\ mgr' = Retry
    /\ UNCHANGED <<handle, waits, closed, closer>>

\* connect() failed, or the caller was cancelled in it: _retire_candidate
\* joins one attempt to clean up before the exception goes on.
Discard(pc) ==
    /\ mgr.pc = "connecting"
    /\ rec' = Retired(rec, mgr.cand)
    /\ att' = Started(att, {mgr.cand})
    /\ mgr' = [mgr EXCEPT !.pc = pc, !.wait = {mgr.cand}, !.cand = Nothing]
    /\ UNCHANGED <<handle, waits, closed, closer>>

ConnectFails == Discard("discarding")

Discarded ==
    /\ mgr.pc \in {"discarding", "abandoning"}
    /\ mgr.wait = {}
    /\ mgr' \in IF mgr.pc = "discarding" THEN {Retry, IdleManager} ELSE {IdleManager}
    /\ UNCHANGED <<handle, owner, closer>>

\* replace() joins the retirement of the predecessor and only logs a failure.
Published ==
    /\ mgr.pc = "publishing"
    /\ mgr.wait = {}
    /\ mgr' = IdleManager
    /\ UNCHANGED <<handle, owner, closer>>

BackoffEnds == mgr.pc = "backoff" /\ Attempt(mgr.tries + 1)

\* The turn that reconnects is cancelled.  Attempts to clean up are shielded.
\* Bound: a second cancellation does not interrupt _retire_candidate.
TurnCancelled ==
    \/ Discard("abandoning")
    \/ /\ mgr.pc \in {"draining", "clearing", "building", "backoff", "publishing"}
       /\ mgr' = IdleManager
       /\ UNCHANGED <<handle, owner, closer>>

-----------------------------------------------------------------------------
(* The shutdown: MCPServerSet.aclose and LiveMCPServer.cleanup.            *)

\* Mutant: one round too many.
RoundTooMany(P, n) ==
    IF P = {} THEN [OpenCloser EXCEPT !.pc = "done"]
    ELSE IF n > MaxRounds + 1 THEN OpenCloser
    ELSE [pc |-> "draining", rounds |-> n, wait |-> P]

\* One round of drain() over P, or the end of the cleanup.
Round(P, n) ==
    IF P = {} THEN [OpenCloser EXCEPT !.pc = "done"]
    ELSE IF n > MaxRounds THEN OpenCloser
    ELSE [pc |-> "draining", rounds |-> n, wait |-> P]

\* cleanup(): the handle is closed and its connection retired, then drain().
CloseBegins ==
    LET P == Pending \cup ({current} \ {Nothing}) IN
    /\ closer.pc = "open"
    /\ current' = Nothing
    /\ rec' = [s \in Servers |-> IF s = current THEN "retiring" ELSE rec[s]]
    /\ waits' = [s \in Servers |-> IF s = current THEN TRUE ELSE waits[s]]
    /\ att' = Started(att, P)
    /\ closer' = Round(P, 1)
    /\ UNCHANGED <<made, dropped, lease, closed, mgr>>

\* drain() joined every attempt of its round.
CloseRound ==
    /\ closer.pc = "draining"
    /\ closer.wait = {}
    /\ closer' = Round(Pending, closer.rounds + 1)
    /\ att' = IF closer'.pc = "draining" THEN Started(att, Pending) ELSE att
    /\ UNCHANGED <<handle, rec, waits, closed, mgr>>

\* The owner waits three seconds; what is not cleaned is kept for a retry.
CloseTimesOut ==
    /\ closer.pc = "draining"
    /\ closer' = OpenCloser
    /\ UNCHANGED <<handle, owner, mgr>>

-----------------------------------------------------------------------------
Attempts(s) ==
    AttemptStarts(s) \/ AttemptWakes(s) \/ CleanupSucceeds(s) \/ CleanupFails(s)

Reconnect ==
    \/ Probe \/ Cleared \/ BuildSucceeds \/ BuildFails \/ Replace \/ ReplaceClosed
    \/ ConnectFails \/ Discarded \/ Published \/ BackoffEnds

LeaseNext ==
    \/ \E c \in Calls : CallBegins(c) \/ CallEnds(c)
    \/ SessionDrops
    \/ \E s \in Servers : Attempts(s)
    \/ ReconnectBegins \/ Reconnect \/ TurnCancelled
    \/ CloseBegins \/ CloseRound \/ CloseTimesOut

LeaseSpec == LeaseInit /\ [][LeaseNext]_leaseVars

\* Calls return, cleanups and connects end, the event loop runs what is
\* ready.  Calls, drops, reconnections and shutdown need not happen.
LeaseFairness ==
    /\ \A c \in Calls : WF_leaseVars(CallEnds(c))
    /\ \A s \in Servers : WF_leaseVars(Attempts(s))
    /\ WF_leaseVars(Reconnect)
    /\ WF_leaseVars(CloseRound)

LeaseFairSpec == LeaseSpec /\ LeaseFairness

-----------------------------------------------------------------------------
LeaseTypeOK ==
    /\ made \in Servers
    /\ current \in 1 .. made \cup {Nothing}
    /\ dropped \subseteq 1 .. made
    /\ lease \in [Calls -> 1 .. made \cup {Nothing}]
    /\ rec \in [Servers -> {"none", "held", "retiring"}]
    /\ waits \in [Servers -> BOOLEAN]
    /\ att \in [Servers -> {"none", "created", "waiting", "woken", "cleaning"}]
    /\ closed \subseteq 1 .. made
    /\ mgr \in [pc : {"idle", "draining", "clearing", "building", "connecting", "publishing",
                      "discarding", "abandoning", "backoff"},
                tries : 0 .. MaxAttempts, cand : 1 .. made \cup {Nothing},
                wait : SUBSET (1 .. made)]
    /\ closer \in [pc : {"open", "draining", "done"}, rounds : 0 .. MaxRounds,
                   wait : SUBSET (1 .. made)]

\* A call runs on a connection that nobody is tearing down, however the
\* replacement, the retried cleanups and the shutdown interleave: it is the
\* current one, or its retirement still waits for the calls it has
\* (reconnection.py, LiveMCPServer: "deferring cleanup of the retired server
\* until its in-flight calls finish").
LeasedIsOpen ==
    \A c \in Calls : lease[c] # Nothing =>
        \/ lease[c] = current
        \/ rec[lease[c]] = "retiring" /\ waits[lease[c]]

\* Every connection that was opened and not closed has exactly one owner, so
\* no failure, cancellation or race leaves one behind: it is current, or the
\* candidate of the reconnection in progress, or recorded for retirement
\* (reconnection.py, RetirementOwner: "Durably own concrete servers until
\* their cleanup succeeds").
OwnerOf(s) ==
    {o \in {"handle", "manager", "retirement"} :
        \/ o = "handle" /\ s = current
        \/ o = "manager" /\ s = mgr.cand /\ rec[s] = "held"
        \/ o = "retirement" /\ rec[s] = "retiring"}

NothingForgotten ==
    /\ \A s \in Servers :
          Cardinality(OwnerOf(s)) = IF s \in 1 .. made \ closed THEN 1 ELSE 0
    /\ \A s \in Servers : att[s] # "none" => rec[s] = "retiring"

\* The books of the handle, the manager and the retirement owner agree.
HandlesAccounted == LeasedIsOpen /\ NothingForgotten

\* Whoever reconnects, closes, or waits to tear a connection down gets to the
\* end of it once the calls in flight have returned: no wait for an idle
\* connection misses its event, and nobody waits for an attempt that is over.
WaitsEnd ==
    /\ (mgr.pc # "idle") ~> (mgr.pc = "idle")
    /\ (closer.pc = "draining") ~> (closer.pc # "draining")
    /\ \A s \in Servers : (att[s] # "none") ~> (att[s] = "none")

\* The handle keeps its promises.  A connection is given up when its
\* retirement is requested, and may be torn down when the record has no wait.
GivenUp == Pending \cup closed
Handle == INSTANCE LiveHandle WITH
    cur <- current,
    retired <- GivenUp,
    disposed <- {s \in GivenUp : ~waits[s]}

ImplementsHandle == Handle!Spec
=============================================================================
