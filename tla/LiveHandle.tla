----------------------------- MODULE LiveHandle -----------------------------
(* What a LiveMCPServer promises to the holders of the handle, whatever    *)
(* reconnection, failing cleanups and shutdown do behind it: at most one   *)
(* connection is current, a call keeps the connection it started on until  *)
(* it returns, and a connection that was given up is never current again.  *)
CONSTANTS
    Servers,    \* concrete connections, each used for one attempt to connect
    Calls,      \* concurrent calls through the handle
    Nothing     \* no connection

VARIABLES
    cur,        \* the connection new calls get, Nothing once the handle is closed
    lease,      \* lease[c]: the connection call c runs on
    retired,    \* given up: will never be current again
    disposed    \* given up, and no call runs on it: may be torn down

vars == <<cur, lease, retired, disposed>>

Unused(s) == \A c \in Calls : lease[c] # s

Init ==
    /\ cur \in Servers
    /\ lease = [c \in Calls |-> Nothing]
    /\ retired = {}
    /\ disposed = {}

Call(c) ==
    /\ lease[c] = Nothing
    /\ cur # Nothing
    /\ lease' = [lease EXCEPT ![c] = cur]
    /\ UNCHANGED <<cur, retired, disposed>>

Return(c) ==
    /\ lease[c] # Nothing
    /\ lease' = [lease EXCEPT ![c] = Nothing]
    /\ UNCHANGED <<cur, retired, disposed>>

Publish(s) ==
    /\ cur # Nothing
    /\ s \notin retired \cup {cur}
    /\ cur' = s
    /\ retired' = retired \cup {cur}
    /\ UNCHANGED <<lease, disposed>>

Close ==
    /\ cur # Nothing
    /\ cur' = Nothing
    /\ retired' = retired \cup {cur}
    /\ UNCHANGED <<lease, disposed>>

\* A connection that never became current is given up.
Discard(s) ==
    /\ s \notin retired \cup {cur}
    /\ Unused(s)
    /\ retired' = retired \cup {s}
    /\ disposed' = disposed \cup {s}
    /\ UNCHANGED <<cur, lease>>

Dispose(s) ==
    /\ s \in retired \ disposed
    /\ Unused(s)
    /\ disposed' = disposed \cup {s}
    /\ UNCHANGED <<cur, lease, retired>>

Next ==
    \/ \E c \in Calls : Call(c) \/ Return(c)
    \/ \E s \in Servers : Publish(s) \/ Discard(s) \/ Dispose(s)
    \/ Close

Spec == Init /\ [][Next]_vars
=============================================================================
