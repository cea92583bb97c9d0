---------------------------- MODULE ServerProofs ----------------------------
(***************************************************************************)
(* Machine-checked facts about the two modules on MCP servers, for any     *)
(* number of connections, calls, attempts and rounds: ServerLeases keeps   *)
(* its books and implements LiveHandle.                                    *)
(***************************************************************************)
EXTENDS ServerLeases, ServerTrust, FiniteSetTheorems, TLAPS

\* What the retirement owner knows of a connection.  The first conjunct of
\* LeaseOwned is NothingForgotten without its counting; the others are why it stays.
LeaseOwned ==
    /\ \A s \in Servers :
          s \in 1 .. made \ closed <=>
              s = current \/ rec[s] = "held" \/ rec[s] = "retiring"
    /\ current \in Servers => rec[current] = "none"
    /\ \A s \in Servers : rec[s] = "held" => mgr.pc = "connecting" /\ s = mgr.cand
    /\ mgr.pc = "connecting" => mgr.cand \in Servers /\ rec[mgr.cand] = "held"
    /\ \A s \in Servers : att[s] # "none" => rec[s] = "retiring"

\* A record that has lost its wait, or is about to, has no call left.
WaitsMatchCalls ==
    /\ \A s \in Servers : waits[s] => rec[s] = "retiring"
    /\ \A s \in Servers : att[s] = "cleaning" => ~waits[s]
    /\ \A s \in Servers : att[s] = "woken" => ~Leased(s)

\* A backoff comes after an attempt that was not the last.
TriesLeft == mgr.pc = "backoff" => mgr.tries < MaxAttempts

LeaseInv == LeaseTypeOK /\ TriesLeft /\ LeaseOwned /\ WaitsMatchCalls /\ LeasedIsOpen

LEMMA StartedAttempts ==
    ASSUME LeaseTypeOK, NEW S \in SUBSET Servers
    PROVE  /\ Started(att, S) \in [Servers -> {"none", "created", "waiting", "woken", "cleaning"}]
           /\ \A s \in Servers : Started(att, S)[s] =
                  IF s \in S /\ att[s] = "none" THEN "created" ELSE att[s]
  BY DEF LeaseTypeOK, Started

LEMMA ConnectionNumbers ==
    ASSUME LeaseTypeOK
    PROVE  /\ 1 .. made \subseteq Servers
           /\ made \in Nat /\ Nothing \notin 1 .. made
           /\ current \in Servers \cup {Nothing} /\ \A c \in Calls : lease[c] \in Servers \cup {Nothing}
           /\ mgr.cand \in 1 .. made \cup {Nothing}
  BY LeaseConstants DEF LeaseConstants, LeaseTypeOK, Servers

LEMMA PendingExists ==
    ASSUME LeaseTypeOK, LeaseOwned
    PROVE  Pending \subseteq 1 .. made /\ Pending \subseteq Servers
  BY DEF LeaseOwned, Pending

LEMMA RetryType ==
    ASSUME LeaseTypeOK, NEW m \in {Retry, IdleManager}
    PROVE  \/ m = IdleManager
           \/ /\ mgr.tries < MaxAttempts
              /\ m = [pc |-> "backoff", tries |-> mgr.tries, cand |-> Nothing, wait |-> {}]
  BY DEF Retry, IdleManager

LEMMA LeaseStart == LeaseInit => LeaseInv
<1> SUFFICES ASSUME LeaseInit PROVE LeaseInv
    OBVIOUS
<1> USE LeaseConstants DEF LeaseConstants, LeaseInit, IdleManager, OpenCloser, Servers
<1>1. LeaseTypeOK /\ TriesLeft
    BY DEF LeaseTypeOK, TriesLeft
<1>2. LeaseOwned
    BY DEF LeaseOwned
<1>3. WaitsMatchCalls /\ LeasedIsOpen
    BY DEF WaitsMatchCalls, LeasedIsOpen
<1> QED
    BY <1>1, <1>2, <1>3 DEF LeaseInv
-----------------------------------------------------------------------------
(* Calls.                                                                  *)

LEMMA CallSteps ==
    ASSUME LeaseInv, NEW c \in Calls, CallBegins(c) \/ CallEnds(c)
    PROVE  LeaseInv'
<1> USE DEF LeaseInv
<1>1. CASE CallBegins(c)
  <2> USE <1>1, ConnectionNumbers DEF CallBegins, owner
  <2>1. LeaseTypeOK' /\ TriesLeft'
      BY DEF LeaseTypeOK, TriesLeft
  <2>2. LeaseOwned'
      BY DEF LeaseOwned
  <2>3. LeasedIsOpen'
      BY DEF LeasedIsOpen, LeaseTypeOK
  <2>4. WaitsMatchCalls'
      BY DEF WaitsMatchCalls, Leased, LeaseOwned, LeaseTypeOK
  <2> QED
      BY <2>1, <2>2, <2>3, <2>4
<1>2. CASE CallEnds(c)
  <2> USE <1>2, ConnectionNumbers DEF CallEnds
  <2>1. LeaseTypeOK' /\ TriesLeft'
      BY DEF LeaseTypeOK, TriesLeft
  <2>2. LeaseOwned'
      BY DEF LeaseOwned, LeaseTypeOK
  <2>3. LeasedIsOpen'
      BY DEF LeasedIsOpen, LeaseTypeOK
  <2>4. ASSUME NEW s \in Servers, att'[s] = "woken"
        PROVE  ~Leased(s)'
    <3>1. CASE att[s] = "woken"
      <4>1. \A d \in Calls : lease[d] # s
          BY <3>1 DEF WaitsMatchCalls, Leased
      <4>2. \A d \in Calls : lease'[d] \in {lease[d], Nothing} /\ Nothing # s
          BY LeaseConstants DEF LeaseConstants, LeaseTypeOK
      <4> QED
          BY <4>1, <4>2 DEF Leased
    <3>2. CASE att[s] # "woken"
        BY <2>4, <3>2 DEF Leased, LeaseTypeOK
    <3> QED
        BY <3>1, <3>2
  <2>5. \A s \in Servers : att'[s] = "cleaning" => att[s] = "cleaning"
      BY DEF LeaseTypeOK
  <2>6. WaitsMatchCalls'
      BY <2>4, <2>5 DEF WaitsMatchCalls
  <2> QED
      BY <2>1, <2>2, <2>3, <2>6
<1> QED
    BY <1>1, <1>2

LEMMA DropStep ==
    ASSUME LeaseInv, SessionDrops
    PROVE  LeaseInv'
<1> USE DEF LeaseInv
<1>1. LeaseTypeOK' /\ TriesLeft'
    BY DEF SessionDrops, LeaseTypeOK, TriesLeft, owner
<1>2. LeaseOwned' /\ LeasedIsOpen' /\ WaitsMatchCalls'
    BY DEF SessionDrops, LeaseOwned, LeasedIsOpen, WaitsMatchCalls, Leased, owner
<1> QED
    BY <1>1, <1>2
-----------------------------------------------------------------------------
(* The retirement owner.                                                   *)

\* Who joined the attempt of a connection only waits for fewer of them.
LEMMA JoinedType ==
    ASSUME LeaseTypeOK, TriesLeft, NEW s \in Servers, Joined(s), made' = made
    PROVE  /\ mgr' \in [pc : {"idle", "draining", "clearing", "building", "connecting", "publishing",
                             "discarding", "abandoning", "backoff"},
                       tries : 0 .. MaxAttempts, cand : 1 .. made \cup {Nothing},
                       wait : SUBSET (1 .. made)]
           /\ closer' \in [pc : {"open", "draining", "done"}, rounds : 0 .. MaxRounds,
                          wait : SUBSET (1 .. made)]
           /\ mgr'.pc = mgr.pc /\ mgr'.cand = mgr.cand /\ mgr'.tries = mgr.tries
  BY DEF LeaseTypeOK, Joined

LEMMA AttemptSteps ==
    ASSUME LeaseInv, NEW s \in Servers, Attempts(s)
    PROVE  LeaseInv'
<1> USE DEF LeaseInv
<1>1. CASE AttemptStarts(s) \/ AttemptWakes(s)
  <2> USE <1>1 DEF AttemptStarts, AttemptWakes, handle
  <2>1. LeaseTypeOK' /\ TriesLeft'
      BY DEF LeaseTypeOK, TriesLeft
  <2>2. UNCHANGED <<handle, rec, closed, mgr>> /\ att[s] # "none"
      OBVIOUS
  <2>3. \/ att' = [att EXCEPT ![s] = "waiting"] /\ waits' = waits
        \/ att' = [att EXCEPT ![s] = "cleaning"] /\ waits' = [waits EXCEPT ![s] = FALSE]
      OBVIOUS
  <2>4. \A r \in Servers \ {s} : att'[r] = att[r] /\ waits'[r] = waits[r]
      BY <2>3 DEF LeaseTypeOK
  <2>5. \/ att'[s] = "waiting" /\ waits'[s] = waits[s]
        \/ att'[s] = "cleaning" /\ ~waits'[s]
      BY <2>3 DEF LeaseTypeOK
  <2>6. LeaseOwned'
      BY <2>2, <2>4 DEF LeaseOwned, LeaseTypeOK
  <2>7. waits[s] = waits'[s] \/ ~Leased(s)
    <3>1. CASE AttemptStarts(s) /\ waits[s] /\ Leased(s)
        BY <3>1
    <3>2. CASE AttemptStarts(s) /\ ~waits[s]
        BY <3>2, <2>5 DEF LeaseTypeOK
    <3>3. CASE AttemptWakes(s)
        BY <3>3 DEF WaitsMatchCalls
    <3> QED
        BY <1>1, <3>1, <3>2, <3>3
  <2>8. LeasedIsOpen'
      BY <2>2, <2>7, <2>4, ConnectionNumbers DEF LeasedIsOpen, Leased
  <2>9. WaitsMatchCalls'
      BY <2>2, <2>4, <2>5 DEF WaitsMatchCalls, LeaseOwned, Leased
  <2> QED
      BY <2>1, <2>6, <2>8, <2>9
<1>2. CASE CleanupSucceeds(s)
  <2>1. rec[s] = "retiring" /\ ~waits[s] /\ s # current /\ s \in 1 .. made
      BY <1>2 DEF CleanupSucceeds, LeaseOwned, WaitsMatchCalls
  <2> USE <1>2, JoinedType, <2>1 DEF CleanupSucceeds, handle
  <2>2. LeaseTypeOK' /\ TriesLeft'
      BY DEF LeaseTypeOK, TriesLeft
  <2>3. LeaseOwned'
      BY DEF LeaseOwned, LeaseTypeOK
  <2>4. LeasedIsOpen'
      BY ConnectionNumbers DEF LeasedIsOpen, LeaseTypeOK
  <2>5. WaitsMatchCalls'
      BY DEF WaitsMatchCalls, Leased, LeaseTypeOK
  <2> QED
      BY <2>2, <2>3, <2>4, <2>5
<1>3. CASE CleanupFails(s)
  <2> USE <1>3, JoinedType DEF CleanupFails, handle
  <2>1. LeaseTypeOK' /\ TriesLeft'
      BY DEF LeaseTypeOK, TriesLeft
  <2>2. LeaseOwned'
      BY DEF LeaseOwned, LeaseTypeOK
  <2>3. LeasedIsOpen' /\ WaitsMatchCalls'
      BY DEF LeasedIsOpen, WaitsMatchCalls, Leased, LeaseTypeOK
  <2> QED
      BY <2>1, <2>2, <2>3
<1> QED
    BY <1>1, <1>2, <1>3 DEF Attempts
-----------------------------------------------------------------------------
(* The manager and the closer, while no candidate changes hands.           *)

ManagerType(made_) ==
    [pc : {"idle", "draining", "clearing", "building", "connecting", "publishing",
           "discarding", "abandoning", "backoff"},
     tries : 0 .. MaxAttempts, cand : 1 .. made_ \cup {Nothing}, wait : SUBSET (1 .. made_)]
CloserType(made_) ==
    [pc : {"open", "draining", "done"}, rounds : 0 .. MaxRounds, wait : SUBSET (1 .. made_)]

\* Steps that start attempts for what is pending, if anything.
LEMMA QuietSteps ==
    ASSUME LeaseInv, UNCHANGED <<handle, rec, waits, closed>>,
           att' \in {att, Started(att, Pending)},
           mgr' \in ManagerType(made), closer' \in CloserType(made),
           mgr' = mgr \/ (mgr.pc # "connecting" /\ mgr'.pc # "connecting"),
           mgr'.pc = "backoff" => mgr'.tries < MaxAttempts
    PROVE  LeaseInv'
<1> USE PendingExists, StartedAttempts DEF LeaseInv, handle
<1>1. \A s \in Servers : \/ att'[s] = att[s]
                         \/ att[s] = "none" /\ att'[s] = "created" /\ rec[s] = "retiring"
    BY DEF Pending
<1>2. LeaseTypeOK' /\ TriesLeft'
    BY DEF LeaseTypeOK, TriesLeft, ManagerType, CloserType
<1>3. LeaseOwned'
    BY <1>1 DEF LeaseOwned
<1>4. LeasedIsOpen' /\ WaitsMatchCalls'
    BY <1>1 DEF LeasedIsOpen, WaitsMatchCalls, Leased
<1> QED
    BY <1>2, <1>3, <1>4

LEMMA AttemptIsQuiet ==
    ASSUME LeaseInv, NEW n \in 1 .. MaxAttempts, Attempt(n)
    PROVE  /\ UNCHANGED <<handle, rec, waits, closed, closer>>
           /\ att' = Started(att, Pending)
           /\ mgr' \in ManagerType(made) /\ mgr'.pc \in {"building", "clearing"}
<1>1. mgr' = [pc |-> IF Pending = {} THEN "building" ELSE "clearing", tries |-> n,
              cand |-> Nothing, wait |-> Pending]
    BY DEF Attempt, IdleManager
<1>2. n \in 0 .. MaxAttempts /\ Pending \in SUBSET (1 .. made)
    BY PendingExists, LeaseConstants DEF LeaseInv, LeaseConstants
<1>3. mgr' \in ManagerType(made) /\ mgr'.pc \in {"building", "clearing"}
    BY <1>1, <1>2 DEF ManagerType
<1> QED
    BY <1>3 DEF Attempt

LEMMA ManagerSteps ==
    ASSUME LeaseInv,
           \/ ReconnectBegins \/ Probe \/ Cleared \/ BuildFails \/ Discarded
           \/ Published \/ BackoffEnds
           \/ TurnCancelled /\ mgr.pc # "connecting"
    PROVE  LeaseInv'
<1> USE DEF LeaseInv, owner
<1>1. /\ mgr \in ManagerType(made) /\ closer \in CloserType(made) /\ IdleManager \in ManagerType(made)
      /\ MaxAttempts \in Nat \ {0} /\ mgr.tries \in 0 .. MaxAttempts
    BY LeaseConstants DEF LeaseConstants, LeaseTypeOK, ManagerType, CloserType, IdleManager
<1>2. ASSUME NEW n \in 1 .. MaxAttempts, Attempt(n), mgr.pc # "connecting"
      PROVE  LeaseInv'
    BY <1>1, <1>2, AttemptIsQuiet, QuietSteps
<1>3. ASSUME mgr' \in {Retry, IdleManager}, mgr.pc # "connecting", UNCHANGED <<handle, owner, closer>>
      PROVE  LeaseInv'
  <2>1. /\ mgr' \in ManagerType(made) /\ mgr'.pc # "connecting"
        /\ mgr'.pc = "backoff" => mgr'.tries < MaxAttempts
      BY <1>1, <1>3, RetryType DEF ManagerType, IdleManager
  <2> QED
      BY <1>1, <1>3, <2>1, QuietSteps
<1>4. CASE ReconnectBegins
  <2>1. CASE /\ mgr.pc = "idle" /\ Pending # {}
             /\ mgr' = [mgr EXCEPT !.pc = "draining", !.wait = Pending]
             /\ att' = Started(att, Pending)
             /\ UNCHANGED <<handle, rec, waits, closed, closer>>
    <3>1. mgr' \in ManagerType(made) /\ mgr'.pc = "draining"
        BY <1>1, <2>1, PendingExists DEF ManagerType
    <3> QED
        BY <1>1, <2>1, <3>1, QuietSteps
  <2> QED
      BY <1>1, <1>2, <1>4, <2>1 DEF ReconnectBegins
<1>5. CASE Probe
    BY <1>1, <1>2, <1>3, <1>5 DEF Probe
<1>6. CASE Cleared
  <2>1. CASE Pending = {} /\ mgr.pc = "clearing" /\ mgr' = [mgr EXCEPT !.pc = "building"]
             /\ UNCHANGED <<handle, owner, closer>>
    <3>1. mgr' \in ManagerType(made) /\ mgr'.pc = "building"
        BY <1>1, <2>1 DEF ManagerType
    <3> QED
        BY <1>1, <2>1, <3>1, QuietSteps
  <2> QED
      BY <1>3, <1>6, <2>1 DEF Cleared
<1>7. CASE BuildFails \/ Discarded \/ Published
    BY <1>3, <1>7 DEF BuildFails, Discarded, Published
<1>8. CASE BackoffEnds
    BY <1>1, <1>2, <1>8 DEF BackoffEnds, TriesLeft
<1>9. CASE TurnCancelled /\ mgr.pc # "connecting"
    BY <1>3, <1>9 DEF TurnCancelled, Discard
<1> QED
    BY <1>4, <1>5, <1>6, <1>7, <1>8, <1>9
-----------------------------------------------------------------------------
(* The candidate.                                                          *)

LEMMA BuildStep ==
    ASSUME LeaseInv, BuildSucceeds
    PROVE  LeaseInv'
<1> USE DEF LeaseInv, BuildSucceeds
<1> DEFINE s == made + 1
<1>1. /\ s \in Servers /\ made \in Nat /\ 1 .. made' = (1 .. made) \cup {s} /\ s \notin 1 .. made
      /\ s # Nothing /\ Servers \subseteq Nat
    BY LeaseConstants DEF LeaseConstants, LeaseTypeOK, Servers
<1>2. rec[s] = "none" /\ s # current /\ s \notin closed /\ ~Leased(s)
    BY <1>1 DEF LeaseOwned, LeaseTypeOK, Leased
<1>3. mgr' = [pc |-> "connecting", tries |-> mgr.tries, cand |-> s, wait |-> mgr.wait]
    BY DEF LeaseTypeOK
<1>4. LeaseTypeOK'
    BY <1>1, <1>3 DEF LeaseTypeOK
<1>5. TriesLeft'
    BY <1>3 DEF TriesLeft
<1>6. \A r \in Servers : rec'[r] = IF r = s THEN "held" ELSE rec[r]
    BY DEF LeaseTypeOK
<1>7. \A r \in Servers : rec[r] # "held"
    BY DEF LeaseOwned
<1>8. LeaseOwned'
    BY <1>1, <1>2, <1>3, <1>6, <1>7 DEF LeaseOwned
<1>9. LeasedIsOpen' /\ WaitsMatchCalls'
    BY <1>1, <1>2, <1>6, ConnectionNumbers DEF LeasedIsOpen, WaitsMatchCalls, Leased
<1> QED
    BY <1>4, <1>5, <1>8, <1>9

LEMMA DiscardStep ==
    ASSUME LeaseInv, NEW pc \in {"discarding", "abandoning"}, Discard(pc) \/ ReplaceClosed
    PROVE  LeaseInv'
<1> USE DEF LeaseInv, handle
<1> DEFINE s == mgr.cand
<1>1. /\ s \in Servers /\ rec[s] = "held" /\ s # current /\ mgr.pc = "connecting"
      /\ s \in 1 .. made
    BY DEF Discard, ReplaceClosed, LeaseOwned, LeaseTypeOK
<1>2. /\ \A r \in Servers : rec'[r] = IF r = s THEN "retiring" ELSE rec[r]
      /\ \A r \in Servers : att'[r] = IF r = s /\ att[r] = "none" THEN "created" ELSE att[r]
      /\ UNCHANGED <<handle, waits, closed, closer>>
      /\ rec' \in [Servers -> {"none", "held", "retiring"}]
      /\ att' \in [Servers -> {"none", "created", "waiting", "woken", "cleaning"}]
    BY <1>1, StartedAttempts DEF LeaseTypeOK, Discard, ReplaceClosed, Retired
<1>3. /\ mgr' \in ManagerType(made) /\ mgr'.pc # "connecting"
      /\ mgr'.pc = "backoff" => mgr'.tries < MaxAttempts
  <2>1. CASE Discard(pc)
      BY <1>1, <2>1 DEF Discard, LeaseTypeOK, ManagerType
  <2>2. CASE ReplaceClosed
    <3>1. IdleManager \in ManagerType(made) /\ mgr.tries \in 0 .. MaxAttempts
        BY LeaseConstants DEF LeaseConstants, LeaseTypeOK, ManagerType, IdleManager
    <3> QED
        BY <2>2, <3>1, RetryType DEF ReplaceClosed, ManagerType, IdleManager
  <2> QED
      BY <2>1, <2>2
<1>4. LeaseTypeOK' /\ TriesLeft'
    BY <1>2, <1>3 DEF LeaseTypeOK, TriesLeft, ManagerType
<1>5. \A r \in Servers : rec'[r] # "held"
    BY <1>1, <1>2 DEF LeaseOwned
<1>6. LeaseOwned'
    BY <1>1, <1>2, <1>3, <1>5 DEF LeaseOwned
<1>7. LeasedIsOpen' /\ WaitsMatchCalls'
    BY <1>1, <1>2, ConnectionNumbers DEF LeasedIsOpen, WaitsMatchCalls, Leased
<1> QED
    BY <1>4, <1>6, <1>7

LEMMA ReplaceStep ==
    ASSUME LeaseInv, Replace
    PROVE  LeaseInv'
<1> USE DEF LeaseInv
<1> DEFINE s == mgr.cand
<1>1. /\ s \in Servers /\ rec[s] = "held" /\ s # current /\ mgr.pc = "connecting" /\ s \in 1 .. made
      /\ current \in Servers /\ rec[current] = "none" /\ current \in 1 .. made
      /\ att[current] = "none" /\ att[s] = "none"
    BY ConnectionNumbers DEF Replace, LeaseOwned, LeaseTypeOK
<1>2. /\ \A r \in Servers : rec'[r] = IF r = current THEN "retiring"
                                      ELSE IF r = s THEN "none" ELSE rec[r]
      /\ \A r \in Servers : waits'[r] = IF r = current THEN TRUE ELSE waits[r]
      /\ \A r \in Servers : att'[r] = IF r = current THEN "created" ELSE att[r]
      /\ rec' \in [Servers -> {"none", "held", "retiring"}]
      /\ waits' \in [Servers -> BOOLEAN]
      /\ att' \in [Servers -> {"none", "created", "waiting", "woken", "cleaning"}]
    BY <1>1, StartedAttempts DEF LeaseTypeOK, Replace, Retired
<1>3. mgr' = [pc |-> "publishing", tries |-> mgr.tries, cand |-> s, wait |-> {current}]
    BY DEF LeaseTypeOK, Replace
<1>4. UNCHANGED <<made, dropped, lease, closed, closer>> /\ current' = s
    BY DEF Replace
<1>5. LeaseTypeOK' /\ TriesLeft'
    BY <1>1, <1>2, <1>3, <1>4 DEF LeaseTypeOK, TriesLeft
<1>6. \A r \in Servers : rec'[r] # "held"
    BY <1>1, <1>2 DEF LeaseOwned
<1>7. LeaseOwned'
    BY <1>1, <1>2, <1>3, <1>4, <1>6 DEF LeaseOwned
<1>8. LeasedIsOpen'
  <2> SUFFICES ASSUME NEW c \in Calls, lease'[c] # Nothing
               PROVE  \/ lease'[c] = current'
                      \/ rec'[lease'[c]] = "retiring" /\ waits'[lease'[c]]
      BY DEF LeasedIsOpen
  <2>1. lease'[c] = lease[c] /\ lease[c] \in Servers
      BY <1>4, ConnectionNumbers
  <2>2. CASE lease[c] = current
      BY <1>2, <2>1, <2>2
  <2>3. CASE lease[c] # current
    <3>1. rec[lease[c]] = "retiring" /\ waits[lease[c]]
        BY <2>1, <2>3 DEF LeasedIsOpen
    <3>2. lease[c] # s
        BY <1>1, <3>1
    <3> QED
        BY <1>2, <2>1, <2>3, <3>1, <3>2
  <2> QED
      BY <2>2, <2>3
<1>9. WaitsMatchCalls'
  <2> SUFFICES ASSUME NEW r \in Servers
               PROVE  /\ waits'[r] => rec'[r] = "retiring"
                      /\ att'[r] = "cleaning" => ~waits'[r]
                      /\ att'[r] = "woken" => ~Leased(r)'
      BY DEF WaitsMatchCalls
  <2>1. Leased(r)' = Leased(r)
      BY <1>4 DEF Leased
  <2>2. /\ waits[r] => rec[r] = "retiring"
        /\ att[r] = "cleaning" => ~waits[r]
        /\ att[r] = "woken" => ~Leased(r)
      BY DEF WaitsMatchCalls
  <2>3. CASE r = current
      BY <1>2, <2>3
  <2>4. CASE r # current
    <3>1. att'[r] = att[r] /\ waits'[r] = waits[r]
        BY <1>2, <2>4
    <3>2. waits'[r] => rec'[r] = "retiring"
        BY <1>1, <1>2, <2>2, <2>4, <3>1
    <3> QED
        BY <2>1, <2>2, <3>1, <3>2
  <2> QED
      BY <2>3, <2>4
<1> QED
    BY <1>5, <1>7, <1>8, <1>9
-----------------------------------------------------------------------------
(* The shutdown.                                                           *)

LEMMA RoundType ==
    ASSUME NEW P \in SUBSET (1 .. made), NEW n \in Nat \ {0}
    PROVE  Round(P, n) \in CloserType(made)
  BY LeaseConstants DEF LeaseConstants, Round, OpenCloser, CloserType

LEMMA CloseSteps ==
    ASSUME LeaseInv, CloseBegins \/ CloseRound \/ CloseTimesOut
    PROVE  LeaseInv'
<1> USE DEF LeaseInv
<1>1. Pending \in SUBSET (1 .. made) /\ closer.rounds \in Nat /\ mgr \in ManagerType(made)
    BY PendingExists, LeaseConstants DEF LeaseTypeOK, ManagerType, LeaseConstants
<1>2. CASE CloseBegins
  <2> DEFINE P == Pending \cup ({current} \ {Nothing})
  <2>1. P \in SUBSET (1 .. made) /\ P \in SUBSET Servers
      BY <1>1, ConnectionNumbers DEF LeaseTypeOK
  <2>2. /\ \A r \in Servers : rec'[r] = IF r = current THEN "retiring" ELSE rec[r]
        /\ \A r \in Servers : waits'[r] = IF r = current THEN TRUE ELSE waits[r]
        /\ \A r \in Servers : att'[r] = IF r \in P /\ att[r] = "none" THEN "created" ELSE att[r]
        /\ rec' \in [Servers -> {"none", "held", "retiring"}]
        /\ waits' \in [Servers -> BOOLEAN]
        /\ att' \in [Servers -> {"none", "created", "waiting", "woken", "cleaning"}]
      BY <1>2, <2>1, StartedAttempts DEF CloseBegins, LeaseTypeOK
  <2>3. /\ UNCHANGED <<made, dropped, lease, closed, mgr>> /\ current' = Nothing
        /\ closer' \in CloserType(made)
      BY <1>2, <2>1, RoundType DEF CloseBegins
  <2>4. LeaseTypeOK' /\ TriesLeft'
      BY <2>2, <2>3 DEF LeaseTypeOK, TriesLeft, CloserType
  <2>5. \A r \in P : rec'[r] = "retiring"
      BY <2>1, <2>2 DEF Pending
  <2>6. LeaseOwned'
      BY <2>2, <2>3, <2>5, LeaseConstants DEF LeaseOwned, LeaseConstants
  <2>7. LeasedIsOpen'
      BY <2>2, <2>3, ConnectionNumbers DEF LeasedIsOpen
  <2>8. \A r \in Servers : att'[r] \in {"cleaning", "woken"} => att'[r] = att[r] /\ r # current
      BY <2>2 DEF LeaseOwned
  <2>9. WaitsMatchCalls'
      BY <2>2, <2>3, <2>8 DEF WaitsMatchCalls, Leased
  <2> QED
      BY <2>4, <2>6, <2>7, <2>9
<1>3. CASE CloseRound
  <2>1. closer.rounds + 1 \in Nat \ {0} /\ closer' = Round(Pending, closer.rounds + 1)
      BY <1>1, <1>3 DEF CloseRound
  <2>2. closer' \in CloserType(made)
      BY <1>1, <2>1, RoundType
  <2>3. /\ UNCHANGED <<handle, rec, waits, closed, mgr>> /\ att' \in {att, Started(att, Pending)}
        /\ mgr' \in ManagerType(made)
        /\ mgr'.pc = "backoff" => mgr'.tries < MaxAttempts
      BY <1>1, <1>3 DEF CloseRound, handle, TriesLeft
  <2> QED
      BY <2>3, <2>2, QuietSteps
<1>4. CASE CloseTimesOut
  <2>1. closer' \in CloserType(made)
      BY <1>4, LeaseConstants DEF CloseTimesOut, OpenCloser, CloserType, LeaseConstants
  <2>2. /\ UNCHANGED <<handle, rec, waits, closed, mgr, att>>
        /\ mgr' \in ManagerType(made)
        /\ mgr'.pc = "backoff" => mgr'.tries < MaxAttempts
      BY <1>1, <1>4 DEF CloseTimesOut, handle, owner, TriesLeft
  <2> QED
      BY <2>1, <2>2, QuietSteps
<1> QED
    BY <1>2, <1>3, <1>4

LEMMA LeaseStep == LeaseInv /\ [LeaseNext]_leaseVars => LeaseInv'
<1> SUFFICES ASSUME LeaseInv, [LeaseNext]_leaseVars PROVE LeaseInv'
    OBVIOUS
<1>1. ASSUME NEW c \in Calls, CallBegins(c) \/ CallEnds(c)
      PROVE  LeaseInv'
    BY <1>1, CallSteps
<1>2. CASE SessionDrops
    BY <1>2, DropStep
<1>3. ASSUME NEW s \in Servers, Attempts(s)
      PROVE  LeaseInv'
    BY <1>3, AttemptSteps
<1>4. CASE ReconnectBegins
    BY <1>4, ManagerSteps
<1>5. CASE Reconnect
    BY <1>5, ManagerSteps, BuildStep, ReplaceStep, DiscardStep DEF Reconnect, ConnectFails
<1>6. CASE TurnCancelled
    BY <1>6, ManagerSteps, DiscardStep DEF TurnCancelled
<1>7. CASE CloseBegins \/ CloseRound \/ CloseTimesOut
    BY <1>7, CloseSteps
<1>8. CASE UNCHANGED leaseVars
    BY <1>8 DEF leaseVars, handle, owner, LeaseInv, LeaseTypeOK, TriesLeft, LeaseOwned,
        WaitsMatchCalls, LeasedIsOpen, Leased
<1> QED
    BY <1>1, <1>2, <1>3, <1>4, <1>5, <1>6, <1>7, <1>8 DEF LeaseNext

\* The books hold in every reachable state.
LEMMA LeaseInvariant == LeaseSpec => []LeaseInv
<1> QED
    BY LeaseStart, LeaseStep, PTL DEF LeaseSpec
-----------------------------------------------------------------------------
(* The results.                                                            *)

LEMMA OneOwner ==
    ASSUME LeaseInv, NEW s \in Servers
    PROVE  Cardinality(OwnerOf(s)) = IF s \in 1 .. made \ closed THEN 1 ELSE 0
<1> USE DEF LeaseInv, OwnerOf
<1>1. CASE s \notin 1 .. made \ closed
  <2>1. OwnerOf(s) = {}
      BY <1>1 DEF LeaseOwned
  <2> QED
      BY <1>1, <2>1, FS_EmptySet
<1>2. CASE s \in 1 .. made \ closed
  <2>1. s = current \/ rec[s] = "held" \/ rec[s] = "retiring"
      BY <1>2 DEF LeaseOwned
  <2>2. \E o : OwnerOf(s) = {o}
    <3>1. CASE s = current
        BY <3>1 DEF LeaseOwned
    <3>2. CASE rec[s] = "held"
        BY <3>2 DEF LeaseOwned
    <3>3. CASE rec[s] = "retiring"
        BY <3>3 DEF LeaseOwned
    <3> QED
        BY <2>1, <3>1, <3>2, <3>3
  <2> QED
      BY <1>2, <2>2, FS_Singleton
<1> QED
    BY <1>1, <1>2

\* In every reachable state of the handle a call runs on a connection that
\* nobody is tearing down, and every connection that was opened and not closed
\* has exactly one owner, whatever fails, is cancelled or races in
\* reconnect_if_needed, the retirement owner and the shutdown
\* (mcp/reconnection.py).
THEOREM HandlesStayAccounted == LeaseSpec => []HandlesAccounted
<1>1. LeaseInv => HandlesAccounted
    BY OneOwner DEF LeaseInv, HandlesAccounted, NothingForgotten, LeaseOwned
<1> QED
    BY LeaseInvariant, <1>1, PTL

LEMMA AbstractStutter ==
    ASSUME LeaseTypeOK, UNCHANGED <<current, lease, rec, closed, waits>>
    PROVE  UNCHANGED Handle!vars
  BY DEF Handle!vars, GivenUp, Pending

LEMMA AbstractCalls ==
    ASSUME LeaseInv, NEW c \in Calls, CallBegins(c) \/ CallEnds(c)
    PROVE  Handle!Next
<1>1. CallBegins(c) => Handle!Call(c)
    BY DEF CallBegins, Handle!Call, GivenUp, Pending, owner
<1>2. CallEnds(c) => Handle!Return(c)
    BY DEF CallEnds, Handle!Return, GivenUp, Pending
<1> QED
    BY <1>1, <1>2 DEF Handle!Next

LEMMA AbstractAttempts ==
    ASSUME LeaseInv, NEW s \in Servers, Attempts(s)
    PROVE  Handle!Next \/ UNCHANGED Handle!vars
<1> USE DEF LeaseInv, handle
<1>1. CASE UNCHANGED <<current, lease, rec, closed, waits>>
    BY <1>1, AbstractStutter
<1>2. CASE /\ att[s] # "none" /\ waits[s] /\ ~Leased(s) /\ UNCHANGED <<current, lease, rec, closed>>
           /\ waits' = [waits EXCEPT ![s] = FALSE]
  <2>1. rec[s] = "retiring" /\ \A r \in Servers : waits'[r] = IF r = s THEN FALSE ELSE waits[r]
      BY <1>2 DEF LeaseOwned, LeaseTypeOK
  <2>2. GivenUp' = GivenUp /\ s \in GivenUp /\ GivenUp \subseteq Servers
      BY <1>2, <2>1, ConnectionNumbers DEF GivenUp, Pending, LeaseTypeOK
  <2>3. {r \in GivenUp : ~waits[r]}' = {r \in GivenUp : ~waits[r]} \cup {s}
      BY <2>1, <2>2
  <2>4. Handle!Dispose(s)
      BY <1>2, <2>2, <2>3 DEF Handle!Dispose, Handle!Unused, Leased
  <2> QED
      BY <2>4 DEF Handle!Next
<1>3. CASE AttemptStarts(s)
  <2>1. CASE waits[s] /\ ~Leased(s)
      BY <1>2, <1>3, <2>1 DEF AttemptStarts
  <2>2. CASE waits[s] /\ Leased(s)
      BY <1>1, <1>3, <2>2 DEF AttemptStarts
  <2>3. CASE ~waits[s]
    <3>1. waits' = [waits EXCEPT ![s] = FALSE]
        BY <1>3, <2>3 DEF AttemptStarts
    <3>2. waits' = waits
        BY <2>3, <3>1 DEF LeaseTypeOK
    <3> QED
        BY <1>1, <1>3, <3>2 DEF AttemptStarts
  <2> QED
      BY <2>1, <2>2, <2>3
<1>4. CASE AttemptWakes(s)
  <2>1. ~Leased(s)
      BY <1>4 DEF AttemptWakes, WaitsMatchCalls
  <2>2. CASE waits[s]
      BY <1>2, <1>4, <2>1, <2>2 DEF AttemptWakes
  <2>3. CASE ~waits[s]
    <3>1. waits' = waits
        BY <1>4, <2>3 DEF AttemptWakes, LeaseTypeOK
    <3> QED
        BY <1>1, <1>4, <3>1 DEF AttemptWakes
  <2> QED
      BY <2>2, <2>3
<1>5. CASE CleanupSucceeds(s)
  <2>1. rec[s] = "retiring"
      BY <1>5 DEF CleanupSucceeds, LeaseOwned
  <2>2. GivenUp' = GivenUp
      BY <1>5, <2>1 DEF CleanupSucceeds, GivenUp, Pending, LeaseTypeOK
  <2> QED
      BY <1>5, <2>2 DEF CleanupSucceeds, Handle!vars
<1>6. CASE CleanupFails(s)
    BY <1>1, <1>6 DEF CleanupFails
<1> QED
    BY <1>3, <1>4, <1>5, <1>6 DEF Attempts

LEMMA AbstractCandidate ==
    ASSUME LeaseInv, NEW pc \in {"discarding", "abandoning"},
           BuildSucceeds \/ Replace \/ ReplaceClosed \/ Discard(pc)
    PROVE  Handle!Next \/ UNCHANGED Handle!vars
<1> USE DEF LeaseInv, handle
<1> DEFINE s == mgr.cand
<1>1. CASE BuildSucceeds
  <2>1. rec[made + 1] = "none" /\ made + 1 \in Servers
      BY <1>1, ConnectionNumbers DEF BuildSucceeds, LeaseOwned, LeaseTypeOK, Servers
  <2>2. GivenUp' = GivenUp
      BY <1>1, <2>1 DEF BuildSucceeds, GivenUp, Pending, LeaseTypeOK
  <2> QED
      BY <1>1, <2>2 DEF BuildSucceeds, Handle!vars
<1>2. ASSUME mgr.pc = "connecting"
      PROVE  s \in Servers /\ rec[s] = "held" /\ s \notin GivenUp \cup {current} /\ ~waits[s] /\ ~Leased(s)
  <2>1. s \in Servers /\ rec[s] = "held" /\ s \notin closed /\ s # current /\ ~waits[s]
      BY <1>2 DEF LeaseOwned, WaitsMatchCalls
  <2>2. s \notin GivenUp \cup {current}
      BY <2>1 DEF GivenUp, Pending
  <2>3. ASSUME NEW c \in Calls, lease[c] = s
        PROVE  FALSE
      BY <2>1, <2>3, LeaseConstants DEF LeasedIsOpen, LeaseConstants
  <2> QED
      BY <2>1, <2>2, <2>3 DEF Leased
<1>3. CASE Replace
  <2>1. current \in Servers /\ current \notin GivenUp
      BY <1>3, ConnectionNumbers DEF Replace, LeaseOwned, GivenUp, Pending
  <2>2. \A r \in Servers : rec'[r] = IF r = current THEN "retiring" ELSE IF r = s THEN "none" ELSE rec[r]
      BY <1>2, <1>3, <2>1 DEF Replace, Retired, LeaseTypeOK
  <2>3. GivenUp' = GivenUp \cup {current}
      BY <1>2, <1>3, <2>1, <2>2 DEF Replace, GivenUp, Pending
  <2>4. GivenUp \subseteq Servers
      BY ConnectionNumbers DEF GivenUp, Pending, LeaseTypeOK
  <2>5. {r \in GivenUp : ~waits[r]}' = {r \in GivenUp : ~waits[r]}
      BY <1>3, <2>1, <2>3, <2>4 DEF Replace, LeaseTypeOK
  <2>6. Handle!Publish(s)
      BY <1>2, <1>3, <2>3, <2>5 DEF Replace, Handle!Publish
  <2> QED
      BY <1>2, <1>3, <2>6 DEF Handle!Next, Replace
<1>4. CASE ReplaceClosed \/ Discard(pc)
  <2>1. /\ mgr.pc = "connecting" /\ rec' = [rec EXCEPT ![s] = "retiring"]
        /\ UNCHANGED <<current, lease, closed, waits>>
      BY <1>4 DEF ReplaceClosed, Discard, Retired
  <2>2. GivenUp' = GivenUp \cup {s}
      BY <1>2, <2>1 DEF GivenUp, Pending, LeaseTypeOK
  <2>3. {r \in GivenUp : ~waits[r]}' = {r \in GivenUp : ~waits[r]} \cup {s}
      BY <1>2, <2>1, <2>2
  <2>4. Handle!Discard(s)
      BY <1>2, <2>1, <2>2, <2>3 DEF Handle!Discard, Handle!Unused, Leased
  <2> QED
    <3>1. s \in Servers
        BY <1>2, <2>1
    <3>2. \E r \in Servers : Handle!Discard(r)
        BY <2>4, <3>1 DEF Handle!Discard
    <3> QED
        BY <3>2 DEF Handle!Next
<1> QED
    BY <1>1, <1>3, <1>4

LEMMA AbstractClose ==
    ASSUME LeaseInv, CloseBegins
    PROVE  Handle!Next \/ UNCHANGED Handle!vars
<1> USE DEF LeaseInv
<1>1. /\ \A s \in Servers : rec'[s] = IF s = current THEN "retiring" ELSE rec[s]
      /\ \A s \in Servers : waits'[s] = IF s = current THEN TRUE ELSE waits[s]
      /\ current' = Nothing /\ UNCHANGED <<lease, closed>>
    BY DEF CloseBegins
<1>2. GivenUp \subseteq Servers
    BY ConnectionNumbers DEF GivenUp, Pending, LeaseTypeOK
<1>3. CASE current = Nothing
  <2>1. \A s \in Servers : rec'[s] = rec[s] /\ waits'[s] = waits[s]
      BY <1>1, <1>3, LeaseConstants DEF LeaseConstants
  <2>2. GivenUp' = GivenUp
      BY <1>1, <2>1 DEF GivenUp, Pending
  <2>3. {s \in GivenUp : ~waits[s]}' = {s \in GivenUp : ~waits[s]}
      BY <1>2, <2>1, <2>2
  <2> QED
      BY <1>1, <1>3, <2>2, <2>3 DEF Handle!vars
<1>4. CASE current # Nothing
  <2>1. current \in Servers /\ current \notin GivenUp
      BY <1>4, ConnectionNumbers DEF LeaseOwned, GivenUp, Pending
  <2>2. GivenUp' = GivenUp \cup {current}
      BY <1>1, <2>1 DEF GivenUp, Pending
  <2>3. {s \in GivenUp : ~waits[s]}' = {s \in GivenUp : ~waits[s]}
      BY <1>1, <1>2, <2>1, <2>2
  <2>4. Handle!Close
      BY <1>1, <1>4, <2>2, <2>3 DEF Handle!Close
  <2> QED
      BY <2>4 DEF Handle!Next
<1> QED
    BY <1>3, <1>4

\* The handle, its reconnections, failing cleanups and shutdown implement what
\* LiveHandle promises to the calls: one current connection, a call keeps its
\* own until it returns, and one that was given up never comes back.
THEOREM LeasesImplementHandle == LeaseSpec => ImplementsHandle
<1>1. LeaseInit => Handle!Init
    BY LeaseConstants DEF LeaseInit, Handle!Init, GivenUp, Pending, Servers, LeaseConstants
<1>2. LeaseInv /\ [LeaseNext]_leaseVars => [Handle!Next]_(Handle!vars)
  <2> SUFFICES ASSUME LeaseInv, [LeaseNext]_leaseVars
               PROVE  Handle!Next \/ UNCHANGED Handle!vars
      OBVIOUS
  <2>1. ASSUME NEW c \in Calls, CallBegins(c) \/ CallEnds(c)
        PROVE  Handle!Next
      BY <2>1, AbstractCalls
  <2>2. ASSUME NEW s \in Servers, Attempts(s)
        PROVE  Handle!Next \/ UNCHANGED Handle!vars
      BY <2>2, AbstractAttempts
  <2>3. ASSUME UNCHANGED <<current, lease, rec, closed, waits>>
        PROVE  UNCHANGED Handle!vars
      BY <2>3, AbstractStutter DEF LeaseInv
  <2>4. CASE SessionDrops \/ ReconnectBegins
      BY <2>3, <2>4 DEF SessionDrops, ReconnectBegins, Attempt, handle, owner
  <2>5. CASE Reconnect
    <3>1. CASE Probe \/ Cleared \/ BuildFails \/ Discarded \/ Published \/ BackoffEnds
        BY <2>3, <3>1 DEF Probe, Cleared, BuildFails, Discarded, Published, BackoffEnds, Attempt,
            handle, owner
    <3> QED
        BY <2>5, <3>1, AbstractCandidate DEF Reconnect, ConnectFails
  <2>6. CASE TurnCancelled
      BY <2>3, <2>6, AbstractCandidate DEF TurnCancelled, handle, owner
  <2>7. CASE CloseBegins
      BY <2>7, AbstractClose
  <2>8. CASE CloseRound \/ CloseTimesOut \/ UNCHANGED leaseVars
      BY <2>3, <2>8 DEF CloseRound, CloseTimesOut, leaseVars, handle, owner
  <2> QED
      BY <2>1, <2>2, <2>4, <2>5, <2>6, <2>7, <2>8 DEF LeaseNext
<1> QED
    BY LeaseInvariant, <1>1, <1>2, PTL DEF LeaseSpec, ImplementsHandle, Handle!Spec
-----------------------------------------------------------------------------
(* ServerTrust: the books of one project server.                           *)

UseType ==
    [at : {"idle", "begins", "validated", "admitting", "inside", "waits", "drain", "joins"},
     kind : UseKinds, within : Users \cup {NoUser}, consumer : BOOLEAN,
     seen : Digests \cup {NoDigest}, joined : 0 .. MaxCleanupFailures + 1, nested : BOOLEAN]

Inside == {u \in Users : UseAt(u, "inside")}

\* Who waits has been refused; one call at a time is being admitted, and the
\* server is not disabled meanwhile; the last attempt to clean up is not wasted.
Guarded ==
    /\ \A u \in Users : use[u].at \in {"waits", "drain"} => disabled
    /\ \A u \in Users : UseAt(u, "admitting") =>
          ~disabled /\ \A v \in Users : UseAt(v, "admitting") => v = u
    /\ attempt > MaxCleanupFailures => cleaning \/ cleaned
    /\ cleaning => attempt > 0

TrustInv == TrustTypeOK /\ ClosedAfterDrain /\ Guarded

LEMMA ToldCalls ==
    ASSUME NEW calls \in [Users -> UseType]
    PROVE  /\ Told(calls) \in [Users -> UseType]
           /\ \A u \in Users : Told(calls)[u].at =
                  IF calls[u].at = "drain" THEN "waits" ELSE calls[u].at
  BY DEF Told, UseType

LEMMA TrustTypes ==
    ASSUME TrustTypeOK
    PROVE  use \in [Users -> UseType] /\ IdleUse \in UseType /\ IdleUse.at = "idle"
  BY TrustConstants DEF TrustTypeOK, UseType, IdleUse, UseKinds, TrustConstants

LEMMA NestedUse ==
    ASSUME NEW r \in UseType
    PROVE  [r EXCEPT !.nested = TRUE] \in UseType /\ [r EXCEPT !.nested = TRUE].at = r.at
  BY DEF UseType

LEMMA InsideCounts ==
    ASSUME ClosedAfterDrain
    PROVE  /\ IsFiniteSet(Inside) /\ inFlight = Cardinality(Inside) /\ inFlight \in Nat
           /\ inFlight <= Cardinality(Users) /\ Cardinality(Users) \in Nat
           /\ \A u \in Users : UseAt(u, "inside") => inFlight > 0
           /\ \A u \in Users \ Inside : Cardinality(Inside \cup {u}) = inFlight + 1
           /\ \A u \in Inside : Cardinality(Inside \ {u}) = inFlight - 1
<1>1. IsFiniteSet(Inside) /\ Cardinality(Inside) <= Cardinality(Users)
    BY TrustConstants, FS_Subset DEF TrustConstants, Inside
<1>2. Cardinality(Inside) \in Nat /\ Cardinality(Users) \in Nat
    BY <1>1, TrustConstants, FS_CardinalityType DEF TrustConstants
<1>3. inFlight = Cardinality(Inside)
    BY DEF ClosedAfterDrain, Inside
<1>4. \A u \in Users \ Inside : Cardinality(Inside \cup {u}) = inFlight + 1
    BY <1>1, <1>3, FS_AddElement
<1>5. \A u \in Inside : Cardinality(Inside \ {u}) = inFlight - 1
    BY <1>1, <1>3, FS_RemoveElement
<1>6. \A u \in Inside : Inside # {}
    OBVIOUS
<1>7. Inside # {} => Cardinality(Inside) # 0
    BY <1>1, FS_EmptySet
<1>8. \A u \in Users : UseAt(u, "inside") => u \in Inside
    BY DEF Inside
<1> QED
    BY <1>1, <1>2, <1>3, <1>4, <1>5, <1>6, <1>7, <1>8

\* Starting a cleanup keeps the books, for a disabled server.
LEMMA CleanupStarts ==
    ASSUME TrustInv, NEW n \in Nat, n <= inFlight, StartCleanup(n), cleaned' = cleaned,
           inFlight' = n, disabled' = TRUE
    PROVE  /\ cleaning' \in BOOLEAN /\ attempt' \in 0 .. MaxCleanupFailures + 1
           /\ cleaning' \/ cleaned' => inFlight' = 0 /\ ~(cleaning' /\ cleaned')
           /\ inFlight' = 0 => cleaning' \/ cleaned' \/ attempt' > 0
           /\ attempt' > MaxCleanupFailures => cleaning' \/ cleaned'
           /\ cleaning' => attempt' > 0
<1>1. /\ attempt \in 0 .. MaxCleanupFailures + 1 /\ MaxCleanupFailures \in Nat
      /\ cleaning \in BOOLEAN /\ cleaned \in BOOLEAN /\ inFlight \in Nat
      /\ cleaning \/ cleaned => inFlight = 0 /\ ~(cleaning /\ cleaned)
      /\ attempt > MaxCleanupFailures => cleaning \/ cleaned
      /\ cleaning => attempt > 0
    BY TrustConstants, InsideCounts DEF TrustInv, TrustTypeOK, ClosedAfterDrain, Guarded, TrustConstants
<1>2. CASE cleaning \/ cleaned
  <2>1. cleaning' = cleaning /\ attempt' = attempt
      BY <1>1, <1>2 DEF StartCleanup, StartsCleanup
  <2> QED
      BY <1>1, <1>2, <2>1
<1>3. CASE ~cleaning /\ ~cleaned /\ n = 0
  <2>1. cleaning' = TRUE /\ attempt' = attempt + 1
      BY <1>1, <1>3 DEF StartCleanup, StartsCleanup
  <2>2. ~(attempt > MaxCleanupFailures)
      BY <1>1, <1>3
  <2>3. attempt' \in 0 .. MaxCleanupFailures + 1 /\ attempt' > 0
      BY <1>1, <2>1, <2>2
  <2> QED
      BY <1>1, <1>3, <2>1, <2>3
<1>4. CASE ~cleaning /\ ~cleaned /\ n # 0
  <2>1. cleaning' = FALSE /\ attempt' = attempt
      BY <1>1, <1>4 DEF StartCleanup, StartsCleanup
  <2> QED
      BY <1>1, <1>4, <2>1
<1> QED
    BY <1>2, <1>3, <1>4

LEMMA SameInside ==
    ASSUME ClosedAfterDrain, inFlight' = inFlight,
           \A u \in Users : use'[u].at = "inside" <=> use[u].at = "inside"
    PROVE  inFlight' = Cardinality({u \in Users : UseAt(u, "inside")}')
<1>1. {u \in Users : UseAt(u, "inside")}' = {u \in Users : UseAt(u, "inside")}
    BY DEF UseAt
<1> QED
    BY <1>1 DEF ClosedAfterDrain

FilesTypeOK ==
    sources \in Digests /\ approvedFor \in Digests \cup {NoDigest} /\ approvalsLock \in Users \cup {NoUser}

\* Steps of one call that change nothing but where it is.
LEMMA TrustQuiet ==
    ASSUME TrustInv, StateUnchanged, FilesTypeOK', use' \in [Users -> UseType],
           \A u \in Users :
              /\ use'[u].at = "inside" <=> use[u].at = "inside"
              /\ use'[u].at \in {"waits", "drain"} => use[u].at \in {"waits", "drain"}
              /\ use'[u].at = "admitting" => use[u].at = "admitting"
    PROVE  TrustInv'
<1> USE DEF TrustInv, StateUnchanged
<1>1. TrustTypeOK'
    BY DEF TrustTypeOK, FilesTypeOK, UseType
<1>2. ClosedAfterDrain'
    BY SameInside DEF ClosedAfterDrain
<1>3. Guarded'
    BY DEF Guarded, UseAt
<1> QED
    BY <1>1, <1>2, <1>3

LEMMA BeginStep ==
    ASSUME TrustInv, NEW u \in Users, NEW kind \in UseKinds, NEW within \in Users \cup {NoUser},
           NEW consumer \in BOOLEAN, UseBegins(u, kind, within, consumer)
    PROVE  TrustInv'
<1> USE DEF UseBegins, TrustInv
<1>1. use \in [Users -> UseType] /\ UseAt(u, "idle") /\ within # u
    BY TrustTypes, TrustConstants DEF UseAt, TrustConstants
<1>2. [IdleUse EXCEPT !.at = "begins", !.kind = kind, !.within = within, !.consumer = consumer] \in UseType
    BY TrustTypes DEF UseType
<1>3. \A v \in Users : /\ use'[v] \in UseType
                       /\ use'[v].at = IF v = u THEN "begins" ELSE use[v].at
  <2> TAKE v \in Users
  <2>1. CASE v = u
    <3>1. use'[v] = [IdleUse EXCEPT !.at = "begins", !.kind = kind, !.within = within,
                                    !.consumer = consumer]
        BY <1>1, <2>1
    <3>2. use'[v].at = "begins"
        BY <3>1 DEF IdleUse
    <3> QED
        BY <1>2, <2>1, <3>1, <3>2
  <2>2. CASE v # u /\ v = within
    <3>1. use'[v] = [use[v] EXCEPT !.nested = TRUE]
        BY <2>2
    <3>2. use[v] \in UseType
        BY <1>1
    <3>3. \A r \in UseType : /\ [r EXCEPT !.nested = TRUE] \in UseType
                             /\ [r EXCEPT !.nested = TRUE].at = r.at
        BY NestedUse
    <3> QED
        BY <2>2, <3>1, <3>2, <3>3
  <2>3. CASE v # u /\ v # within
      BY <1>1, <2>3
  <2> QED
      BY <2>1, <2>2, <2>3
<1>4. use' \in [Users -> UseType]
    BY <1>3
<1>5. FilesTypeOK'
    BY DEF FilesUnchanged, FilesTypeOK, TrustTypeOK
<1> QED
    BY <1>1, <1>3, <1>4, <1>5, TrustQuiet DEF UseAt

LEMMA IdleStep ==
    ASSUME TrustInv, NEW u \in Users, FilesUnchanged, StateUnchanged, ~UseAt(u, "inside"),
           use' = [use EXCEPT ![u] = IdleUse]
    PROVE  TrustInv'
<1> USE DEF TrustInv
<1>1. FilesTypeOK'
    BY DEF FilesUnchanged, FilesTypeOK, TrustTypeOK
<1>2. use' \in [Users -> UseType] /\ \A v \in Users : use'[v].at = IF v = u THEN "idle" ELSE use[v].at
    BY TrustTypes
<1> QED
    BY <1>1, <1>2, TrustQuiet DEF UseAt

LEMMA RevokeStep ==
    ASSUME TrustInv, NEW u \in Users, Revoke(u), ~UseAt(u, "inside"), FilesTypeOK',
           \A v \in Users \ {u} : ~UseAt(v, "admitting")
    PROVE  TrustInv' /\ ~UseAt(u, "inside")'
<1> USE DEF TrustInv
<1>1. disabled' = TRUE /\ inFlight' = inFlight /\ inFlight \in Nat /\ cleaned' = cleaned
    BY InsideCounts DEF Revoke
<1>2. /\ cleaning' \in BOOLEAN /\ attempt' \in 0 .. MaxCleanupFailures + 1
      /\ cleaning' \/ cleaned' => inFlight' = 0 /\ ~(cleaning' /\ cleaned')
      /\ inFlight' = 0 => cleaning' \/ cleaned' \/ attempt' > 0
      /\ attempt' > MaxCleanupFailures => cleaning' \/ cleaned'
      /\ cleaning' => attempt' > 0
    BY <1>1, CleanupStarts DEF Revoke
<1> DEFINE calls == [use EXCEPT ![u] =
            IF Descends(u) \/ (inFlight > 0 /\ @.kind = "call") THEN IdleUse
            ELSE [@ EXCEPT !.at = "waits"]]
<1>3. /\ calls \in [Users -> UseType] /\ calls[u].at \in {"idle", "waits"}
      /\ \A v \in Users \ {u} : calls[v] = use[v]
  <2>1. [use[u] EXCEPT !.at = "waits"] \in UseType /\ [use[u] EXCEPT !.at = "waits"].at = "waits"
      BY TrustTypes DEF UseType
  <2> QED
      BY <2>1, TrustTypes
<1>4. use' = Told(calls)
    BY DEF Revoke
<1> HIDE DEF calls
<1>5. /\ use' \in [Users -> UseType] /\ use'[u].at \in {"idle", "waits"}
      /\ \A v \in Users \ {u} : use'[v].at = IF use[v].at = "drain" THEN "waits" ELSE use[v].at
    BY <1>3, <1>4, ToldCalls
<1>6. TrustTypeOK'
    BY <1>1, <1>2, <1>5 DEF TrustTypeOK, FilesTypeOK, UseType
<1>7. inFlight' = Cardinality({v \in Users : UseAt(v, "inside")}')
    BY <1>1, <1>5, SameInside DEF UseAt
<1>8. ClosedAfterDrain'
    BY <1>1, <1>2, <1>7 DEF ClosedAfterDrain
<1>9. Guarded'
    BY <1>1, <1>2, <1>5 DEF Guarded, UseAt
<1> QED
    BY <1>5, <1>6, <1>8, <1>9 DEF UseAt

LEMMA AdmitReadsStep ==
    ASSUME TrustInv, NEW u \in Users, AdmitReads(u)
    PROVE  TrustInv'
<1> USE DEF AdmitReads, TrustInv, StateUnchanged
<1>1. /\ use' \in [Users -> UseType]
      /\ \A v \in Users : use'[v].at = IF v = u THEN "admitting" ELSE use[v].at
    BY TrustTypes DEF UseType, TrustTypeOK
<1>2. TrustTypeOK'
    BY <1>1 DEF TrustTypeOK, UseType
<1>3. \A v \in Users : use'[v].at = "inside" <=> use[v].at = "inside"
    BY <1>1 DEF UseAt
<1>4. ClosedAfterDrain'
    BY <1>3, SameInside DEF ClosedAfterDrain
<1>5. Guarded'
    BY <1>1 DEF Guarded, UseAt, StateFree, TrustTypeOK
<1> QED
    BY <1>2, <1>4, <1>5

LEMMA AdmitStep ==
    ASSUME TrustInv, NEW u \in Users, Admit(u)
    PROVE  /\ TrustInv'
           /\ UseAt(u, "inside")' => approvedFor = "reviewed" /\ ~disabled
<1> USE DEF TrustInv
<1>1. /\ UseAt(u, "admitting") /\ ~disabled /\ FilesTypeOK'
      /\ \A v \in Users \ {u} : ~UseAt(v, "admitting")
    BY DEF Admit, Guarded, FilesTypeOK, TrustTypeOK
<1>2. CASE Revoke(u)
  <2>1. ~UseAt(u, "inside")
      BY <1>1 DEF UseAt
  <2> QED
      BY <1>1, <1>2, <2>1, RevokeStep
<1>3. CASE /\ TRUE \in Admits(u)
           /\ inFlight' = inFlight + 1
           /\ use' = Told([use EXCEPT ![u].at = "inside"])
           /\ UNCHANGED <<disabled, cleaning, attempt, cleaned>>
  <2>1. approvedFor = "reviewed"
      BY <1>3 DEF Admits, Revalidates
  <2>2. /\ use' \in [Users -> UseType] /\ use'[u].at = "inside"
        /\ \A v \in Users \ {u} : use'[v].at = IF use[v].at = "drain" THEN "waits" ELSE use[v].at
    <3> DEFINE calls == [use EXCEPT ![u].at = "inside"]
    <3>1. /\ calls \in [Users -> UseType] /\ calls[u].at = "inside"
          /\ \A v \in Users \ {u} : calls[v] = use[v]
        BY TrustTypes DEF UseType
    <3> HIDE DEF calls
    <3>2. use' = Told(calls)
        BY <1>3 DEF calls
    <3> QED
        BY <3>1, <3>2, ToldCalls
  <2>3. ~cleaning /\ ~cleaned
      BY <1>1 DEF ClosedAfterDrain
  <2>4. Inside' = Inside \cup {u} /\ u \notin Inside
      BY <1>1, <2>2 DEF Inside, UseAt
  <2>5. inFlight' = Cardinality(Inside)' /\ inFlight' \in Nat /\ inFlight' # 0
      BY <1>3, <2>4, InsideCounts
  <2>6. inFlight' <= Cardinality(Users)
      BY <2>4, <2>5, TrustConstants, FS_Subset DEF TrustConstants, Inside
  <2>7. TrustTypeOK'
    <3>1. inFlight' \in 0 .. Cardinality(Users)
        BY <2>5, <2>6, InsideCounts
    <3> QED
        BY <1>1, <1>3, <2>2, <3>1 DEF TrustTypeOK, FilesTypeOK, UseType
  <2>8. ClosedAfterDrain'
      BY <1>1, <1>3, <2>3, <2>5 DEF ClosedAfterDrain, Inside
  <2>9. Guarded'
      BY <1>1, <1>3, <2>2 DEF Guarded, UseAt
  <2> QED
      BY <1>1, <2>1, <2>7, <2>8, <2>9
<1> QED
    BY <1>2, <1>3 DEF Admit

LEMMA OperationEndsStep ==
    ASSUME TrustInv, NEW u \in Users, OperationEnds(u)
    PROVE  TrustInv'
<1> USE DEF TrustInv
<1>1. /\ UseAt(u, "inside") /\ \A v \in Users : ~UseAt(v, "admitting")
      /\ inFlight' = inFlight - 1 /\ UNCHANGED <<disabled, cleaned>> /\ FilesTypeOK'
    BY DEF OperationEnds, StateFree, FilesUnchanged, FilesTypeOK, TrustTypeOK
<1>2. inFlight \in Nat \ {0} /\ inFlight <= Cardinality(Users) /\ Cardinality(Users) \in Nat
    BY <1>1, InsideCounts
<1>3. /\ cleaning' \in BOOLEAN /\ attempt' \in 0 .. MaxCleanupFailures + 1
      /\ cleaning' \/ cleaned' => disabled' /\ inFlight' = 0 /\ ~(cleaning' /\ cleaned')
      /\ disabled' /\ inFlight' = 0 => cleaning' \/ cleaned' \/ attempt' > 0
      /\ attempt' > MaxCleanupFailures => cleaning' \/ cleaned'
      /\ cleaning' => attempt' > 0
  <2>1. CASE disabled
    <3>1. StartCleanup(inFlight - 1) /\ disabled' = TRUE
        BY <1>1, <2>1 DEF OperationEnds, LastCleansUp, TrustTypeOK
    <3>2. inFlight - 1 \in Nat /\ inFlight - 1 <= inFlight
        BY <1>2
    <3> QED
        BY <1>1, <3>1, <3>2, CleanupStarts
  <2>2. CASE ~disabled
    <3>1. UNCHANGED <<cleaning, attempt>> /\ disabled' = disabled
        BY <2>2 DEF OperationEnds, LastCleansUp
    <3> QED
        BY <1>1, <2>2, <3>1 DEF ClosedAfterDrain, Guarded, TrustTypeOK
  <2> QED
      BY <2>1, <2>2
<1> DEFINE calls == [use EXCEPT ![u] =
            IF LastCleansUp /\ cleaning' THEN [@ EXCEPT !.at = "joins", !.joined = attempt']
            ELSE IdleUse]
<1>4. /\ calls \in [Users -> UseType] /\ calls[u].at \in {"idle", "joins"}
      /\ \A v \in Users \ {u} : calls[v] = use[v]
  <2>1. /\ [use[u] EXCEPT !.at = "joins", !.joined = attempt'] \in UseType
        /\ [use[u] EXCEPT !.at = "joins", !.joined = attempt'].at = "joins"
      BY <1>3, TrustTypes DEF UseType
  <2> QED
      BY <2>1, TrustTypes
<1>5. use' = Told(calls)
    BY DEF OperationEnds
<1> HIDE DEF calls
<1>6. /\ use' \in [Users -> UseType] /\ use'[u].at \in {"idle", "joins"}
      /\ \A v \in Users \ {u} : use'[v].at = IF use[v].at = "drain" THEN "waits" ELSE use[v].at
    BY <1>4, <1>5, ToldCalls
<1>7. TrustTypeOK'
  <2>1. inFlight' \in 0 .. Cardinality(Users)
      BY <1>1, <1>2
  <2> QED
      BY <1>1, <1>3, <1>6, <2>1 DEF TrustTypeOK, FilesTypeOK, UseType
<1>8. inFlight' = Cardinality({v \in Users : UseAt(v, "inside")}')
  <2>1. u \in Inside /\ {v \in Users : UseAt(v, "inside")}' = Inside \ {u}
      BY <1>1, <1>6 DEF Inside, UseAt
  <2> QED
      BY <1>1, <2>1, InsideCounts
<1>9. ClosedAfterDrain' /\ Guarded'
    BY <1>1, <1>3, <1>6, <1>8 DEF ClosedAfterDrain, Guarded, UseAt
<1> QED
    BY <1>7, <1>9

LEMMA WaitStep ==
    ASSUME TrustInv, NEW u \in Users, WaitForCleanup(u)
    PROVE  TrustInv'
<1> USE DEF TrustInv
<1>1. /\ use[u].at = "waits" /\ disabled /\ \A v \in Users : ~UseAt(v, "admitting")
      /\ UNCHANGED <<disabled, inFlight, cleaned>> /\ FilesTypeOK' /\ inFlight \in Nat
    BY InsideCounts DEF WaitForCleanup, StateFree, UseAt, FilesUnchanged, FilesTypeOK, TrustTypeOK, Guarded
<1>2. /\ cleaning' \in BOOLEAN /\ attempt' \in 0 .. MaxCleanupFailures + 1
      /\ cleaning' \/ cleaned' => inFlight' = 0 /\ ~(cleaning' /\ cleaned')
      /\ inFlight' = 0 => cleaning' \/ cleaned' \/ attempt' > 0
      /\ attempt' > MaxCleanupFailures => cleaning' \/ cleaned'
      /\ cleaning' => attempt' > 0
  <2>1. CASE cleaned
    <3>1. UNCHANGED <<cleaning, attempt>>
        BY <2>1 DEF WaitForCleanup
    <3> QED
        BY <1>1, <2>1, <3>1 DEF ClosedAfterDrain, Guarded, TrustTypeOK
  <2>2. CASE ~cleaned
    <3>1. StartCleanup(inFlight) /\ disabled' = TRUE
        BY <1>1, <2>2 DEF WaitForCleanup, TrustTypeOK
    <3> QED
        BY <1>1, <3>1, CleanupStarts
  <2> QED
      BY <2>1, <2>2
<1>3. /\ use' \in [Users -> UseType] /\ use'[u].at \in {"idle", "joins", "drain"}
      /\ \A v \in Users \ {u} : use'[v] = use[v]
  <2>1. /\ [use[u] EXCEPT !.at = "joins", !.joined = attempt'] \in UseType
        /\ [use[u] EXCEPT !.at = "joins", !.joined = attempt'].at = "joins"
        /\ [use[u] EXCEPT !.at = "drain"] \in UseType
        /\ [use[u] EXCEPT !.at = "drain"].at = "drain"
      BY <1>2, TrustTypes DEF UseType
  <2> QED
      BY <2>1, TrustTypes DEF WaitForCleanup
<1>4. TrustTypeOK'
    BY <1>1, <1>2, <1>3 DEF TrustTypeOK, FilesTypeOK, UseType
<1>5. inFlight' = Cardinality({v \in Users : UseAt(v, "inside")}')
    BY <1>1, <1>3, SameInside
<1>6. ClosedAfterDrain' /\ Guarded'
    BY <1>1, <1>2, <1>3, <1>5 DEF ClosedAfterDrain, Guarded, UseAt
<1> QED
    BY <1>4, <1>6

LEMMA CleanupEndsStep ==
    ASSUME TrustInv, CleanupEnds
    PROVE  TrustInv'
<1> USE DEF TrustInv
<1>1. /\ cleaning /\ cleaning' = FALSE /\ UNCHANGED <<disabled, inFlight, attempt>> /\ FilesTypeOK'
      /\ \A v \in Users : ~UseAt(v, "admitting")
    BY DEF CleanupEnds, StateFree, FilesUnchanged, FilesTypeOK, TrustTypeOK
<1>2. cleaned' \in BOOLEAN /\ (attempt > MaxCleanupFailures => cleaned')
  <2>1. CASE attempt <= MaxCleanupFailures
    <3>1. cleaned' \in {TRUE} \cup {FALSE}
        BY <2>1 DEF CleanupEnds
    <3>2. ~(attempt > MaxCleanupFailures)
        BY <2>1, TrustConstants DEF TrustTypeOK, TrustConstants
    <3> QED
        BY <3>1, <3>2
  <2>2. CASE ~(attempt <= MaxCleanupFailures)
    <3>1. cleaned' = TRUE
        BY <2>2 DEF CleanupEnds
    <3> QED
        BY <3>1
  <2> QED
      BY <2>1, <2>2
<1>3. disabled /\ inFlight = 0 /\ attempt > 0
    BY <1>1 DEF ClosedAfterDrain, Guarded
<1>4. /\ use' \in [Users -> UseType]
      /\ \A v \in Users : use'[v].at = IF use[v].at = "drain" THEN "waits" ELSE use[v].at
    BY TrustTypes, ToldCalls DEF CleanupEnds
<1>5. TrustTypeOK'
    BY <1>1, <1>2, <1>4 DEF TrustTypeOK, FilesTypeOK, UseType
<1>6. inFlight' = Cardinality({v \in Users : UseAt(v, "inside")}')
    BY <1>1, <1>4, SameInside
<1>7. ClosedAfterDrain' /\ Guarded'
    BY <1>1, <1>2, <1>3, <1>4, <1>6 DEF ClosedAfterDrain, Guarded, UseAt
<1> QED
    BY <1>5, <1>7

LEMMA TrustStart == TrustInit => TrustInv
<1> SUFFICES ASSUME TrustInit PROVE TrustInv
    OBVIOUS
<1>1. IdleUse \in UseType /\ IdleUse.at = "idle"
    BY TrustConstants DEF IdleUse, UseType, UseKinds, TrustConstants
<1>2. Cardinality(Users) \in Nat
    BY TrustConstants, FS_CardinalityType DEF TrustConstants
<1>3. TrustTypeOK
  <2>1. 0 \in 0 .. Cardinality(Users) /\ 0 \in 0 .. MaxCleanupFailures + 1
      BY <1>2, TrustConstants DEF TrustConstants
  <2>2. use \in [Users -> UseType]
      BY <1>1 DEF TrustInit
  <2> QED
      BY <2>1, <2>2 DEF TrustInit, TrustTypeOK, UseType, Digests
<1>4. {u \in Users : UseAt(u, "inside")} = {}
    BY <1>1 DEF TrustInit, UseAt
<1>5. ClosedAfterDrain
    BY <1>4, FS_EmptySet DEF TrustInit, ClosedAfterDrain
<1>6. Guarded
    BY <1>1, TrustConstants DEF TrustInit, Guarded, UseAt, TrustConstants
<1> QED
    BY <1>3, <1>5, <1>6 DEF TrustInv

\* A step of a call keeps the books, and admits only what was approved.
LEMMA UseSteps ==
    ASSUME TrustInv, NEW u \in Users, UseStep(u)
    PROVE  TrustInv'
<1>1. CASE Validate(u)
  <2>1. CASE Revoke(u)
    <3>1. FilesTypeOK' /\ ~UseAt(u, "inside") /\ \A v \in Users : ~UseAt(v, "admitting")
        BY <1>1 DEF Validate, StateFree, UseAt, FilesUnchanged, FilesTypeOK, TrustInv, TrustTypeOK
    <3> QED
        BY <2>1, <3>1, RevokeStep
  <2>2. CASE /\ StateUnchanged
             /\ use' = [use EXCEPT ![u] = IF @.kind = "call" THEN [@ EXCEPT !.at = "validated"]
                                          ELSE IdleUse]
    <3>1. [use[u] EXCEPT !.at = "validated"] \in UseType /\ [use[u] EXCEPT !.at = "validated"].at = "validated"
        BY TrustTypes DEF UseType, TrustInv
    <3>2. /\ use' \in [Users -> UseType] /\ use'[u].at \in {"validated", "idle"}
          /\ \A v \in Users \ {u} : use'[v] = use[v]
        BY <2>2, <3>1, TrustTypes DEF TrustInv
    <3>3. FilesTypeOK' /\ ~UseAt(u, "inside")
        BY <1>1 DEF Validate, UseAt, FilesUnchanged, FilesTypeOK, TrustInv, TrustTypeOK
    <3> QED
        BY <2>2, <3>2, <3>3, TrustQuiet DEF UseAt
  <2> QED
      BY <1>1, <2>1, <2>2 DEF Validate
<1>2. CASE AdmitDisabled(u)
  <2>1. FilesTypeOK' /\ ~UseAt(u, "inside") /\ \A v \in Users : ~UseAt(v, "admitting")
      BY <1>2 DEF AdmitDisabled, StateFree, UseAt, FilesUnchanged, FilesTypeOK, TrustInv, TrustTypeOK
  <2> QED
      BY <1>2, <2>1, RevokeStep DEF AdmitDisabled
<1>3. CASE AdmitTimesOut(u) \/ CleanupJoined(u)
    BY <1>3, IdleStep DEF AdmitTimesOut, CleanupJoined, UseAt
<1> QED
    BY <1>1, <1>2, <1>3, AdmitReadsStep, AdmitStep, OperationEndsStep, WaitStep DEF UseStep

LEMMA TrustStep == TrustInv /\ [TrustNext]_trustVars => TrustInv'
<1> SUFFICES ASSUME TrustInv, [TrustNext]_trustVars PROVE TrustInv'
    OBVIOUS
<1>1. ASSUME NEW u \in Users, NEW kind \in UseKinds, NEW within \in Users \cup {NoUser},
             NEW consumer \in BOOLEAN, UseBegins(u, kind, within, consumer)
      PROVE  TrustInv'
    BY <1>1, BeginStep
<1>2. ASSUME NEW u \in Users, UseStep(u)
      PROVE  TrustInv'
    BY <1>2, UseSteps
<1>3. ASSUME NEW u \in Users, WaitCancelled(u)
      PROVE  TrustInv'
    BY <1>3, IdleStep DEF WaitCancelled, UseAt
<1>4. CASE CleanupEnds
    BY <1>4, CleanupEndsStep
<1>5. ASSUME use' = use, StateUnchanged, FilesTypeOK'
      PROVE  TrustInv'
    BY <1>5, TrustQuiet, TrustTypes DEF TrustInv
<1>6. ASSUME NEW digest \in Digests \cup {NoDigest}, SetApproval(digest)
      PROVE  TrustInv'
    BY <1>5, <1>6 DEF SetApproval, FilesTypeOK, TrustInv, TrustTypeOK
<1>7. CASE Drift
    BY <1>5, <1>7 DEF Drift, FilesTypeOK, TrustInv, TrustTypeOK
<1>8. CASE UNCHANGED trustVars
    BY <1>5, <1>8 DEF trustVars, StateUnchanged, FilesTypeOK, TrustInv, TrustTypeOK
<1> QED
    BY <1>1, <1>2, <1>3, <1>4, <1>6, <1>7, <1>8 DEF TrustNext

\* Nothing but its admission lets a call in.
LEMMA OnlyAdmitted ==
    ASSUME TrustInv, TrustNext, NEW v \in Users, ~UseAt(v, "inside"), UseAt(v, "inside")'
    PROVE  Admit(v)
<1> USE TrustTypes DEF TrustInv, UseAt
<1>1. \A calls \in [Users -> UseType] : Told(calls)[v].at = "inside" => calls[v].at = "inside"
    BY ToldCalls
<1>2. ASSUME NEW u \in Users, NEW kind \in UseKinds, NEW within \in Users \cup {NoUser},
             NEW consumer \in BOOLEAN, UseBegins(u, kind, within, consumer)
      PROVE  FALSE
  <2>1. use'[v].at \in {"begins", use[v].at}
    <3>1. CASE v = u
      <4>1. use'[v] = [IdleUse EXCEPT !.at = "begins", !.kind = kind, !.within = within,
                                      !.consumer = consumer]
          BY <1>2, <3>1, TrustConstants DEF UseBegins, TrustConstants
      <4> QED
          BY <4>1 DEF IdleUse
    <3>2. CASE v # u /\ v = within
      <4>1. use'[v] = [use[v] EXCEPT !.nested = TRUE]
          BY <1>2, <3>2 DEF UseBegins
      <4> QED
          BY <4>1 DEF UseType
    <3>3. CASE v # u /\ v # within
        BY <1>2, <3>3 DEF UseBegins
    <3> QED
        BY <3>1, <3>2, <3>3
  <2> QED
      BY <2>1
<1>3. ASSUME NEW u \in Users, Revoke(u)
      PROVE  FALSE
  <2> DEFINE calls == [use EXCEPT ![u] =
            IF Descends(u) \/ (inFlight > 0 /\ @.kind = "call") THEN IdleUse
            ELSE [@ EXCEPT !.at = "waits"]]
  <2>1. [use[u] EXCEPT !.at = "waits"] \in UseType /\ [use[u] EXCEPT !.at = "waits"].at = "waits"
      BY DEF UseType
  <2>2. calls \in [Users -> UseType] /\ calls[v].at # "inside"
      BY <2>1
  <2>3. use' = Told(calls)
      BY <1>3 DEF Revoke
  <2> HIDE DEF calls
  <2> QED
      BY <1>1, <2>2, <2>3
<1>4. ASSUME NEW u \in Users, OperationEnds(u)
      PROVE  FALSE
  <2> DEFINE calls == [use EXCEPT ![u] =
            IF LastCleansUp /\ cleaning' THEN [@ EXCEPT !.at = "joins", !.joined = attempt']
            ELSE IdleUse]
  <2>1. attempt' \in 0 .. MaxCleanupFailures + 1
      BY <1>4, OperationEndsStep DEF TrustTypeOK
  <2>2. /\ [use[u] EXCEPT !.at = "joins", !.joined = attempt'] \in UseType
        /\ [use[u] EXCEPT !.at = "joins", !.joined = attempt'].at = "joins"
      BY <2>1 DEF UseType
  <2>3. calls \in [Users -> UseType] /\ calls[v].at # "inside"
      BY <2>2
  <2>4. use' = Told(calls)
      BY <1>4 DEF OperationEnds
  <2> HIDE DEF calls
  <2> QED
      BY <1>1, <2>3, <2>4
<1>5. ASSUME NEW u \in Users, Admit(u)
      PROVE  Admit(v)
  <2>1. CASE use' = Told([use EXCEPT ![u].at = "inside"])
    <3>1. [use EXCEPT ![u].at = "inside"] \in [Users -> UseType]
        BY DEF UseType
    <3>2. v = u
        BY <1>1, <2>1, <3>1
    <3> QED
        BY <1>5, <3>2
  <2> QED
      BY <1>3, <1>5, <2>1 DEF Admit
<1>6. ASSUME NEW u \in Users, Validate(u) \/ AdmitDisabled(u)
      PROVE  FALSE
  <2>1. CASE use' = [use EXCEPT ![u] = IF @.kind = "call" THEN [@ EXCEPT !.at = "validated"]
                                       ELSE IdleUse]
    <3>1. [use[u] EXCEPT !.at = "validated"].at = "validated"
        BY DEF UseType
    <3> QED
        BY <2>1, <3>1
  <2> QED
      BY <1>3, <1>6, <2>1 DEF Validate, AdmitDisabled
<1>7. ASSUME NEW u \in Users,
             AdmitReads(u) \/ AdmitTimesOut(u) \/ CleanupJoined(u) \/ WaitForCleanup(u) \/ WaitCancelled(u)
      PROVE  FALSE
  <2>1. use[u] \in UseType
      BY <1>1
  <2>2. \A w \in Users \ {u} : use'[w] = use[w]
      BY <1>1, <1>7 DEF AdmitReads, AdmitTimesOut, CleanupJoined, WaitForCleanup, WaitCancelled
  <2>3. v = u
      BY <1>1, <2>2
  <2>4. CASE AdmitReads(u)
    <3>1. use'[u].at = "admitting"
        BY <1>1, <2>1, <2>4 DEF AdmitReads, UseType
    <3> QED
        BY <1>1, <2>3, <3>1
  <2>5. CASE AdmitTimesOut(u) \/ CleanupJoined(u) \/ WaitCancelled(u)
    <3>1. use'[u] = IdleUse
        BY <1>1, <2>5 DEF AdmitTimesOut, CleanupJoined, WaitCancelled
    <3> QED
        BY <1>1, <2>3, <3>1
  <2>6. CASE WaitForCleanup(u)
    <3>1. use'[u] \in {IdleUse, [use[u] EXCEPT !.at = "joins", !.joined = attempt'],
                       [use[u] EXCEPT !.at = "drain"]}
        BY <1>1, <2>6 DEF WaitForCleanup
    <3>2. /\ [use[u] EXCEPT !.at = "joins", !.joined = attempt'].at = "joins"
          /\ [use[u] EXCEPT !.at = "drain"].at = "drain"
        BY <2>1 DEF UseType
    <3> QED
        BY <1>1, <2>3, <3>1, <3>2
  <2> QED
      BY <1>7, <2>4, <2>5, <2>6
<1>8. CleanupEnds => FALSE
    BY <1>1 DEF CleanupEnds
<1>9. ASSUME use' = use PROVE FALSE
    BY <1>9
<1> QED
    BY <1>2, <1>4, <1>5, <1>6, <1>7, <1>8, <1>9 DEF TrustNext, UseStep, SetApproval, Drift

\* A project server is closed only after its last admitted operation, and a
\* revoked one nobody uses is cleaned up; once an approval is withdrawn, or this
\* process has seen that it was, no call is admitted, in whatever order calls,
\* resets, drift and cleanups come (mcp/runtime_authorization.py).
THEOREM TrustStaysSound == TrustSpec => TrustIsSound
<1>1. TrustSpec => []TrustInv
    BY TrustStart, TrustStep, PTL DEF TrustSpec
<1>2. TrustInv => ClosedAfterDrain
    BY DEF TrustInv
<1>3. TrustInv /\ [TrustNext]_trustVars =>
        [\A u \in Users :
            ~UseAt(u, "inside") /\ UseAt(u, "inside")' => approvedFor = "reviewed" /\ ~disabled]_trustVars
    BY OnlyAdmitted, AdmitStep
<1> QED
    BY <1>1, <1>2, <1>3, PTL DEF TrustSpec, TrustIsSound, NothingAfterReset
=============================================================================
