--------------------------- MODULE ServicesProofs ---------------------------
(***************************************************************************)
(* Machine-checked facts about the parts side by side: each keeps to its   *)
(* own specification, so that what is proved of one part holds in the      *)
(* composition, and the variables of all parts keep their types.           *)
(***************************************************************************)
EXTENDS MCServices, TeamTasksProofs, ServerProofs, SessionProofs, StoreProofs

(***************************************************************************)
(* Every part acts by itself.                                              *)
(***************************************************************************)

TeamMoves == [Next]_vars
StoresMove ==
    /\ [TokenNext]_tokenVars /\ [PluginNext]_pluginVars /\ [CheckpointNext]_checkpointVars
    /\ [CandidatesNext]_candidateVars /\ [WorktreeNext]_worktreeVars
SessionsMove ==
    /\ [GoalNext]_goalVars /\ [AgentNext]_agentVars /\ [TranscriptNext]_transcriptVars
    /\ [ApprovalNext]_approvalVars
ServersMove == [LeaseNext]_leaseVars /\ [TrustNext]_trustVars

LEMMA PartsMove ==
    [ServicesNext]_serviceVars => TeamMoves /\ StoresMove /\ SessionsMove /\ ServersMove
<1> SUFFICES ASSUME [ServicesNext]_serviceVars
             PROVE  TeamMoves /\ StoresMove /\ SessionsMove /\ ServersMove
    OBVIOUS
<1> USE DEF TeamMoves, StoresMove, SessionsMove, ServersMove
<1>1. CASE UNCHANGED serviceVars
    BY <1>1 DEF serviceVars
<1>2. CASE part = "team" /\ Next /\ Others("team")
    BY <1>2 DEF Others
<1>3. CASE part = "leases" /\ LeaseNext /\ Others("leases")
    BY <1>3 DEF Others
<1>4. CASE part = "goals" /\ GoalNext /\ Others("goals")
    BY <1>4 DEF Others
<1>5. CASE part = "agents" /\ AgentNext /\ Others("agents")
    BY <1>5 DEF Others
<1>6. CASE part = "tokens" /\ TokenNext /\ Others("tokens")
    BY <1>6 DEF Others
<1>7. CASE part = "plugins" /\ PluginNext /\ Others("plugins")
    BY <1>7 DEF Others
<1>8. CASE part = "checkpoints" /\ Counted /\ CheckpointNext /\ Others("checkpoints")
    BY <1>8 DEF Others
<1>9. CASE part = "candidates" /\ CandidatesNext /\ Others("candidates")
    BY <1>9 DEF Others
<1>10. CASE part = "trust" /\ TrustNext /\ Others("trust")
    BY <1>10 DEF Others
<1>11. CASE part = "transcript" /\ TranscriptNext /\ Others("transcript")
    BY <1>11 DEF Others
<1>12. CASE part = "worktrees" /\ WorktreeNext /\ Others("worktrees")
    BY <1>12 DEF Others
<1>13. CASE part = "approvals" /\ ApprovalNext /\ Roomy' /\ Others("approvals")
    BY <1>13 DEF Others
<1> QED
    BY <1>1, <1>2, <1>3, <1>4, <1>5, <1>6, <1>7, <1>8, <1>9, <1>10, <1>11, <1>12, <1>13
       DEF ServicesNext

\* Side by side, each part behaves as its own specification says (MCServices
\* lets one of them move and holds the others still): what the proof modules
\* show of TeamTasks, ServerLeases, Goals, AgentRuns, TokenRefresh,
\* PluginInstall, Checkpoints, Candidates, ServerTrust, Transcript, Worktrees
\* and Approvals holds of the behaviours that the run explores.
THEOREM PartsKeepTheirSpecs ==
    ServicesSpec =>
        /\ Spec /\ LeaseSpec /\ GoalSpec /\ AgentSpec /\ TokenSpec /\ PluginSpec
        /\ CheckpointSpec /\ CandidatesSpec /\ TrustSpec /\ TranscriptSpec /\ WorktreeSpec
        /\ ApprovalSpec
<1>1. ServicesInit =>
        /\ Init /\ LeaseInit /\ GoalInit /\ AgentInit /\ TokenInit /\ PluginInit
        /\ CheckpointInit /\ CandidatesInit /\ TrustInit /\ TranscriptInit /\ WorktreeInit
        /\ ApprovalInit
    BY DEF ServicesInit
<1>2. [ServicesNext]_serviceVars =>
        /\ [Next]_vars /\ [LeaseNext]_leaseVars /\ [GoalNext]_goalVars /\ [AgentNext]_agentVars
        /\ [TokenNext]_tokenVars /\ [PluginNext]_pluginVars /\ [CheckpointNext]_checkpointVars
        /\ [CandidatesNext]_candidateVars /\ [TrustNext]_trustVars
        /\ [TranscriptNext]_transcriptVars /\ [WorktreeNext]_worktreeVars
        /\ [ApprovalNext]_approvalVars
    BY PartsMove DEF TeamMoves, StoresMove, SessionsMove, ServersMove
<1> QED
    BY <1>1, <1>2, PTL
       DEF ServicesSpec, Spec, LeaseSpec, GoalSpec, AgentSpec, TokenSpec, PluginSpec,
           CheckpointSpec, CandidatesSpec, TrustSpec, TranscriptSpec, WorktreeSpec, ApprovalSpec

(***************************************************************************)
(* The types of the checkpoints.                                           *)
(***************************************************************************)

\* The types, and what bounds the number of snapshots: no two are taken at the
\* same write.
SnapshotsBounded ==
    /\ CheckpointTypeOK
    /\ IsFiniteSet(snapshots)
    /\ inTurn => counter # 0
    /\ \A s \in snapshots : s.taken < writes
    /\ \A s, t \in snapshots : s.taken = t.taken => s = t

Contents == 0 .. MaxWrites
SnapshotType == [taken : Contents, checkpoint : 1 .. MaxTurns, path : Files, blob : Contents]

\* Pruning leaves at most as many snapshots as may be kept.
LEMMA PrunedFits ==
    ASSUME NEW S \in Manifests, IsFiniteSet(S), \A s, t \in S : s.taken = t.taken => s = t
    PROVE  Pruned(S) \subseteq S /\ IsFiniteSet(Pruned(S)) /\ Cardinality(Pruned(S)) <= MaxSnapshots
<1> DEFINE P == Pruned(S)
<1>1. P \subseteq S /\ IsFiniteSet(P) /\ P \in Manifests /\ Cardinality(P) \in Nat
  <2>1. P \subseteq S
    BY DEF Pruned
  <2> QED
    BY <2>1, FS_Subset, FS_CardinalityType DEF Manifests
<1>2. MaxSnapshots \in Nat
  BY CheckpointConstants DEF CheckpointConstants
<1>3. CASE P = {}
  BY <1>1, <1>2, <1>3, FS_EmptySet
<1>4. CASE P # {}
  <2>1. PICK s \in P : \A t \in P : s.taken <= t.taken
    <3> HIDE DEF P
    <3> QED
      BY <1>1, <1>4, LeastTaken
  <2> DEFINE N == {t \in S : t.taken > s.taken}
  <2>2. Cardinality(N) < MaxSnapshots
    BY <2>1 DEF Pruned
  <2>3. P \ {s} \subseteq N
    <3> SUFFICES ASSUME NEW t \in P \ {s} PROVE t.taken > s.taken /\ t \in S
      OBVIOUS
    <3>1. t \in S /\ s \in S /\ t.taken \in Nat /\ s.taken \in Nat
      BY <1>1, <2>1 DEF Manifests
    <3>2. s.taken <= t.taken /\ s.taken # t.taken
      BY <2>1, <3>1
    <3> QED
      BY <3>1, <3>2
  <2>4. IsFiniteSet(N) /\ Cardinality(N) \in Nat
    BY FS_Subset, FS_CardinalityType
  <2> HIDE DEF P, N
  <2>5. Cardinality(P \ {s}) <= Cardinality(N)
    BY <2>3, <2>4, FS_Subset
  <2>6. Cardinality(P \ {s}) = Cardinality(P) - 1
    BY <1>1, <2>1, FS_RemoveElement
  <2> QED
    BY <1>1, <1>2, <2>2, <2>4, <2>5, <2>6 DEF P
<1> QED
  BY <1>1, <1>3, <1>4

\* The files as a restore leaves them.
LEMMA RestoredType ==
    ASSUME CheckpointTypeOK, NEW k \in Nat, NEW failed
    PROVE  Restored(k, failed) \in [Files -> Contents]
<1>1. snapshots \in Manifests /\ disk \in [Files -> Contents] /\ \A s \in snapshots : s.blob \in Contents
  BY CheckpointConstants DEF CheckpointTypeOK, CheckpointConstants, Manifests, Contents
<1> SUFFICES ASSUME NEW f \in Files, f \in Tracked(k) \ failed PROVE Earliest(f, k).blob \in Contents
  BY <1>1 DEF Restored
<1> QED
  BY <1>1, EarliestFacts DEF From

\* Trimming keeps the prompts from the first on.
LEMMA TrimmedFromOne ==
    ASSUME NEW S \in SUBSET Nat, 0 \notin S, NEW n \in Nat
    PROVE  {i \in S : i < n} = {i - 1 + 1 : i \in S \cap (1 .. n - 1)}
<1>1. \A i \in S : i - 1 + 1 = i /\ (i < n <=> i \in 1 .. n - 1)
  OBVIOUS
<1> QED
  BY <1>1

LEMMA SnapshotsStart == CheckpointInit => SnapshotsBounded
<1> SUFFICES ASSUME CheckpointInit PROVE SnapshotsBounded
  OBVIOUS
<1>1. /\ MaxWrites \in Nat /\ MaxTurns \in Nat /\ MaxPrompts \in Nat /\ MaxSnapshots \in Nat
  BY CheckpointConstants DEF CheckpointConstants
<1>2. /\ prompts = <<>> /\ snapshots = {} /\ prompts \in Seq([Files -> 0 .. MaxWrites])
      /\ Len(prompts) = 0 /\ disk \in [Files -> 0 .. MaxWrites]
  BY <1>1, EmptySeq DEF CheckpointInit, Tombstone
<1>3. IsFiniteSet(snapshots) /\ Cardinality(snapshots) = 0
  BY <1>2, FS_EmptySet
<1>4. 0 \in 0 .. MaxWrites /\ 0 \in 0 .. MaxTurns /\ 0 <= MaxPrompts /\ 0 <= MaxSnapshots
  BY <1>1
<1>5. /\ writes = 0 /\ counter = 0 /\ inTurn = FALSE /\ missing = {} /\ skew = "none"
      /\ undone = {}
  BY DEF CheckpointInit
<1>6. CheckpointTypeOK
  BY <1>2, <1>3, <1>4, <1>5 DEF CheckpointTypeOK
<1> QED
  BY <1>2, <1>3, <1>5, <1>6 DEF SnapshotsBounded

LEMMA SnapshotsStayBounded == SnapshotsBounded /\ [CheckpointNext]_checkpointVars => SnapshotsBounded'
<1> SUFFICES ASSUME SnapshotsBounded, [CheckpointNext]_checkpointVars PROVE SnapshotsBounded'
  OBVIOUS
<1>1. /\ MaxWrites \in Nat /\ MaxTurns \in Nat /\ MaxPrompts \in Nat /\ MaxSnapshots \in Nat
  BY CheckpointConstants DEF CheckpointConstants
<1>2. /\ disk \in [Files -> Contents] /\ writes \in Contents /\ counter \in 0 .. MaxTurns
      /\ snapshots \subseteq SnapshotType /\ snapshots \in Manifests /\ IsFiniteSet(snapshots)
      /\ Cardinality(snapshots) <= MaxSnapshots /\ Cardinality(snapshots) \in Nat
      /\ prompts \in Seq([Files -> Contents]) /\ Len(prompts) \in 0 .. MaxPrompts
      /\ DOMAIN prompts = 1 .. Len(prompts)
      /\ missing \subseteq Files /\ skew \in {"none", "both", "other"} /\ inTurn \in BOOLEAN
      /\ undone \subseteq 1 .. Len(prompts)
  BY <1>1, FS_CardinalityType, LenProperties
     DEF SnapshotsBounded, CheckpointTypeOK, SnapshotType, Contents, Manifests
<1>3. /\ inTurn => counter # 0
      /\ \A s \in snapshots : s.taken < writes
      /\ \A s, t \in snapshots : s.taken = t.taken => s = t
  BY DEF SnapshotsBounded
\* A change of anything but the snapshots.
<1>4. ASSUME disk' \in [Files -> Contents], writes' = writes, counter' \in 0 .. MaxTurns,
             snapshots' \subseteq snapshots, inTurn' \in BOOLEAN, inTurn' => counter' # 0,
             prompts' \in Seq([Files -> Contents]), Len(prompts') <= MaxPrompts,
             undone' \subseteq 1 .. Len(prompts'),
             missing' \subseteq Files, skew' \in {"none", "both", "other"}
      PROVE  SnapshotsBounded'
  <2>1. IsFiniteSet(snapshots') /\ Cardinality(snapshots') <= Cardinality(snapshots)
        /\ Cardinality(snapshots') \in Nat
    BY <1>2, <1>4, FS_Subset, FS_CardinalityType
  <2>2. Cardinality(snapshots') <= MaxSnapshots
    BY <1>1, <1>2, <2>1
  <2>3. undone' \subseteq DOMAIN prompts'
    BY <1>4, LenProperties
  <2>4. CheckpointTypeOK'
    BY <1>2, <1>4, <2>2, <2>3 DEF CheckpointTypeOK, Contents, SnapshotType
  <2>5. /\ \A s \in snapshots' : s.taken < writes'
        /\ \A s, t \in snapshots' : s.taken = t.taken => s = t
    BY <1>3, <1>4
  <2> QED
    BY <1>4, <2>1, <2>4, <2>5 DEF SnapshotsBounded
<1>5. CASE TurnBegins \/ TurnContinues
  <2>1. /\ prompts' = Append(prompts, disk) /\ Len(prompts) < MaxPrompts
        /\ UNCHANGED <<disk, writes, snapshots, undone, missing>>
        /\ counter' \in 0 .. MaxTurns /\ counter' # 0 /\ inTurn' \in BOOLEAN
        /\ skew' \in {"none", "both", "other"}
    <3>1. CASE TurnBegins
      <4>1. counter < MaxTurns /\ counter' = counter + 1 /\ inTurn' = TRUE /\ skew' = skew
        BY <3>1 DEF TurnBegins
      <4>2. counter' \in 0 .. MaxTurns /\ counter' # 0
        BY <1>1, <1>2, <4>1
      <4> QED
        BY <1>2, <3>1, <4>1, <4>2 DEF TurnBegins
    <3>2. CASE TurnContinues
      BY <1>2, <1>3, <3>2 DEF TurnContinues
    <3> QED
      BY <1>5, <3>1, <3>2
  <2>2. /\ prompts' \in Seq([Files -> Contents]) /\ Len(prompts') <= MaxPrompts
        /\ undone' \subseteq 1 .. Len(prompts')
    BY <1>1, <1>2, <2>1, AppendProperties
  <2> QED
    BY <1>2, <1>4, <2>1, <2>2
<1>6. CASE TurnEnds \/ Restarts \/ UNCHANGED checkpointVars
  <2>1. /\ UNCHANGED <<disk, writes, snapshots, undone, missing, prompts>>
        /\ counter' \in 0 .. MaxTurns /\ inTurn' \in BOOLEAN /\ (inTurn' => counter' # 0)
        /\ skew' \in {"none", "both", "other"}
    <3>1. CASE TurnEnds \/ UNCHANGED checkpointVars
      <4>1. /\ UNCHANGED <<disk, writes, counter, snapshots, undone, missing, prompts, skew>>
            /\ inTurn' = FALSE \/ inTurn' = inTurn
        BY <3>1 DEF TurnEnds, checkpointVars
      <4>2. counter' = counter /\ skew' = skew
        BY <4>1
      <4>3. inTurn' \in BOOLEAN /\ (inTurn' => inTurn)
        <5>1. CASE inTurn' = FALSE
          BY <5>1
        <5>2. CASE inTurn' = inTurn
          BY <1>2, <5>2
        <5> QED
          BY <4>1, <5>1, <5>2
      <4> QED
        BY <1>2, <1>3, <4>1, <4>2, <4>3
    <3>2. CASE Restarts
      <4>1. 0 \in 0 .. MaxTurns
        BY <1>1
      <4> QED
        BY <3>2, <4>1 DEF Restarts
    <3> QED
      BY <1>6, <3>1, <3>2
  <2> QED
    BY <1>2, <1>4, <2>1
\* The prompts from m to n, numbered from 1.
<1>7. ASSUME NEW m \in 1 .. Len(prompts) + 1, NEW n \in 0 .. Len(prompts),
             prompts' = SubSeq(prompts, m, n),
             undone' = {i - m + 1 : i \in undone \cap (m .. n)}
      PROVE  /\ prompts' \in Seq([Files -> Contents]) /\ Len(prompts') <= MaxPrompts
             /\ undone' \subseteq 1 .. Len(prompts')
  <2>1. /\ SubSeq(prompts, m, n) \in Seq([Files -> Contents])
        /\ Len(SubSeq(prompts, m, n)) = IF m <= n THEN n - m + 1 ELSE 0
    BY <1>2, SubSeqProperties
  <2> QED
    BY <1>1, <1>2, <1>7, <2>1
<1>8. CASE Compacts \/ \E n \in DOMAIN prompts : RewindConversation(n)
  <2>1. /\ UNCHANGED <<disk, writes, inTurn, counter, snapshots, missing>> /\ skew' = "other"
    BY <1>8 DEF Compacts, RewindConversation
  <2>2. \E m \in 1 .. Len(prompts) + 1, n \in 0 .. Len(prompts) :
            /\ prompts' = SubSeq(prompts, m, n)
            /\ undone' = {i - m + 1 : i \in undone \cap (m .. n)}
    <3>1. CASE Compacts
      <4>1. PICK n \in 2 .. Len(prompts) :
                /\ prompts' = SubSeq(prompts, n, Len(prompts))
                /\ undone' = {i - n + 1 : i \in undone \cap (n .. Len(prompts))}
        BY <3>1 DEF Compacts
      <4>2. n \in 1 .. Len(prompts) + 1 /\ Len(prompts) \in 0 .. Len(prompts)
        BY <1>2, <4>1
      <4> QED
        BY <4>1, <4>2
    <3>2. CASE \E n \in DOMAIN prompts : RewindConversation(n)
      <4>1. PICK n \in 1 .. Len(prompts) : Trim(n)
        BY <1>2, <3>2 DEF RewindConversation
      <4>2. 1 \in 1 .. Len(prompts) + 1 /\ n - 1 \in 0 .. Len(prompts)
        BY <1>2, <4>1
      <4>3. undone' = {i - 1 + 1 : i \in undone \cap (1 .. n - 1)}
        BY <1>2, <4>1, TrimmedFromOne DEF Trim
      <4> QED
        BY <4>1, <4>2, <4>3 DEF Trim
    <3> QED
      BY <1>8, <3>1, <3>2
  <2> QED
    BY <1>2, <1>3, <1>4, <1>7, <2>1, <2>2
<1>9. ASSUME NEW f \in Files, Edits(f) PROVE SnapshotsBounded'
  <2>1. /\ inTurn /\ writes < MaxWrites /\ writes' = writes + 1
        /\ disk' = [disk EXCEPT ![f] = writes + 1]
        /\ UNCHANGED <<inTurn, counter, prompts, undone, skew>>
    BY <1>9 DEF Edits
  <2>2. writes' \in Contents /\ disk' \in [Files -> Contents] /\ writes \in Nat
    BY <1>1, <1>2, <2>1 DEF Contents
  <2>3. /\ Snapshot(f) \in SnapshotType /\ Snapshot(f).taken = writes
    <3>1. counter \in 1 .. MaxTurns /\ disk[f] \in Contents
      BY <1>2, <1>3, <2>1
    <3> QED
      BY <1>2, <3>1 DEF Snapshot, SnapshotType
  <2>4. /\ Recorded(f) \subseteq SnapshotType
        /\ \A s \in Recorded(f) : s \in snapshots \/ s = Snapshot(f)
        /\ IsFiniteSet(Recorded(f))
    <3>1. Recorded(f) = snapshots \/ Recorded(f) = snapshots \cup {Snapshot(f)}
      BY DEF Recorded
    <3> QED
      BY <1>2, <2>3, <3>1, FS_AddElement
  <2>5. \A s \in snapshots : s.taken \in Nat
    BY <1>2 DEF Manifests
  <2>6. \A s, t \in Recorded(f) : s.taken = t.taken => s = t
    BY <1>3, <2>2, <2>3, <2>4, <2>5
  <2>7. \A s \in Recorded(f) : s.taken < writes'
    BY <1>3, <2>1, <2>2, <2>3, <2>4, <2>5
  <2>8. Recorded(f) \in Manifests
    BY <1>1, <2>4 DEF Manifests, SnapshotType, Contents
  <2>9. snapshots' \subseteq Recorded(f) /\ IsFiniteSet(snapshots') /\ Cardinality(snapshots') <= MaxSnapshots
    <3>1. CASE snapshots' = Pruned(Recorded(f))
      BY <2>4, <2>6, <2>8, <3>1, PrunedFits
    <3>2. CASE UNCHANGED snapshots
      BY <1>2, <3>2 DEF Recorded
    <3> QED
      BY <1>9, <3>1, <3>2 DEF Edits
  <2>10. missing' \subseteq Files
    <3>1. \A s \in Recorded(f) : s.path \in Files
      BY <2>4 DEF SnapshotType
    <3> QED
      BY <1>2, <1>9, <3>1 DEF Edits
  <2>11. CheckpointTypeOK'
    BY <1>2, <2>1, <2>2, <2>4, <2>9, <2>10 DEF CheckpointTypeOK, Contents, SnapshotType
  <2> QED
    BY <1>3, <2>1, <2>6, <2>7, <2>9, <2>11 DEF SnapshotsBounded
<1>10. ASSUME NEW n \in DOMAIN prompts, NEW both \in BOOLEAN, NEW failed \in SUBSET Files,
              Rewind(n, both, failed)
       PROVE  SnapshotsBounded'
  <2>1. n \in 1 .. Len(prompts) /\ n - 1 \in Nat /\ n - 1 \in 0 .. Len(prompts)
    BY <1>2
  <2>2. /\ disk' = Restored(n - 1, failed) /\ snapshots' \subseteq snapshots
        /\ missing' = missing \cup failed /\ UNCHANGED <<writes, inTurn, counter>>
    BY <1>10 DEF Rewind, RewindCode, Remaining
  <2>3. disk' \in [Files -> Contents]
    BY <2>1, <2>2, RestoredType DEF SnapshotsBounded
  <2>4. skew' \in {"none", "both", "other"}
    BY <1>2, <1>10 DEF Rewind
  <2>5. /\ prompts' \in Seq([Files -> Contents]) /\ Len(prompts') <= MaxPrompts
        /\ undone' \subseteq 1 .. Len(prompts')
    <3>1. CASE both
      <4>1. Trim(n) /\ 1 \in 1 .. Len(prompts) + 1
        BY <1>2, <1>10, <3>1 DEF Rewind
      <4>2. undone' = {i - 1 + 1 : i \in undone \cap (1 .. n - 1)}
        BY <1>2, <2>1, <4>1, TrimmedFromOne DEF Trim
      <4> QED
        BY <1>7, <2>1, <4>1, <4>2 DEF Trim
    <3>2. CASE ~both
      <4>1. /\ prompts' = prompts /\ undone' = undone \cup {i \in DOMAIN prompts : i > n}
        BY <1>10, <3>2 DEF Rewind
      <4>2. undone' \subseteq 1 .. Len(prompts)
        BY <1>2, <4>1
      <4> QED
        BY <1>1, <1>2, <4>1, <4>2
    <3> QED
      BY <3>1, <3>2
  <2> QED
    BY <1>2, <1>3, <1>4, <2>2, <2>3, <2>4, <2>5
<1> QED
  BY <1>5, <1>6, <1>8, <1>9, <1>10 DEF CheckpointNext

LEMMA CheckpointsStayTyped == CheckpointSpec => []CheckpointTypeOK
<1>1. SnapshotsBounded => CheckpointTypeOK
    BY DEF SnapshotsBounded
<1> QED
    BY <1>1, SnapshotsStart, SnapshotsStayBounded, PTL DEF CheckpointSpec

(***************************************************************************)
(* The types of the approvals.                                             *)
(***************************************************************************)

\* What the proof of the approvals had no use for: the modes, and that a call
\* that is over leaves nothing behind.
SessionsTyped ==
    /\ mode \in [Terminals -> Modes] /\ planning \in [Terminals -> BOOLEAN]
    /\ \A i \in AskedCalls : CallAt(i, "new") => call[i] = NotAsked

ModesKept == UNCHANGED <<mode, planning>>
OneCallMoves ==
    \/ UNCHANGED call
    \/ \E i \in AskedCalls, after \in CallType \cup {NotAsked} :
          /\ after = NotAsked \/ after.at # "new"
          /\ call' = [call EXCEPT ![i] = after]

LEMMA OneCallKeeps ==
    ASSUME SessionsTyped, ModesKept, OneCallMoves, call \in [AskedCalls -> CallType]
    PROVE  SessionsTyped'
<1>1. ASSUME NEW i \in AskedCalls, NEW after, after = NotAsked \/ after.at # "new",
             call' = [call EXCEPT ![i] = after], NEW j \in AskedCalls, CallAt(j, "new")'
      PROVE  call'[j] = NotAsked
    BY <1>1 DEF SessionsTyped, CallAt
<1>2. \A j \in AskedCalls : CallAt(j, "new")' => call'[j] = NotAsked
    BY <1>1 DEF OneCallMoves, SessionsTyped, CallAt
<1> QED
    BY <1>2 DEF SessionsTyped, ModesKept

LEMMA QuestionMoves ==
    ASSUME NEW i \in AskedCalls, NEW s, NEW asked0 \in CallType, mounted[s] \in BOOLEAN,
           Question(i, s, asked0)
    PROVE  OneCallMoves
<1>1. CASE \E after \in {NotAsked, [asked0 EXCEPT !.at = "runs"]} : call' = [call EXCEPT ![i] = after]
  <2>1. [asked0 EXCEPT !.at = "runs"] \in CallType /\ [asked0 EXCEPT !.at = "runs"].at = "runs"
      BY DEF CallType
  <2> QED
      BY <1>1, <2>1 DEF OneCallMoves
<1>2. ASSUME NEW at \in {"reading", "shown", "waiting"},
             call' = [call EXCEPT ![i] = [asked0 EXCEPT !.at = at, !.current = mounted[s]]]
      PROVE  OneCallMoves
  <2> DEFINE after == [asked0 EXCEPT !.at = at, !.current = mounted[s]]
  <2>1. after \in CallType /\ after.at = at
      BY DEF CallType, InLine
  <2>2. at # "new" /\ call' = [call EXCEPT ![i] = after]
      BY <1>2
  <2> HIDE DEF after
  <2> QED
      BY <2>1, <2>2 DEF OneCallMoves
<1> QED
    BY <1>1, <1>2 DEF Question

LEMMA OutOfDate == [NotAsked EXCEPT !.current = FALSE] = NotAsked
<1> DEFINE fields == {"at", "by", "cmd", "asked", "current", "said"}
<1> SUFFICES ASSUME NEW r, r = NotAsked PROVE [r EXCEPT !.current = FALSE] = NotAsked
    OBVIOUS
<1>1. DOMAIN r = fields /\ r.current = FALSE /\ r = [f \in fields |-> r[f]]
    BY DEF NotAsked
<1> QED
    BY <1>1

LEMMA ModesStep == ApprovalInv /\ SessionsTyped /\ [ApprovalNext]_approvalVars => SessionsTyped'
<1> SUFFICES ASSUME ApprovalInv, SessionsTyped, [ApprovalNext]_approvalVars PROVE SessionsTyped'
    OBVIOUS
<1>1. /\ call \in [AskedCalls -> CallType] /\ mounted \in [Terminals -> BOOLEAN]
      /\ mode \in [Terminals -> Modes] /\ planning \in [Terminals -> BOOLEAN]
      /\ \A i \in AskedCalls : ~CallAt(i, "new") => call[i].by \in Terminals
    BY DEF ApprovalInv, CallsJudged, LineKept, RulesKnown, SessionsTyped, CallAt
<1>2. ModesKept /\ OneCallMoves => SessionsTyped'
    BY <1>1, OneCallKeeps
\* One call goes to after.
<1>3. ASSUME NEW i \in AskedCalls, NEW after,
             after = NotAsked \/ (after \in CallType /\ after.at # "new"),
             call' = [call EXCEPT ![i] = after]
      PROVE  OneCallMoves
    BY <1>3 DEF OneCallMoves
<1>4. CASE UNCHANGED approvalVars
    BY <1>2, <1>4 DEF approvalVars, ModesKept, OneCallMoves
<1>5. ASSUME NEW s \in Terminals, SessionStarts(s) PROVE SessionsTyped'
  <2>1. PICK m \in StartModes : mode' = [mode EXCEPT ![s] = m]
      BY <1>5 DEF SessionStarts
  <2>2. m \in Modes
      BY ApprovalConstants DEF ApprovalConstants
  <2> QED
      BY <1>1, <1>5, <2>1, <2>2 DEF SessionStarts, SessionsTyped, CallAt
<1>6. ASSUME NEW s \in Terminals, SessionEnds(s) PROVE SessionsTyped'
    BY <1>1, <1>6 DEF SessionEnds, NoSession, SessionsTyped, CallAt, Modes
<1>7. ASSUME NEW s \in Terminals, PlanToggles(s) PROVE SessionsTyped'
    BY <1>1, <1>7 DEF PlanToggles, SessionsTyped, CallAt
<1>8. ASSUME NEW s \in Terminals, PromptOpens(s) PROVE SessionsTyped'
    BY <1>8 DEF PromptOpens, SessionsTyped, CallAt
<1>9. ASSUME NEW s \in Terminals, PromptCloses(s) PROVE SessionsTyped'
  <2>1. /\ call' = FailedClosed(s) /\ UNCHANGED <<mode, planning>>
      BY <1>9 DEF PromptCloses
  <2>2. ASSUME NEW i \in AskedCalls, CallAt(i, "new")' PROVE call'[i] = NotAsked
    <3>1. call[i] \in CallType
        BY <1>1
    <3>2. CASE call[i].by # s
        BY <2>1, <2>2, <3>2 DEF FailedClosed, SessionsTyped, CallAt
    <3>3. CASE call[i].by = s /\ CallAt(i, "shown")
        BY <2>1, <2>2, <3>1, <3>3 DEF FailedClosed, CallAt, CallType
    <3>4. CASE call[i].by = s /\ ~CallAt(i, "shown")
      <4>1. call'[i] = [call[i] EXCEPT !.current = FALSE]
          BY <2>1, <3>4 DEF FailedClosed
      <4>2. CallAt(i, "new")
          BY <2>2, <3>1, <4>1 DEF CallAt, CallType
      <4>3. call[i] = NotAsked
          BY <4>2 DEF SessionsTyped
      <4>4. [NotAsked EXCEPT !.current = FALSE] = NotAsked
          BY OutOfDate
      <4> QED
          BY <4>1, <4>3, <4>4
    <3> QED
        BY <3>2, <3>3, <3>4
  <2> QED
      BY <2>1, <2>2 DEF SessionsTyped
<1>10. ASSUME NEW i \in AskedCalls, NEW s \in Terminals, NEW c \in Commands, CallJudged(i, s, c)
       PROVE  SessionsTyped'
  <2>1. ModesKept
      BY <1>10 DEF CallJudged, RulesUnchanged, ModesKept
  <2> DEFINE judged == [NotAsked EXCEPT !.by = s, !.cmd = c, !.asked = Verdict(s, c) = "ask"]
  <2>2. judged \in CallType
      BY DEF CallType, NotAsked
  <2>3. \A at \in {"judged", "runs"} :
            [judged EXCEPT !.at = at] \in CallType /\ [judged EXCEPT !.at = at].at # "new"
    <3> HIDE DEF judged
    <3> QED
        BY <2>2, JudgedPlaced
  <2> HIDE DEF judged
  <2>4. \/ Question(i, s, judged)
        \/ \E at \in {"judged", "runs"} : call' = [call EXCEPT ![i] = [judged EXCEPT !.at = at]]
        \/ UNCHANGED call
      BY <1>10, Verdicts DEF CallJudged, judged
  <2>5. Question(i, s, judged) => OneCallMoves
      BY <1>1, <2>2, QuestionMoves
  <2>6. (\E at \in {"judged", "runs"} : call' = [call EXCEPT ![i] = [judged EXCEPT !.at = at]])
            => OneCallMoves
      BY <1>3, <2>3
  <2> QED
      BY <1>2, <2>1, <2>4, <2>5, <2>6 DEF OneCallMoves
<1>11. ASSUME NEW i \in AskedCalls, NEW said \in Replies, ActedOn(i, said), ~CallAt(i, "new")
       PROVE  SessionsTyped'
  <2>1. [call[i] EXCEPT !.at = "runs", !.said = "none", !.current = FALSE] \in CallType
        /\ [call[i] EXCEPT !.at = "runs", !.said = "none", !.current = FALSE].at = "runs"
      BY <1>1 DEF CallType
  <2>2. OneCallMoves
    <3>1. CASE said = "deny"
        BY <1>3, <1>11, <3>1 DEF ActedOn
    <3>2. CASE said # "deny"
        BY <1>1, <1>3, <1>11, <2>1, <3>2 DEF ActedOn
    <3> QED
        BY <3>1, <3>2
  <2> QED
      BY <1>2, <1>11, <2>2 DEF ActedOn, ModesKept
<1>12. ASSUME NEW i \in AskedCalls, NEW said \in Replies, Answers(i, said) \/ ReadsAnswer(i, said)
       PROVE  SessionsTyped'
  <2>1. CASE Answers(i, said)
    <3>1. call[i] \in CallType
        BY <1>1
    <3>2. call' = [call EXCEPT ![i] = [call[i] EXCEPT !.at = "answered", !.said = said]]
        BY <1>1, <2>1, <3>1 DEF Answers, CallType
    <3>3. /\ [call[i] EXCEPT !.at = "answered", !.said = said] \in CallType
          /\ [call[i] EXCEPT !.at = "answered", !.said = said].at = "answered"
        BY <3>1 DEF CallType, InLine
    <3> QED
        BY <1>2, <1>3, <2>1, <3>2, <3>3 DEF Answers, RulesUnchanged, ModesKept
  <2>2. CASE ReadsAnswer(i, said)
      BY <1>11, <2>2 DEF ReadsAnswer, CallAt
  <2> QED
      BY <1>12, <2>1, <2>2
<1>13. ASSUME NEW i \in AskedCalls, Classified(i) PROVE SessionsTyped'
  <2>1. call[i] \in CallType /\ mounted[call[i].by] \in BOOLEAN
      BY <1>1, <1>13 DEF Classified, CallAt
  <2>2. OneCallMoves
      BY <1>3, <1>13, <2>1, QuestionMoves DEF Classified
  <2> QED
      BY <1>2, <1>13, <2>2 DEF Classified, RulesUnchanged, ModesKept
<1>14. ASSUME NEW i \in AskedCalls, Acquires(i) PROVE SessionsTyped'
  <2>1. [call[i] EXCEPT !.at = "shown"] \in CallType /\ [call[i] EXCEPT !.at = "shown"].at = "shown"
      BY <1>1 DEF CallType, InLine
  <2>2. \E after \in {NotAsked, [call[i] EXCEPT !.at = "shown"]} : call' = [call EXCEPT ![i] = after]
      BY <1>1, <1>14 DEF Acquires
  <2> QED
      BY <1>2, <1>3, <1>14, <2>1, <2>2 DEF Acquires, RulesUnchanged, ModesKept
<1>15. ASSUME NEW i \in AskedCalls, ActsOnAnswer(i) PROVE SessionsTyped'
  <2>1. /\ call[i] \in CallType /\ CallAt(i, "answered") /\ ~CallAt(i, "new")
        /\ ActedOn(i, call[i].said)
      BY <1>1, <1>15 DEF ActsOnAnswer, CallAt
  <2>2. CASE call[i].said \in Replies
      BY <1>11, <2>1, <2>2
  <2>3. CASE call[i].said \notin Replies
    <3>1. call[i].said = "none"
        BY <2>1, <2>3 DEF CallType
    <3>2. [call[i] EXCEPT !.at = "runs", !.said = "none", !.current = FALSE] \in CallType
          /\ [call[i] EXCEPT !.at = "runs", !.said = "none", !.current = FALSE].at = "runs"
        BY <2>1 DEF CallType
    <3>3. /\ call' = [call EXCEPT ![i] =
                          [call[i] EXCEPT !.at = "runs", !.said = "none", !.current = FALSE]]
          /\ ModesKept
        BY <1>1, <2>1, <3>1 DEF ActedOn, ModesKept
    <3> QED
        BY <1>2, <1>3, <3>2, <3>3
  <2> QED
      BY <2>2, <2>3
<1>16. ASSUME NEW i \in AskedCalls, CallOver(i) PROVE SessionsTyped'
    BY <1>2, <1>3, <1>16 DEF CallOver, RulesUnchanged, ModesKept
<1> QED
    BY <1>4, <1>5, <1>6, <1>7, <1>8, <1>9, <1>10, <1>12, <1>13, <1>14, <1>15, <1>16
       DEF ApprovalNext

LEMMA ApprovalsStayTyped == ApprovalSpec => []ApprovalTypeOK
<1>1. ApprovalInit => SessionsTyped
  <2> SUFFICES ASSUME ApprovalInit PROVE SessionsTyped
      OBVIOUS
  <2> QED
      BY DEF ApprovalInit, SessionsTyped, Modes
<1>2. ApprovalInv /\ SessionsTyped => ApprovalTypeOK
  <2> SUFFICES ASSUME ApprovalInv, SessionsTyped PROVE ApprovalTypeOK
      OBVIOUS
  <2>1. /\ live \subseteq Terminals /\ mode \in [Terminals -> Modes]
        /\ planning \in [Terminals -> BOOLEAN] /\ rules \in [Terminals -> SUBSET RuleType]
        /\ mounted \in [Terminals -> BOOLEAN] /\ stored \subseteq RuleType
        /\ granted \subseteq Commands /\ apart \in BOOLEAN
      BY DEF ApprovalInv, LineKept, RulesKnown, SessionsTyped
  <2>2. ASSUME NEW s \in Terminals, NEW k \in DOMAIN line[s] PROVE line[s][k] \in AskedCalls
    <3>1. line[s] \in Seq(AskedCalls)
        BY DEF ApprovalInv, LineKept
    <3> QED
        BY <2>2, <3>1, ElementOfSeq, LenProperties
  <2>3. ASSUME NEW i \in AskedCalls, call[i] # NotAsked
        PROVE  /\ call[i].by \in live /\ call[i].cmd \in Commands
               /\ call[i].at \in {"judged", "waiting", "shown", "answered", "reading", "runs"}
               /\ call[i].asked \in BOOLEAN /\ call[i].current \in BOOLEAN
               /\ call[i].said \in Replies \cup {"none"}
    <3>1. call[i] \in CallType /\ call[i].at # "new"
        BY <2>3 DEF ApprovalInv, CallsJudged, SessionsTyped, CallAt
    <3>2. call[i].by \in live /\ call[i].cmd \in Commands
        BY <3>1 DEF ApprovalInv, CallsJudged
    <3> QED
        BY <3>1, <3>2 DEF CallType, InLine
  <2> QED
      BY <2>1, <2>2, <2>3 DEF ApprovalTypeOK
<1> QED
    BY <1>1, <1>2, ApprovalStart, ApprovalStep, ModesStep, PTL DEF ApprovalSpec

(***************************************************************************)
(* The types of the transcript: the faults are counted.                    *)
(***************************************************************************)

FaultsCounted == storeFaults \in 0 .. MaxStoreFaults

LEMMA FaultsStep == FaultsCounted /\ [TranscriptNext]_transcriptVars => FaultsCounted'
<1> SUFFICES ASSUME FaultsCounted, [TranscriptNext]_transcriptVars PROVE FaultsCounted'
    OBVIOUS
<1>1. MaxStoreFaults \in Nat
    BY TranscriptConstants DEF TranscriptConstants
<1>2. UNCHANGED storeFaults \/ Fault => FaultsCounted'
  <2>1. CASE UNCHANGED storeFaults
      BY <2>1 DEF FaultsCounted
  <2>2. CASE Fault
      BY <1>1, <2>2 DEF Fault, FaultsCounted
  <2> QED
      BY <2>1, <2>2
<1>3. CASE UNCHANGED transcriptVars
    BY <1>2, <1>3 DEF transcriptVars
<1>4. CASE SdkNext
    BY <1>2, <1>4 DEF SdkNext, SdkSavesInput, SdkSavesCall, SdkSavesOutput, SdkSettles
<1>5. CASE FrontNext
  <2>1. CASE TurnRepairs
      BY <1>2, <2>1 DEF TurnRepairs
  <2>2. CASE TurnAsked
      BY <1>2, <2>2 DEF TurnAsked
  <2>3. CASE TurnSettles \/ TurnRuns \/ TurnRejected \/ TurnAnswered \/ TurnOverflows \/ TurnOver
      BY <1>2, <2>3 DEF TurnSettles, TurnRuns, TurnRejected, TurnAnswered, TurnOverflows, TurnOver,
                        Counters
  <2>4. CASE \/ TurnCompacts \/ CompactCommand \/ CompactReads \/ CompactSummarized
             \/ RewindCommand \/ SummaryCancelled
      BY <1>2, <2>4 DEF TurnCompacts, CompactCommand, CompactReads, CompactSummarized,
                        RewindCommand, SummaryCancelled, Counters
  <2> QED
      BY <1>5, <2>1, <2>2, <2>3, <2>4 DEF FrontNext
<1>6. CASE WorkerNext
    BY <1>2, <1>6 DEF WorkerNext, WorkerDecides, WorkerCommits, WorkerFails, Counters
<1>7. CASE ReplaceNext
    BY <1>2, <1>7 DEF ReplaceNext, ReplaceSucceeds, ReplaceCancelled, ReplaceFails, FrontCancelled,
                      Counters
<1> QED
    BY <1>3, <1>4, <1>5, <1>6, <1>7 DEF TranscriptNext

LEMMA TranscriptStaysTyped == TranscriptSpec => []TranscriptTypeOK
<1>1. TranscriptInit => FaultsCounted
    BY TranscriptConstants DEF TranscriptInit, FaultsCounted, TranscriptConstants
<1>2. TranscriptInv /\ FaultsCounted => TranscriptTypeOK
  <2> SUFFICES ASSUME TranscriptTyped, FaultsCounted PROVE TranscriptTypeOK
      BY DEF TranscriptInv
  <2>1. \A items \in Seq(Items) : Range(items) \subseteq Items
      BY ItemsOfSeq
  <2>2. front.seen \in Seq(Items) /\ front.next \in Seq(Items)
      BY DEF TranscriptTyped, FrontRecords
  <2>3. Range(history) \subseteq Items /\ Range(front.seen) \subseteq Items
        /\ Range(front.next) \subseteq Items
      BY <2>1, <2>2 DEF TranscriptTyped
  <2>4. front.at \in FrontPlaces /\ front.job \in Jobs /\ front.cancelled \in BOOLEAN
      BY DEF TranscriptTyped, FrontRecords
  <2> QED
      BY <2>3, <2>4 DEF TranscriptTyped, FaultsCounted, TranscriptTypeOK, FrontPlaces
<1> QED
    BY <1>1, <1>2, TranscriptStart, TranscriptStep, FaultsStep, PTL DEF TranscriptSpec

(***************************************************************************)
(* The types of the other parts are in their invariants.                   *)
(***************************************************************************)

LEMMA TokensStayTyped == TokenSpec => []TokenTypeOK
<1>1. TokenInv => TokenTypeOK
  <2> SUFFICES ASSUME TokenInv PROVE TokenTypeOK
      OBVIOUS
  <2> DEFINE CallRecords ==
          [at : {"idle", "lease", "reread", "request", "commit", "models"},
           input : Tokens \cup {NoToken}, rotated : Tokens \cup {NoToken}, show : BOOLEAN]
  <2>1. caller = [c \in Callers |-> caller[c]] /\ refreshLease \in Callers \cup {NoCaller}
      BY DEF TokenInv, CallsAreSound
  <2>2. \A c \in Callers : caller[c] \in CallRecords
      BY DEF TokenInv, CallsAreSound, CallIsSound
  <2> HIDE DEF CallRecords
  <2>3. caller \in [Callers -> CallRecords]
      BY <2>1, <2>2
  <2>4. /\ plain \in [token : Tokens, marked : BOOLEAN] \cup {NoFile}
        /\ keychain \in Tokens \cup {NoToken}
      BY DEF TokenInv, StoreIsSound
  <2>5. /\ issuedTokens \in 0 .. MaxTokens /\ used \subseteq TokenIds
        /\ expired \subseteq TokenIds /\ fromLogin \subseteq TokenIds
        /\ mac \in BOOLEAN /\ mishap \in BOOLEAN /\ overtaken \in BOOLEAN
      BY TokenConstants DEF TokenInv, IssuedIsSound, TokenIds, TokenConstants
  <2> QED
      BY <2>1, <2>3, <2>4, <2>5 DEF TokenTypeOK, CallRecords
<1> QED
    BY <1>1, TokenInitHolds, TokenStep, PTL DEF TokenSpec

LEMMA LeasesStayTyped == LeaseSpec => []LeaseTypeOK
<1>1. LeaseInv => LeaseTypeOK
    BY DEF LeaseInv
<1> QED
    BY <1>1, LeaseInvariant, PTL

LEMMA GoalsStayTyped == GoalSpec => []GoalTypeOK
<1>1. GoalInv => GoalTypeOK
    BY DEF GoalInv
<1> QED
    BY <1>1, GoalStart, GoalStep, PTL DEF GoalSpec

LEMMA AgentsStayTyped == AgentSpec => []AgentTypeOK
<1>1. AgentInv => AgentTypeOK
    BY DEF AgentInv
<1> QED
    BY <1>1, AgentStart, AgentStep, PTL DEF AgentSpec

LEMMA PluginsStayTyped == PluginSpec => []PluginTypeOK
<1>1. PluginInv => PluginTypeOK
    BY DEF PluginInv
<1> QED
    BY <1>1, PluginStart, PluginKept, PTL DEF PluginSpec

LEMMA CandidatesStayTyped == CandidatesSpec => []CandidatesTypeOK
<1>1. QueueInv => CandidatesTypeOK
    BY DEF QueueInv
<1> QED
    BY <1>1, QueueInit, QueueStep, PTL DEF CandidatesSpec

LEMMA TrustStaysTyped == TrustSpec => []TrustTypeOK
<1>1. TrustInv => TrustTypeOK
    BY DEF TrustInv
<1> QED
    BY <1>1, TrustStart, TrustStep, PTL DEF TrustSpec

LEMMA WorktreesStayTyped == WorktreeSpec => []WorktreeTypeOK
<1>1. WorktreeInv => WorktreeTypeOK
    BY DEF WorktreeInv
<1> QED
    BY <1>1, WorktreeStart, WorktreeStep, PTL DEF WorktreeSpec

\* Whatever part moves, and however long: counters stop at their bounds, no
\* record or set leaves its type, and the pruning of Checkpoints._prune keeps
\* the snapshots of a session within their limit.
THEOREM PartsStayTyped == ServicesSpec => []PartsTypeOK
<1>1. /\ LeaseTypeOK /\ GoalTypeOK /\ AgentTypeOK /\ TokenTypeOK /\ PluginTypeOK
      /\ CheckpointTypeOK /\ CandidatesTypeOK /\ TrustTypeOK /\ TranscriptTypeOK
      /\ WorktreeTypeOK /\ ApprovalTypeOK
      => PartsTypeOK
    BY DEF PartsTypeOK
<1> QED
    BY <1>1, PartsKeepTheirSpecs, LeasesStayTyped, GoalsStayTyped, AgentsStayTyped,
       TokensStayTyped, PluginsStayTyped, CheckpointsStayTyped, CandidatesStayTyped,
       TrustStaysTyped, TranscriptStaysTyped, WorktreesStayTyped, ApprovalsStayTyped, PTL

\* What is proved of the parts one by one holds in the behaviours that the run
\* explores: every safety property of it but the types, for any number of
\* members, calls, sessions, files, versions, users, runtimes and commits.
THEOREM PartsStaySafe ==
    ServicesSpec =>
        /\ []OneTaskPerMember /\ []ReservationsHold
        /\ []HandlesAccounted /\ ImplementsHandle /\ TrustIsSound
        /\ []GoalsAreSound /\ AgentsAreSound /\ []TranscriptIsSound /\ ApprovalsAreSound
        /\ []TokensAreSound /\ []PluginsAgree /\ []RewindIsExact /\ []CandidatesAccounted
        /\ WorktreesAreSound
BY PartsKeepTheirSpecs, MembersDoOneThing, ReservedNumbersAreFree, HandlesStayAccounted,
   LeasesImplementHandle,
   TrustStaysSound, GoalsStaySound, AgentsStaySound, TranscriptStaysSound, ApprovalsStaySound,
   TokensStaySound, PluginsStayAgreed, RewindStaysExact, CandidatesStayAccounted,
   WorktreesStaySound, PTL
====
