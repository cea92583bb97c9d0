---------------------------- MODULE MCServices ----------------------------
(***************************************************************************)
(* Small instances of parts that share no state, side by side: a behaviour *)
(* belongs to one part, chosen at the start, and the others stay as they   *)
(* were.                                                                   *)
(***************************************************************************)
EXTENDS
    TeamTasks, ServerLeases, Goals, AgentRuns, TokenRefresh, PluginInstall, Checkpoints, Candidates,
    ServerTrust, Transcript, Worktrees, Approvals, TLC

CONSTANTS
    Parts,      \* the parts that may be chosen
    m1,         \* the member of the team
    k1, k2      \* tool calls

FewClaims == 1 .. 3
FewRevisions == 1 .. 3
OwnersAlike == Permutations(Owners) \cup Permutations(AskedCalls)

\* Two projects.  One has a rule for half of a chain, the other forbids a file
\* that the user may allow for good in the first.
ProjectWords == {"build", "push", "file", "sibling"}
Chain ==
    [tool |-> "shell", parts |-> {"build", "push"}, plain |-> TRUE, verdict |-> "ask", ordinary |-> FALSE]
FileWrite ==
    [tool |-> "write", parts |-> {"file"}, plain |-> TRUE, verdict |-> "ask", ordinary |-> TRUE]
ProjectCommands == {Chain, FileWrite}
OneCommand == {Chain}
ProjectFamily ==
    [w \in ProjectWords |-> IF w \in {"file", "sibling"} THEN {"file", "sibling"} ELSE {w}]
ProjectSettings ==
    [s \in Terminals |->
        {IF s = "here" THEN [behavior |-> "allow", covers |-> {"build"}]
                       ELSE [behavior |-> "deny", covers |-> {"file"}]}]
\* Bound: calls wait for each other in one session, or sessions overlap.
Roomy ==
    Cardinality(live) > 1 => Cardinality({i \in AskedCalls : ~CallAt(i, "new")}) < 2

\* Bound: once messages and checkpoints count apart, no rewind is followed further.
Counted == skew = "none"

VARIABLE part   \* the part that moves

serviceVars ==
    <<part, vars, leaseVars, goalVars, agentVars, tokenVars, pluginVars, checkpointVars,
      candidateVars, trustVars, transcriptVars, worktreeVars, approvalVars>>

ServicesInit ==
    /\ part \in Parts
    /\ Init /\ LeaseInit /\ GoalInit /\ AgentInit /\ TokenInit
    /\ PluginInit /\ CheckpointInit /\ CandidatesInit
    /\ TrustInit /\ TranscriptInit /\ WorktreeInit /\ ApprovalInit
    /\ part # "tokens" => mac /\ plain = NoFile /\ keychain = NoToken

Others(p) ==
    /\ UNCHANGED part
    /\ p # "team" => UNCHANGED vars
    /\ p # "leases" => UNCHANGED leaseVars
    /\ p # "goals" => UNCHANGED goalVars
    /\ p # "agents" => UNCHANGED agentVars
    /\ p # "tokens" => UNCHANGED tokenVars
    /\ p # "plugins" => UNCHANGED pluginVars
    /\ p # "checkpoints" => UNCHANGED checkpointVars
    /\ p # "candidates" => UNCHANGED candidateVars
    /\ p # "trust" => UNCHANGED trustVars
    /\ p # "transcript" => UNCHANGED transcriptVars
    /\ p # "worktrees" => UNCHANGED worktreeVars
    /\ p # "approvals" => UNCHANGED approvalVars

ServicesNext ==
    \/ part = "team" /\ Next /\ Others("team")
    \/ part = "leases" /\ LeaseNext /\ Others("leases")
    \/ part = "goals" /\ GoalNext /\ Others("goals")
    \/ part = "agents" /\ AgentNext /\ Others("agents")
    \/ part = "tokens" /\ TokenNext /\ Others("tokens")
    \/ part = "plugins" /\ PluginNext /\ Others("plugins")
    \/ part = "checkpoints" /\ Counted /\ CheckpointNext /\ Others("checkpoints")
    \/ part = "candidates" /\ CandidatesNext /\ Others("candidates")
    \/ part = "trust" /\ TrustNext /\ Others("trust")
    \/ part = "transcript" /\ TranscriptNext /\ Others("transcript")
    \/ part = "worktrees" /\ WorktreeNext /\ Others("worktrees")
    \/ part = "approvals" /\ ApprovalNext /\ Roomy' /\ Others("approvals")

ServicesSpec == ServicesInit /\ [][ServicesNext]_serviceVars

\* The parts that wait for something.  (No fair action of a part is enabled
\* before the part has moved.)
ServicesFairSpec ==
    /\ ServicesSpec
    /\ LeaseFairness /\ GoalFairness /\ AgentFairness /\ TokenFairness /\ TrustFairness
    /\ ApprovalFairness

-----------------------------------------------------------------------------
\* The variables of the parts have the values they should.
PartsTypeOK ==
    /\ LeaseTypeOK /\ GoalTypeOK /\ AgentTypeOK
    /\ TokenTypeOK /\ PluginTypeOK /\ CheckpointTypeOK /\ CandidatesTypeOK
    /\ TrustTypeOK /\ TranscriptTypeOK /\ WorktreeTypeOK /\ ApprovalTypeOK

\* A call of handle(), a background run, a refresh and a call of a project
\* server come to an end, and no question outlives the prompt it was put to.
RunsEnd == HandleEnds /\ AgentRunsEnd /\ TokenCallsEnd /\ TrustWaitsEnd /\ QuestionsEnd
=============================================================================
