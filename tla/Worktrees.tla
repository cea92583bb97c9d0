------------------------------ MODULE Worktrees ------------------------------
(***************************************************************************)
(* The interactive worktrees of tools/worktree.py: enter_worktree creates  *)
(* a checkout with a branch of its own, exit_worktree keeps it or removes  *)
(* both.  Each runtime has one session; here they all use one name, and so *)
(* one path and one branch.  Every git command and every change of the     *)
(* disk is a step of its own: the other runtimes, the user and other       *)
(* programs act between any two of them.                                   *)
(***************************************************************************)
EXTENDS Naturals, FiniteSets

CONSTANTS
    Owners,         \* the runtimes
    MaxCheckouts,   \* bound: checkouts created at the path
    MaxCommits,     \* bound: commits
    MaxDisturbances \* bound: git commands and removals that fail half-way, and
                    \* actions of the user and of other programs except a commit

ASSUME WorktreeConstants ==
    /\ MaxCheckouts \in Nat /\ MaxCommits \in Nat /\ MaxDisturbances \in Nat
    /\ "user" \notin Owners

VARIABLES
    checkout,       \* the directory at the path; 0: none
    registered,     \* whose admin directory git lists for the path; 0: none
    attached,       \* its HEAD is the branch
    content,        \* "clean", "work" that is not committed, "emptied"
    headHas,        \* the commits reachable from its HEAD
    branch,         \* the state of the branch (ref and reflog files); 0: none
    branchHas,      \* the commits reachable from it
    merged,         \* the commits reachable from the HEAD of the repository
    layout,         \* the repository's own config and HEAD files
    created,        \* checkouts, states of the branch and commits so far
    maker,          \* history: who created a checkout (0: the branch) and has not given it up
    session,        \* per runtime: the recorded session
    step,           \* per runtime: where its operation is
    seen,           \* per runtime: what the operation inspected
    disturbances    \* so far

worktreeDisk == <<checkout, registered, attached, content, headHas, branch, branchHas>>
repository == <<merged, layout, created, maker>>
runtimes == <<session, step, seen>>
worktreeVars == <<worktreeDisk, repository, runtimes, disturbances>>

NoBranch == [state |-> 0, has |-> {}]
NoWorktree == [phase |-> "none", instance |-> 0, layout |-> 0, cleanup |-> NoBranch]
NothingSeen ==
    [discard |-> FALSE, attached |-> TRUE, head |-> {}, tip |-> NoBranch, owned |-> FALSE,
     late |-> FALSE]

WorktreeInit ==
    /\ checkout = 0 /\ registered = 0 /\ attached = TRUE /\ content = "clean" /\ headHas = {}
    /\ branch = 0 /\ branchHas = {} /\ merged = {} /\ layout = 0
    /\ created = [checkouts |-> 0, states |-> 0, commits |-> 0]
    /\ maker = [n \in 0 .. MaxCheckouts |-> "user"]
    /\ session = [o \in Owners |-> NoWorktree]
    /\ step = [o \in Owners |-> "idle"]
    /\ seen = [o \in Owners |-> NothingSeen]
    /\ disturbances = 0

GoesTo(o, s) == step' = [step EXCEPT ![o] = s]
Finishes(o) == GoesTo(o, "idle") /\ seen' = [seen EXCEPT ![o] = NothingSeen]
Disturbed == disturbances < MaxDisturbances /\ disturbances' = disturbances + 1

\* inspect: the repository must still be the one of the session, and a
\* checkout is the session's by the identity of its directories.
Tip == [state |-> branch, has |-> branchHas]
Known(w) == w.layout = layout
NoTrace == checkout = 0 /\ registered = 0
Owned(w) == w.instance # 0 /\ checkout = w.instance /\ registered = w.instance
HeadResolves == attached => branch # 0

\* reconcile: the phase that the state of the repository stands for.
Reconciled(w, incomplete) ==
    IF Known(w) /\ NoTrace
    THEN IF branch = 0 THEN NoWorktree ELSE [w EXCEPT !.phase = "branch_cleanup_pending"]
    ELSE [w EXCEPT !.phase = IF incomplete \/ ~Known(w) \/ ~Owned(w)
                             THEN "worktree_cleanup_pending" ELSE "active"]
Remembers(o, w) == session' = [session EXCEPT ![o] = w]

-----------------------------------------------------------------------------
(* enter_worktree.                                                         *)

\* The path must be free.
EnterWorktree(o) ==
    /\ step[o] = "idle" /\ session[o].phase = "none"
    /\ checkout = 0
    /\ Remembers(o, [NoWorktree EXCEPT !.layout = layout])
    /\ GoesTo(o, "named")
    /\ UNCHANGED <<worktreeDisk, repository, seen, disturbances>>

\* So must the branch.
LookForBranch(o) ==
    /\ step[o] = "named"
    /\ IF branch = 0
       THEN GoesTo(o, "adding") /\ UNCHANGED session
       ELSE GoesTo(o, "idle") /\ Remembers(o, NoWorktree)
    /\ UNCHANGED <<worktreeDisk, repository, seen, disturbances>>

\* git worktree add: a new checkout, on a new branch, on the existing one or
\* on none.
Creates(who, on) ==
    /\ NoTrace
    /\ created.checkouts < MaxCheckouts
    /\ created' = [created EXCEPT !.checkouts = @ + 1, !.states = IF on = "new" THEN @ + 1 ELSE @]
    /\ checkout' = created'.checkouts /\ registered' = checkout'
    /\ attached' = (on # "detached") /\ content' = "clean"
    /\ branch' = (IF on = "new" THEN created'.states ELSE branch)
    /\ branchHas' = (IF on = "new" THEN merged ELSE branchHas)
    /\ headHas' = (IF on = "detached" THEN merged ELSE branchHas')
    /\ maker' = [n \in DOMAIN maker |->
                    IF n = checkout' \/ (n = 0 /\ on = "new") THEN who ELSE maker[n]]

\* -b succeeds, or fails after everything was created (a post-checkout hook,
\* an interrupted command).
AddCheckout(o) ==
    /\ step[o] = "adding" /\ branch = 0
    /\ Creates(o, "new")
    /\ \/ GoesTo(o, "added") /\ UNCHANGED disturbances
       \/ GoesTo(o, "partial") /\ Disturbed
    /\ UNCHANGED <<merged, layout, session, seen>>

\* It fails and leaves the branch at most; an existing branch, path or
\* registration makes it fail.
AddFails(o) ==
    /\ step[o] = "adding"
    /\ GoesTo(o, "partial")
    /\ \/ (branch # 0 \/ ~NoTrace) /\ UNCHANGED <<branch, branchHas, created, maker, disturbances>>
       \/ branch = 0 /\ NoTrace /\ Disturbed /\ UNCHANGED <<branch, branchHas, created, maker>>
       \/ /\ branch = 0 /\ NoTrace /\ Disturbed
          /\ created' = [created EXCEPT !.states = @ + 1]
          /\ branch' = created'.states /\ branchHas' = merged
          /\ maker' = [maker EXCEPT ![0] = o]
    /\ UNCHANGED <<checkout, registered, attached, content, headHas, merged, layout, session,
                   seen>>

\* capture_worktree_identity, inspect, reconcile: the checkout that is at the
\* path becomes the session's, after a failure too (_partial_creation_result).
Captured(o) ==
    [session[o] EXCEPT !.instance = IF registered = checkout THEN checkout ELSE 0]
Complete(o) == step[o] = "added" /\ Known(session[o]) /\ Owned(Captured(o)) /\ attached /\ branch # 0
RecordCheckout(o) ==
    /\ step[o] \in {"added", "partial"}
    /\ Remembers(o, Reconciled(Captured(o), ~Complete(o)))
    /\ GoesTo(o, "idle")
    /\ UNCHANGED <<worktreeDisk, repository, seen, disturbances>>

-----------------------------------------------------------------------------
(* exit_worktree.                                                          *)

Keep(o) ==
    /\ step[o] = "idle" /\ session[o].phase # "none"
    /\ Remembers(o, NoWorktree)
    /\ maker' = [n \in DOMAIN maker |-> IF maker[n] = o THEN "user" ELSE maker[n]]
    /\ UNCHANGED <<worktreeDisk, merged, layout, created, step, seen, disturbances>>

\* _cleanup_branch goes on only with a branch that was captured when the
\* checkout was removed.
CleansUp(o, w, discard) ==
    /\ Remembers(o, w)
    /\ IF w.phase = "branch_cleanup_pending" /\ w.cleanup # NoBranch
       THEN /\ GoesTo(o, "branch")
            /\ seen' = [seen EXCEPT ![o] = [NothingSeen EXCEPT !.discard = discard]]
       ELSE Finishes(o)

\* reopen and inspect; nothing is touched unless the session names a checkout
\* and the repository is the one it was.
Exit(o, discard) ==
    LET w == session[o] IN
    /\ step[o] = "idle" /\ w.phase # "none"
    /\ w.instance # 0 /\ Known(w)
    /\ \/ NoTrace /\ CleansUp(o, Reconciled(w, FALSE), discard)
       \/ ~NoTrace /\ ~Owned(w) /\ Remembers(o, Reconciled(w, TRUE)) /\ UNCHANGED <<step, seen>>
       \/ /\ Owned(w)
          /\ seen' = [seen EXCEPT ![o] = [NothingSeen EXCEPT
                !.discard = discard, !.attached = attached, !.head = headHas, !.tip = Tip]]
          /\ GoesTo(o, IF discard THEN "removing" ELSE "inspected")
          /\ UNCHANGED session
    /\ UNCHANGED <<worktreeDisk, repository, disturbances>>

\* Mutant: ignored files do not count.
AnyContent == TRUE

\* _removal_preflight: on its branch, at the commit that was inspected,
\* nothing uncommitted, untracked, ignored or hidden.
NothingToLose == content = "clean"
Preflight(o) ==
    /\ step[o] = "inspected"
    /\ IF /\ Owned(session[o]) /\ attached /\ seen[o].attached
          /\ HeadResolves /\ headHas = seen[o].head
          /\ seen[o].tip.state # 0 => seen[o].tip.has = headHas
          /\ NothingToLose
       THEN GoesTo(o, "removing") /\ UNCHANGED seen
       ELSE Finishes(o)
    /\ UNCHANGED <<worktreeDisk, repository, session, disturbances>>

\* remove_owned_worktree up to the first deletion: the same commit still, and
\* the same directories, held open from here on.  The branch is captured when
\* the checkout was on it.
BeginRemoval(o) ==
    LET owned == seen[o].attached /\ seen[o].tip.state # 0 /\ seen[o].tip.has = headHas IN
    /\ step[o] = "removing"
    /\ IF /\ Known(session[o]) /\ Owned(session[o])
          /\ HeadResolves /\ headHas = seen[o].head /\ (owned => branch # 0)
       THEN /\ GoesTo(o, "emptying")
            /\ seen' = [seen EXCEPT ![o].owned = owned, ![o].tip.state = branch]
       ELSE GoesTo(o, "failed") /\ UNCHANGED seen
    /\ UNCHANGED <<worktreeDisk, repository, session, disturbances>>

\* The files and the directory go; a failure may leave an emptied directory.
RemoveCheckout(o) ==
    /\ step[o] = "emptying"
    /\ \/ /\ checkout = session[o].instance
          /\ checkout' = 0 /\ content' = "clean"
          /\ GoesTo(o, "unregistering") /\ UNCHANGED disturbances
       \/ /\ checkout = session[o].instance
          /\ content' = "emptied" /\ GoesTo(o, "failed") /\ Disturbed
          /\ UNCHANGED checkout
       \/ /\ checkout # session[o].instance
          /\ GoesTo(o, "failed") /\ UNCHANGED <<checkout, content, disturbances>>
    /\ UNCHANGED <<registered, attached, headHas, branch, branchHas, repository, session, seen>>

\* Then git's own directory; only now is the branch the session's to delete.
Unregisters == registered' = 0 /\ attached' = TRUE /\ headHas' = {}
Unregister(o) ==
    LET w == session[o]
        captured == [state |-> seen[o].tip.state, has |-> seen[o].head]
        left == <<registered, attached, headHas>> IN
    /\ step[o] = "unregistering"
    /\ \/ /\ registered = w.instance /\ Unregisters
          /\ Remembers(o, IF seen[o].owned THEN [w EXCEPT !.cleanup = captured] ELSE w)
          /\ GoesTo(o, "removed") /\ UNCHANGED disturbances
       \/ /\ registered # w.instance
          /\ GoesTo(o, "failed") /\ UNCHANGED <<left, session, disturbances>>
       \/ /\ registered = w.instance /\ (Unregisters \/ UNCHANGED left)
          /\ GoesTo(o, "failed") /\ Disturbed /\ UNCHANGED session
    /\ UNCHANGED <<checkout, content, branch, branchHas, repository, seen>>

RemovalFailed(o) ==
    /\ step[o] = "failed"
    /\ Remembers(o, Reconciled(session[o], ~NoTrace))
    /\ Finishes(o)
    /\ UNCHANGED <<worktreeDisk, repository, disturbances>>

Removed(o) ==
    /\ step[o] = "removed"
    /\ CleansUp(o, Reconciled(session[o], ~NoTrace), seen[o].discard)
    /\ UNCHANGED <<worktreeDisk, repository, disturbances>>

\* delete_owned_branch: exactly the branch that was captured, and without
\* discard_changes only when its commits are merged.
Deletable(o) ==
    /\ Tip = session[o].cleanup
    /\ seen[o].discard \/ session[o].cleanup.has \subseteq merged
CheckBranch(o) ==
    /\ step[o] = "branch"
    /\ GoesTo(o, IF Deletable(o) THEN "deleting" ELSE "settling")
    /\ UNCHANGED <<worktreeDisk, repository, session, seen, disturbances>>

\* git update-ref -d compares the commit once more; it also deletes a branch
\* that a checkout is on.
DeleteBranch(o) ==
    LET same == branch # 0 /\ branchHas = session[o].cleanup.has IN
    /\ step[o] = "deleting"
    /\ GoesTo(o, "settling")
    /\ \/ /\ same
          /\ branch' = 0 /\ branchHas' = {}
          /\ headHas' = (IF attached THEN {} ELSE headHas)
          /\ UNCHANGED disturbances
       \/ ~same /\ UNCHANGED <<branch, branchHas, headHas, disturbances>>
       \/ same /\ Disturbed /\ UNCHANGED <<branch, branchHas, headHas>>
    /\ UNCHANGED <<checkout, registered, attached, content, repository, session, seen>>

Settle(o) ==
    /\ step[o] = "settling"
    /\ Remembers(o, Reconciled(session[o], FALSE))
    /\ Finishes(o)
    /\ UNCHANGED <<worktreeDisk, repository, disturbances>>

-----------------------------------------------------------------------------
(* The user and other programs.                                            *)

\* What comes after the checks of a removal may be lost with the checkout.
ComesLate ==
    seen' = [o \in Owners |-> IF step[o] \in {"removing", "emptying"}
                              THEN [seen[o] EXCEPT !.late = TRUE] ELSE seen[o]]

Edit ==
    /\ Disturbed /\ checkout # 0
    /\ content' = "work" /\ ComesLate
    /\ UNCHANGED <<checkout, registered, attached, headHas, branch, branchHas, repository, session,
                   step>>

CommitWork ==
    /\ checkout # 0 /\ registered = checkout /\ content # "emptied"
    /\ HeadResolves
    /\ created.commits < MaxCommits
    /\ created' = [created EXCEPT !.commits = @ + 1, !.states = IF attached THEN @ + 1 ELSE @]
    /\ headHas' = headHas \cup {created'.commits}
    /\ content' = "clean"
    /\ IF attached THEN branch' = created'.states /\ branchHas' = headHas' /\ UNCHANGED seen
                   ELSE UNCHANGED <<branch, branchHas>> /\ ComesLate
    /\ UNCHANGED <<checkout, registered, attached, merged, layout, maker, session, step,
                   disturbances>>

Detach ==
    /\ Disturbed /\ checkout # 0 /\ registered = checkout /\ attached
    /\ attached' = FALSE /\ ComesLate
    /\ UNCHANGED <<checkout, registered, content, headHas, branch, branchHas, repository, session,
                   step>>

Merge ==
    /\ Disturbed /\ ~(branchHas \subseteq merged)
    /\ merged' = merged \cup branchHas
    /\ UNCHANGED <<worktreeDisk, layout, created, maker, runtimes>>

ChangeLayout ==
    /\ Disturbed /\ layout = 0
    /\ layout' = 1
    /\ UNCHANGED <<worktreeDisk, merged, created, maker, runtimes>>

\* rm -rf
DeleteDirectory ==
    /\ Disturbed /\ checkout # 0
    /\ checkout' = 0 /\ content' = "clean"
    /\ UNCHANGED <<registered, attached, headHas, branch, branchHas, repository, runtimes>>

\* git worktree prune
Prune ==
    /\ Disturbed /\ checkout = 0 /\ registered # 0
    /\ Unregisters
    /\ UNCHANGED <<checkout, content, branch, branchHas, repository, runtimes>>

\* git branch -D, which refuses a branch that is checked out.
UserDeletesBranch ==
    /\ Disturbed /\ branch # 0 /\ ~(registered # 0 /\ attached)
    /\ branch' = 0 /\ branchHas' = {}
    /\ UNCHANGED <<checkout, registered, attached, content, headHas, repository, runtimes>>

UserCreatesBranch ==
    /\ Disturbed /\ branch = 0 /\ ~(registered # 0 /\ attached)
    /\ created' = [created EXCEPT !.states = @ + 1]
    /\ branch' = created'.states /\ branchHas' = merged
    /\ maker' = [maker EXCEPT ![0] = "user"]
    /\ UNCHANGED <<checkout, registered, attached, content, headHas, merged, layout, runtimes>>

UserAddsCheckout(on) ==
    /\ Disturbed
    /\ on = "new" => branch = 0
    /\ on = "existing" => branch # 0
    /\ Creates("user", on)
    /\ UNCHANGED <<merged, layout, runtimes>>

Koder(o) ==
    \/ EnterWorktree(o) \/ LookForBranch(o) \/ AddCheckout(o) \/ AddFails(o) \/ RecordCheckout(o)
    \/ Keep(o) \/ (\E discard \in BOOLEAN : Exit(o, discard))
    \/ Preflight(o) \/ BeginRemoval(o) \/ RemoveCheckout(o) \/ Unregister(o)
    \/ RemovalFailed(o) \/ Removed(o) \/ CheckBranch(o) \/ DeleteBranch(o) \/ Settle(o)

WorktreeNext ==
    \/ \E o \in Owners : Koder(o)
    \/ Edit \/ CommitWork \/ Detach \/ Merge \/ ChangeLayout \/ DeleteDirectory \/ Prune
    \/ UserDeletesBranch \/ UserCreatesBranch
    \/ \E on \in {"new", "existing", "detached"} : UserAddsCheckout(on)

WorktreeSpec == WorktreeInit /\ [][WorktreeNext]_worktreeVars
-----------------------------------------------------------------------------
Commits == 1 .. MaxCommits
Checkouts == 0 .. MaxCheckouts
BranchTips == [state : Nat, has : SUBSET Commits]

\* The variables have the values the code and git give them.
WorktreeTypeOK ==
    /\ checkout \in Checkouts /\ registered \in Checkouts
    /\ attached \in BOOLEAN /\ content \in {"clean", "work", "emptied"}
    /\ headHas \subseteq Commits /\ branchHas \subseteq Commits /\ merged \subseteq Commits
    /\ branch \in 0 .. created.states /\ layout \in {0, 1}
    /\ created \in [checkouts : Checkouts, states : Nat, commits : 0 .. MaxCommits]
    /\ maker \in [Checkouts -> Owners \cup {"user"}]
    /\ session \in [Owners ->
            [phase : {"none", "active", "worktree_cleanup_pending", "branch_cleanup_pending"},
             instance : Checkouts, layout : {0, 1}, cleanup : BranchTips]]
    /\ step \in [Owners -> {"idle", "named", "adding", "added", "partial", "inspected", "removing",
                            "emptying", "unregistering", "failed", "removed", "branch", "deleting",
                            "settling"}]
    /\ seen \in [Owners ->
            [discard : BOOLEAN, attached : BOOLEAN, head : SUBSET Commits, tip : BranchTips,
             owned : BOOLEAN, late : BOOLEAN]]
    /\ disturbances \in 0 .. MaxDisturbances

\* A removal without discard_changes destroys no work but what was done after
\* it had looked for work (exit_worktree, _removal_preflight).
Removes(o) == step[o] = "emptying" /\ step'[o] # "emptying" /\ checkout = session[o].instance
WorkKept ==
    \A o \in Owners :
        Removes(o) /\ ~seen[o].discard /\ ~seen[o].late => content # "work"

\* It loses no commit either: each is still on the branch, merged or on the
\* HEAD of a checkout (remove_owned_worktree, delete_owned_branch).
Reachable == merged \cup branchHas \cup headHas
CommitsKept ==
    \A o \in Owners :
        step[o] \in {"unregistering", "deleting"} /\ step'[o] # step[o]
            /\ ~seen[o].discard /\ ~seen[o].late
        => Reachable' = Reachable

\* A runtime without a session has left nothing behind: what it created and
\* did not decide to keep is gone (reconcile).
NothingLeft ==
    \A o \in Owners :
        step[o] = "idle" /\ session[o].phase = "none" =>
            /\ checkout # 0 => maker[checkout] # o
            /\ registered # 0 => maker[registered] # o
            /\ branch # 0 => maker[0] # o

\* Together: no work is lost, no commit is lost, nothing is left behind.
WorktreesAreSound == [](NothingLeft) /\ [][WorkKept /\ CommitsKept]_worktreeVars

\* A runtime removes only checkouts it created: "Existing paths are never
\* adopted by enter_worktree".
OwnCheckouts ==
    [][\A o \in Owners : Removes(o) => maker[checkout] = o]_worktreeVars
=============================================================================
