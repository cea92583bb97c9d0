------------------------------ MODULE TeamTasks ------------------------------
(***************************************************************************)
(* The task list of an agent team (teams/task_service.py), the memberships *)
(* that own tasks (teams/service.py) and the in-process loops that execute *)
(* them (teams/in_process.py).                                             *)
(*                                                                         *)
(* A transaction holds the team's lifecycle lock and the list's lock, so   *)
(* it is one step.  Project hooks run between two transactions: while one  *)
(* runs, members leave, teams are deleted and created again, and tasks are *)
(* reset, reassigned and claimed by others.                                *)
(*                                                                         *)
(* Subjects, descriptions, metadata and the display-only "blocks" lists    *)
(* are left out.  Identifiers drawn with uuid4 (claims, revisions) are     *)
(* values that nobody holds at the time they are drawn.                    *)
(***************************************************************************)
EXTENDS Integers, FiniteSets

CONSTANTS
    Members,        \* agent ids
    NoOne,          \* "no owner"
    MaxId,          \* bound: the last task number
    Claims,         \* bound: claim ids in use at one time
    Revisions,      \* bound: revisions in use at one time
    MaxGen,         \* bound: teams created under the name
    MaxLife,        \* bound: memberships of one agent id
    AdminStatuses   \* statuses that callers without a claim set explicitly

Ids == 1 .. MaxId
Terminal == {"completed", "failed", "cancelled"}
Statuses == Terminal \cup {"pending", "in_progress"}
NoClaim == 0
Same == "same"     \* update_task(status=None)

ASSUME TeamConstants ==
    /\ NoOne \notin Members
    /\ MaxId \in Nat /\ MaxGen \in Nat /\ MaxLife \in Nat
    /\ NoClaim \notin Claims
    /\ AdminStatuses \subseteq Statuses

VARIABLES
    gen,        \* generation of the team that exists or existed last
    up,         \* the team exists
    members,    \* agent ids in its config
    active,     \* the active ones
    life,       \* life[m]: number of m's latest membership
    hwm,        \* .highwatermark
    task,       \* task[t]: the content of <t>.json
    creating,   \* creations whose TaskCreated hook runs
    admin,      \* the completion without a claim whose TaskCompleted hook runs
    leaving,    \* leaving[m]: the deactivation whose TeammateIdle hook runs
    run         \* run[m]: m's loop

vars == <<gen, up, members, active, life, hwm, task, creating, admin, leaving, run>>
team == <<gen, up, members, active, life>>

NoTask == [status |-> "none", owner |-> NoOne, claim |-> NoClaim, rev |-> 0, blockedBy |-> {}]
NoAdmin == [task |-> 0, gen |-> 0, before |-> NoTask, after |-> NoTask]
NotLeaving == [gen |-> 0, life |-> 0]
LoopOff == [phase |-> "off", gen |-> 0, life |-> 0, stop |-> FALSE,
            task |-> 0, claim |-> NoClaim, outcome |-> "none", before |-> NoTask]

Init ==
    /\ gen = 0 /\ up = FALSE
    /\ members = {} /\ active = {}
    /\ life = [m \in Members |-> 0]
    /\ hwm = 0
    /\ task = [t \in Ids |-> NoTask]
    /\ creating = {}
    /\ admin = NoAdmin
    /\ leaving = [m \in Members |-> NotLeaving]
    /\ run = [m \in Members |-> LoopOff]

Live == {t \in Ids : task[t] # NoTask}

-----------------------------------------------------------------------------
(* Writing a task.                                                         *)

\* Claim ids and revisions that somebody will still compare with another.
ClaimsHeld == {task[t].claim : t \in Ids} \cup {run[m].claim : m \in Members}
RevisionsHeld == {run[m].before.rev : m \in Members} \cup {admin.before.rev}
FreshClaims == Claims \ ClaimsHeld
FreshRevisions == Revisions \ RevisionsHeld

\* uuid4: any fresh value; which one tells nothing apart.
ANewClaim == CHOOSE c \in FreshClaims : TRUE
ANewRevision == CHOOSE r \in FreshRevisions : TRUE

\* The bounds on Claims and Revisions, wherever a value may be drawn.
CanDraw == FreshClaims # {} /\ FreshRevisions # {}

\* _write_task: every write gives the record a new revision.
Written(r) == [r EXCEPT !.rev = ANewRevision]

\* cancel_owner_tasks: the list after m's attempts were revoked.
Cancelled(m) ==
    [t \in Ids |-> IF task[t].owner = m /\ task[t].status = "in_progress"
                   THEN Written([task[t] EXCEPT !.status = "cancelled", !.claim = NoClaim])
                   ELSE task[t]]

\* Mutant: an outcome leaves the claim on the record.
UpdatedKeepsClaim(r, s, o, c) ==
    LET reassigned == s # "pending" /\ o \notin {NoOne, r.owner}
        asked == IF s = Same THEN r.status ELSE s
        status == IF reassigned /\ r.status = "in_progress" /\ asked = "in_progress"
                  THEN "pending" ELSE asked
        kept == IF s = "pending" \/ reassigned THEN NoClaim ELSE r.claim
    IN [r EXCEPT
          !.status = status,
          !.owner = IF s = "pending" \/ o # NoOne THEN o ELSE @,
          !.claim = IF status = "in_progress" /\ kept = NoClaim THEN c ELSE kept]

\* update_task: the record r after a request for status s (Same: none given)
\* and owner o (NoOne: none given), with claim c should one be needed.
Updated(r, s, o, c) ==
    LET reassigned == s # "pending" /\ o \notin {NoOne, r.owner}
        asked == IF s = Same THEN r.status ELSE s
        status == IF reassigned /\ r.status = "in_progress" /\ asked = "in_progress"
                  THEN "pending" ELSE asked
        kept == IF s = "pending" \/ reassigned THEN NoClaim ELSE r.claim
    IN [r EXCEPT
          !.status = status,
          !.owner = IF s = "pending" \/ o # NoOne THEN o ELSE @,
          !.claim = IF status \in Terminal THEN NoClaim
                    ELSE IF status = "in_progress" /\ kept = NoClaim THEN c
                    ELSE kept]

-----------------------------------------------------------------------------
(* Teams and memberships.                                                  *)

CreateTeam ==
    /\ ~up /\ gen < MaxGen
    /\ gen' = gen + 1 /\ up' = TRUE
    /\ UNCHANGED <<members, active, life, hwm, task, creating, admin, leaving, run>>

\* Mutant: a team with active members is deleted.
DeleteTeamActive ==
    /\ up
    /\ up' = FALSE
    /\ members' = {}
    /\ hwm' = 0
    /\ task' = [t \in Ids |-> NoTask]
    /\ UNCHANGED <<gen, active, life, creating, admin, leaving, run>>

\* delete_team: refused while a member is active; the list goes with the team.
DeleteTeam ==
    /\ up /\ active = {}
    /\ up' = FALSE
    /\ members' = {}
    /\ hwm' = 0
    /\ task' = [t \in Ids |-> NoTask]
    /\ UNCHANGED <<gen, active, life, creating, admin, leaving, run>>

\* The loop of a newly spawned member.
Spawned(m) ==
    IF run[m].phase = "off"
    THEN [run EXCEPT ![m] =
             [LoopOff EXCEPT !.phase = "idle", !.gen = gen, !.life = life[m] + 1]]
    ELSE run

\* add_member, and spawn_teammate when m has no loop.  Registering a known id
\* again starts a new membership and revokes what the former one was doing.
AddMember(m) ==
    /\ up /\ life[m] < MaxLife /\ CanDraw
    /\ members' = members \cup {m}
    /\ active' = active \cup {m}
    /\ life' = [life EXCEPT ![m] = @ + 1]
    /\ task' = IF m \in members THEN Cancelled(m) ELSE task
    /\ run' = Spawned(m)
    /\ UNCHANGED <<gen, up, hwm, creating, admin, leaving>>

\* set_member_active(True) of an inactive member: a new membership.
Reactivate(m) ==
    /\ up /\ m \in members \ active /\ life[m] < MaxLife
    /\ active' = active \cup {m}
    /\ life' = [life EXCEPT ![m] = @ + 1]
    /\ UNCHANGED <<gen, up, members, hwm, task, creating, admin, leaving, run>>

\* set_member_active(False), up to its TeammateIdle hook.
LeaveBegin(m) ==
    /\ up /\ m \in members /\ leaving[m] = NotLeaving
    /\ leaving' = [leaving EXCEPT ![m] = [gen |-> gen, life |-> life[m]]]
    /\ UNCHANGED <<gen, up, members, active, life, hwm, task, creating, admin, run>>

\* Mutant: the member's attempts are left running.
DeactivatedOnly(m) ==
    /\ active' = active \ {m}
    /\ UNCHANGED task
Deactivated(m) ==
    /\ CanDraw
    /\ active' = active \ {m}
    /\ task' = Cancelled(m)

\* ... and after it: the same membership must still be there.
LeaveEnd(m) ==
    /\ leaving[m] # NotLeaving
    /\ leaving' = [leaving EXCEPT ![m] = NotLeaving]
    /\ IF up /\ leaving[m].gen = gen /\ m \in members /\ leaving[m].life = life[m]
       THEN Deactivated(m)
       ELSE UNCHANGED <<active, task>>
    /\ UNCHANGED <<gen, up, members, life, hwm, creating, admin, run>>

LeaveRefused(m) ==
    /\ leaving[m] # NotLeaving
    /\ leaving' = [leaving EXCEPT ![m] = NotLeaving]
    /\ UNCHANGED <<gen, up, members, active, life, hwm, task, creating, admin, run>>

-----------------------------------------------------------------------------
(* The task list.                                                          *)

\* Mutant: any team of that name will do.
FencedByName(g) == up
\* A handle of generation g passes the lifecycle guard.
Fenced(g) == up /\ gen = g

\* One more than the mark and than every task there is.
IsNext(n) ==
    /\ \A k \in Live \cup {hwm} : k < n
    /\ n - 1 \in Live \cup {hwm}

\* Mutant: the number is not reserved before the hook runs.
CreateBeginUnreserved(n, B) ==
    /\ up /\ IsNext(n)
    /\ creating' = creating \cup {[id |-> n, gen |-> gen, blockedBy |-> B]}
    /\ UNCHANGED <<gen, up, members, active, life, hwm, task, admin, leaving, run>>

\* create_task reserves a number, then runs the TaskCreated hook.
CreateBegin(n, B) ==
    /\ up /\ IsNext(n)
    /\ hwm' = n
    /\ creating' = creating \cup {[id |-> n, gen |-> gen, blockedBy |-> B]}
    /\ UNCHANGED <<gen, up, members, active, life, task, admin, leaving, run>>

\* The accepted task is written if the team is still the same.
CreateEnd(c) ==
    /\ c \in creating /\ CanDraw
    /\ creating' = creating \ {c}
    /\ task' = IF Fenced(c.gen)
               THEN [task EXCEPT ![c.id] =
                        Written([NoTask EXCEPT !.status = "pending", !.blockedBy = c.blockedBy])]
               ELSE task
    /\ UNCHANGED <<gen, up, members, active, life, hwm, admin, leaving, run>>

CreateRefused(c) ==
    /\ c \in creating
    /\ creating' = creating \ {c}
    /\ UNCHANGED <<gen, up, members, active, life, hwm, task, admin, leaving, run>>

\* A terminal task accepts its own status again, or an explicit reset.
MayBecome(r, s) == r.status \in Terminal => s \in {Same, r.status, "pending"}

\* Publishing a completion asks the TaskCompleted hook first.
NeedsHook(before, after) == before.status # "completed" /\ after.status = "completed"

\* update_task without a claim (update_status, resets, reassignments).
Update(t, s, o) ==
    LET after == Updated(task[t], s, o, ANewClaim) IN
    /\ up /\ t \in Live /\ CanDraw
    /\ MayBecome(task[t], s)
    /\ IF NeedsHook(task[t], after)
       THEN /\ admin = NoAdmin
            /\ admin' = [task |-> t, gen |-> gen, before |-> task[t], after |-> after]
            /\ UNCHANGED task
       ELSE /\ task' = [task EXCEPT ![t] = Written(after)]
            /\ UNCHANGED admin
    /\ UNCHANGED <<gen, up, members, active, life, hwm, creating, leaving, run>>

\* After an accepted hook the snapshot must still be the file's content.
Unchanged(t, before) == task[t] = before

UpdateEnd ==
    /\ admin # NoAdmin /\ CanDraw
    /\ admin' = NoAdmin
    /\ task' = IF Fenced(admin.gen) /\ Unchanged(admin.task, admin.before)
               THEN [task EXCEPT ![admin.task] = Written(admin.after)]
               ELSE task
    /\ UNCHANGED <<gen, up, members, active, life, hwm, creating, leaving, run>>

UpdateRefused ==
    /\ admin # NoAdmin
    /\ admin' = NoAdmin
    /\ UNCHANGED <<gen, up, members, active, life, hwm, task, creating, leaving, run>>

\* block_task: one write each, unless the lists name each other already.
Block(b, t, rewritten) ==
    /\ up /\ b \in Live /\ t \in Live /\ CanDraw
    /\ task' = [u \in Ids |->
                  IF u = t /\ b \notin task[t].blockedBy
                  THEN Written([task[t] EXCEPT !.blockedBy = @ \cup {b}])
                  ELSE IF u = b /\ rewritten THEN Written(task[b])
                  ELSE task[u]]
    /\ UNCHANGED <<gen, up, members, active, life, hwm, creating, admin, leaving, run>>

\* claim_task with check_agent_busy.
IsRunning(t, m) == task[t].status = "in_progress" /\ task[t].owner = m /\ task[t].claim # NoClaim
Blockers(t) == {b \in task[t].blockedBy \cap Live : task[b].status # "completed"}
BusyUnchecked(m, t) == task[t].status = "completed"    \* mutant
Busy(m, t) == \E u \in Ids \ {t} : task[u].owner = m /\ task[u].status = "in_progress"

Claimable(m, t) ==
    /\ up /\ m \in active
    /\ t \in Live /\ task[t].status \notin Terminal
    /\ task[t].owner \in {NoOne, m}
    /\ IsRunning(t, m) \/ (Blockers(t) = {} /\ ~Busy(m, t))

\* Claiming what m already runs changes nothing.
Claimed(m, t) ==
    IF IsRunning(t, m) THEN task[t]
    ELSE Written([task[t] EXCEPT !.status = "in_progress", !.owner = m, !.claim = ANewClaim])

\* /peers task claim: on behalf of a member, without its loop.
UserClaim(m, t) ==
    /\ Claimable(m, t) /\ CanDraw
    /\ task' = [task EXCEPT ![t] = Claimed(m, t)]
    /\ UNCHANGED <<gen, up, members, active, life, hwm, creating, admin, leaving, run>>

-----------------------------------------------------------------------------
(* The loop of an in-process member.                                       *)

\* The member-bound service still works: same team, same membership, active.
ScopeOk(m) ==
    /\ Fenced(run[m].gen)
    /\ m \in active
    /\ run[m].life = life[m]

\* The claim the loop holds is the task's claim.
ClaimIsCurrent(m) ==
    LET r == task[run[m].task] IN
    /\ r.status = "in_progress" /\ r.owner = m /\ r.claim = run[m].claim

Dropped(m) == [run EXCEPT ![m] = [@ EXCEPT !.phase = "idle", !.task = 0, !.claim = NoClaim,
                                           !.outcome = "none", !.before = NoTask]]
Done(m, outcome) == [run EXCEPT ![m] = [@ EXCEPT !.phase = "done", !.outcome = outcome,
                                                 !.before = NoTask]]
At(m, phase) == [run EXCEPT ![m].phase = phase, ![m].before = NoTask]

\* _claim_next_task.
ClaimNext(m, t) ==
    /\ run[m].phase = "idle" /\ ~run[m].stop /\ ScopeOk(m)
    /\ Claimable(m, t) /\ CanDraw
    /\ task' = [task EXCEPT ![t] = Claimed(m, t)]
    /\ run' = [run EXCEPT ![m] = [@ EXCEPT !.phase = "launching", !.task = t,
                                           !.claim = task'[t].claim]]
    /\ UNCHANGED <<gen, up, members, active, life, hwm, creating, admin, leaving>>

\* _guarded_executor: the claim is read again when the run really starts.
Enter(m) ==
    /\ run[m].phase = "launching"
    /\ run' = IF ScopeOk(m) /\ ClaimIsCurrent(m) THEN At(m, "running")
              ELSE Done(m, "cancelled")
    /\ UNCHANGED <<gen, up, members, active, life, hwm, task, creating, admin, leaving>>

\* resume_background raises: the task is marked failed.
LaunchFails(m) ==
    /\ run[m].phase = "launching"
    /\ run' = Done(m, "failed")
    /\ UNCHANGED <<gen, up, members, active, life, hwm, task, creating, admin, leaving>>

RunEnds(m, outcome) ==
    /\ run[m].phase = "running"
    /\ run' = Done(m, outcome)
    /\ UNCHANGED <<gen, up, members, active, life, hwm, task, creating, admin, leaving>>

\* terminate, or _await_run noticing that the membership is over.
Stop(m) ==
    /\ run[m].phase # "off" /\ ~run[m].stop
    /\ run' = IF run[m].phase \in {"launching", "running"}
              THEN [Done(m, "cancelled") EXCEPT ![m].stop = TRUE]
              ELSE [run EXCEPT ![m].stop = TRUE]
    /\ UNCHANGED <<gen, up, members, active, life, hwm, task, creating, admin, leaving>>

\* Mutant: the outcome is published whoever owns the task now.
ExpectedUnchecked(m) == task[run[m].task] # NoTask
\* update_task's expected_claim.
Expected(m) == ClaimIsCurrent(m)

\* _finish_task, first transaction of finish_claim.
Finish(m) ==
    LET r == task[run[m].task]
        after == Updated(r, run[m].outcome, NoOne, NoClaim)
    IN
    /\ run[m].phase = "done" /\ CanDraw
    /\ IF ~ScopeOk(m)
       THEN run' = Dropped(m) /\ UNCHANGED task
       ELSE IF ~Expected(m)
       THEN run' = At(m, "rejected") /\ UNCHANGED task
       ELSE IF NeedsHook(r, after)
       THEN run' = [run EXCEPT ![m].phase = "hook", ![m].before = r] /\ UNCHANGED task
       ELSE /\ task' = [task EXCEPT ![run[m].task] = Written(after)]
            /\ run' = Dropped(m)
    /\ UNCHANGED <<gen, up, members, active, life, hwm, creating, admin, leaving>>

\* Second transaction of finish_claim, after the TaskCompleted hook accepted.
HookAccepts(m) ==
    /\ run[m].phase = "hook" /\ CanDraw
    /\ IF ~ScopeOk(m)
       THEN run' = Dropped(m) /\ UNCHANGED task
       ELSE IF ~Unchanged(run[m].task, run[m].before)
       THEN run' = At(m, "rejected") /\ UNCHANGED task
       ELSE /\ task' = [task EXCEPT ![run[m].task] =
                           Written(Updated(run[m].before, "completed", NoOne, NoClaim))]
            /\ run' = Dropped(m)
    /\ UNCHANGED <<gen, up, members, active, life, hwm, creating, admin, leaving>>

HookRejects(m) ==
    /\ run[m].phase = "hook"
    /\ run' = At(m, "rejected")
    /\ UNCHANGED <<gen, up, members, active, life, hwm, task, creating, admin, leaving>>

\* Mutant: a rejected completion is dropped.
RereadGivesUp(m) ==
    /\ run[m].phase = "rejected"
    /\ run' = Dropped(m)
    /\ UNCHANGED <<gen, up, members, active, life, hwm, task, creating, admin, leaving>>

\* _finish_task after a RuntimeError: is the claim still the task's claim?
Reread(m) ==
    /\ run[m].phase = "rejected"
    /\ run' = IF ScopeOk(m) /\ ClaimIsCurrent(m) THEN At(m, "refail") ELSE Dropped(m)
    /\ UNCHANGED <<gen, up, members, active, life, hwm, task, creating, admin, leaving>>

\* ... then it is marked failed; if it is not current any more the loop ends
\* with the exception, and its finally block tries to publish "cancelled".
FailClaim(m) ==
    /\ run[m].phase = "refail" /\ CanDraw
    /\ IF ScopeOk(m) /\ Expected(m)
       THEN /\ task' = [task EXCEPT ![run[m].task] =
                           Written(Updated(@, "failed", NoOne, NoClaim))]
            /\ run' = Dropped(m)
       ELSE /\ run' = [Done(m, "cancelled") EXCEPT ![m].stop = TRUE]
            /\ UNCHANGED task
    /\ UNCHANGED <<gen, up, members, active, life, hwm, creating, admin, leaving>>

\* The loop ends and deactivates its member, unless the membership is over or
\* a TeammateIdle hook refuses; the lock is held throughout.
LoopEnds(m) ==
    /\ run[m].phase = "idle"
    /\ run[m].stop \/ ~ScopeOk(m)
    /\ run' = [run EXCEPT ![m] = LoopOff]
    /\ \/ ScopeOk(m) /\ Deactivated(m)
       \/ UNCHANGED <<active, task>>
    /\ UNCHANGED <<gen, up, members, life, hwm, creating, admin, leaving>>

-----------------------------------------------------------------------------
Teams ==
    \/ CreateTeam \/ DeleteTeam
    \/ \E m \in Members :
          AddMember(m) \/ Reactivate(m) \/ LeaveBegin(m) \/ LeaveEnd(m) \/ LeaveRefused(m)

List ==
    \/ \E n \in Ids, B \in SUBSET Live : CreateBegin(n, B)
    \/ \E c \in creating : CreateEnd(c) \/ CreateRefused(c)
    \/ \E t \in Ids, s \in AdminStatuses \cup {Same}, o \in Members \cup {NoOne} : Update(t, s, o)
    \/ UpdateEnd \/ UpdateRefused
    \/ \E b, t \in Ids, rewritten \in BOOLEAN : Block(b, t, rewritten)
    \/ \E m \in Members, t \in Ids : UserClaim(m, t)

Executor(m) ==
    \/ Enter(m) \/ LaunchFails(m)
    \/ \E o \in Terminal : RunEnds(m, o)
    \/ Finish(m) \/ HookAccepts(m) \/ HookRejects(m)
    \/ Reread(m) \/ FailClaim(m) \/ LoopEnds(m)

Loop(m) == Executor(m) \/ Stop(m) \/ \E t \in Ids : ClaimNext(m, t)

Next == Teams \/ List \/ \E m \in Members : Loop(m)

Spec == Init /\ [][Next]_vars

\* A loop that has work goes on with it: runs end, hooks return.
FairSpec == Spec /\ \A m \in Members : WF_vars(Executor(m))

-----------------------------------------------------------------------------
Record == [status : Statuses, owner : Members \cup {NoOne}, claim : Claims \cup {NoClaim},
           rev : Revisions, blockedBy : SUBSET Ids]
Phases == {"off", "idle", "launching", "running", "done", "hook", "rejected", "refail"}

TypeOK ==
    /\ gen \in 0 .. MaxGen /\ up \in BOOLEAN
    /\ active \subseteq members /\ members \subseteq Members
    /\ life \in [Members -> 0 .. MaxLife]
    /\ hwm \in 0 .. MaxId
    /\ task \in [Ids -> Record \cup {NoTask}]
    /\ creating \subseteq [id : Ids, gen : 1 .. MaxGen, blockedBy : SUBSET Ids]
    /\ admin \in [task : Ids, gen : 1 .. MaxGen, before : Record, after : Record] \cup {NoAdmin}
    /\ leaving \in [Members -> [gen : 1 .. MaxGen, life : 1 .. MaxLife] \cup {NotLeaving}]
    /\ run \in [Members -> [phase : Phases, gen : 0 .. MaxGen, life : 0 .. MaxLife,
                            stop : BOOLEAN, task : 0 .. MaxId, claim : Claims \cup {NoClaim},
                            outcome : Terminal \cup {"none"}, before : Record \cup {NoTask}]]

\* A task is claimed exactly while it is in progress, through resets,
\* reassignments, revocations, outcomes and retries.
ClaimedIffInProgress ==
    \A t \in Ids : task[t].claim # NoClaim <=> task[t].status = "in_progress"

\* Work in progress belongs to an active member: deactivation, re-registration
\* and reactivation leave nothing running behind.  (Callers that assign work
\* in progress themselves can break this, hence the restriction.)
OwnersAreActive ==
    "in_progress" \notin AdminStatuses =>
        \A t \in Ids : task[t].status = "in_progress" => up /\ task[t].owner \in active

\* No member has two tasks in progress, whoever claimed them for it.
OneTaskPerMember ==
    "in_progress" \notin AdminStatuses =>
        \A t, u \in Ids : /\ task[t].status = "in_progress"
                          /\ task[u].status = "in_progress"
                          /\ task[t].owner = task[u].owner
                          => t = u

\* A number reserved by a creation of this team is nobody else's: no task has
\* it when the hook returns, and no creation begun meanwhile was given it.
ReservationsHold ==
    \A c \in creating : up /\ c.gen = gen =>
        /\ task[c.id] = NoTask
        /\ \A d \in creating : d.gen = gen /\ d.id = c.id => d = c

\* A new membership starts with nothing in progress.
LifetimeStartsClean ==
    [][\A m \in Members : life'[m] # life[m] =>
          \A t \in Ids : task'[t].owner = m => task'[t].status # "in_progress"
              \/ "in_progress" \in AdminStatuses]_vars

\* A terminal task stays what it is until it is explicitly reset.
TerminalStays ==
    [][\A t \in Ids : task[t].status \in Terminal =>
          task'[t].status \in {task[t].status, "pending"} \/ ~up']_vars

\* A loop publishes an outcome only on the attempt it executed: the task is
\* still in progress under its own claim when the outcome is written.
OutcomeIsCurrent ==
    [][\A m \in Members :
          run[m].phase \in {"done", "hook", "refail"} /\ run'[m] # run[m] =>
              \A t \in Ids : task'[t] # task[t] =>
                  /\ t = run[m].task /\ ScopeOk(m) /\ ClaimIsCurrent(m)
                  /\ task'[t] = Written(Updated(task[t], task'[t].status, NoOne, NoClaim))]_vars

\* An outcome is written by the attempt it belongs to, and then it stands.
OutcomesStand == TerminalStays /\ OutcomeIsCurrent

\* What was started for one team never changes the tasks of the next one.
OldTeamChangesNothing ==
    [][/\ \A c \in creating \ creating' : c.gen # gen => UNCHANGED task
       /\ admin # NoAdmin /\ admin' = NoAdmin /\ admin.gen # gen => UNCHANGED task]_vars

\* A deactivation whose hook outlived its membership revokes nothing: the
\* agent may have been registered again meanwhile.
OldLeaveEndsNothing ==
    [][\A m \in Members :
          /\ leaving[m] # NotLeaving /\ leaving'[m] = NotLeaving
          /\ leaving[m].gen # gen \/ leaving[m].life # life[m]
          => UNCHANGED <<active, task>>]_vars

\* Nothing passes from one lifetime of a member or of a team to the next.
LifetimesApart == LifetimeStartsClean /\ OldTeamChangesNothing /\ OldLeaveEndsNothing

\* A claim taken by a loop ends: the task gets an outcome or the claim is
\* revoked, through rejected hooks, failed launches, stops and lost teams.
ClaimsEnd ==
    \A m \in Members, t \in Ids, c \in Claims :
        (run[m].task = t /\ run[m].claim = c /\ task[t].claim = c) ~> task[t].claim # c
=============================================================================
