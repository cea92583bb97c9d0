--------------------------- MODULE TeamTasksProofs ---------------------------
(***************************************************************************)
(* Machine-checked facts about TeamTasks, for any members, tasks, teams    *)
(* and memberships.                                                        *)
(***************************************************************************)
EXTENDS TeamTasks, TLAPS

Slot == Record \cup {NoTask}
LoopFields == [phase : Phases, gen : 0 .. MaxGen, life : 0 .. MaxLife, stop : BOOLEAN,
               task : 0 .. MaxId, claim : Claims \cup {NoClaim},
               outcome : Terminal \cup {"none"}, before : Slot]
\* A loop with work knows its task, its outcome and its snapshot.
LoopRecord ==
    {r \in LoopFields : /\ r.phase \notin {"off", "idle"} => r.task \in Ids
                        /\ r.phase = "done" => r.outcome \in Terminal
                        /\ r.phase = "hook" => r.before \in Record}
Creation == [id : Ids, gen : 1 .. MaxGen, blockedBy : SUBSET Ids]
Completion == [task : Ids, gen : 1 .. MaxGen, before : Record, after : Record]
Departure == [gen : 1 .. MaxGen, life : 1 .. MaxLife]

\* The part of TypeOK that team operations change.
TeamType ==
    /\ gen \in 0 .. MaxGen /\ up \in BOOLEAN
    /\ active \subseteq members /\ members \subseteq Members
    /\ life \in [Members -> 0 .. MaxLife]

\* Between the operations: a team that exists has a generation, a member a
\* membership.
Lifetimes ==
    /\ up => gen \in 1 .. MaxGen
    /\ \A m \in members : life[m] \in 1 .. MaxLife
    /\ ~up => members = {}

\* The inductive form of TypeOK.
Typed ==
    /\ TeamType /\ Lifetimes
    /\ hwm \in 0 .. MaxId
    /\ task \in [Ids -> Slot]
    /\ creating \subseteq Creation
    /\ admin \in Completion \cup {NoAdmin}
    /\ leaving \in [Members -> Departure \cup {NotLeaving}]
    /\ run \in [Members -> LoopRecord]

LEMMA SlotFacts ==
    /\ NoTask \in Slot /\ NoTask \notin Record
    /\ \A r \in Slot : r # NoTask => r \in Record
    /\ \A r \in Record : r \in Slot /\ r # NoTask
    /\ NoTask.status = "none" /\ NoTask.owner = NoOne /\ NoTask.claim = NoClaim
    /\ NoTask.status \notin Statuses
  BY DEF Slot, Record, NoTask, Statuses, Terminal

LEMMA RecordFields ==
    ASSUME NEW r \in Record
    PROVE  /\ r.status \in Statuses /\ r.owner \in Members \cup {NoOne}
           /\ r.claim \in Claims \cup {NoClaim}
           /\ r.rev \in Revisions /\ r.blockedBy \subseteq Ids
  BY DEF Record

LEMMA Drawn ==
    ASSUME CanDraw
    PROVE  ANewClaim \in Claims /\ ANewClaim # NoClaim /\ ANewRevision \in Revisions
<1>1. ANewClaim \in FreshClaims /\ ANewRevision \in FreshRevisions
    BY DEF CanDraw, ANewClaim, ANewRevision
<1> QED
    BY <1>1, TeamConstants DEF FreshClaims, FreshRevisions, TeamConstants

\* Writing a record changes its revision only.
LEMMA WrittenType ==
    ASSUME CanDraw, NEW r \in Record
    PROVE  /\ Written(r) \in Record
           /\ Written(r).status = r.status /\ Written(r).owner = r.owner
           /\ Written(r).claim = r.claim /\ Written(r).blockedBy = r.blockedBy
  BY Drawn DEF Written, Record

LEMMA UpdatedType ==
    ASSUME NEW r \in Record, NEW s \in Statuses \cup {Same}, NEW o \in Members \cup {NoOne},
           NEW c \in Claims \cup {NoClaim}
    PROVE  Updated(r, s, o, c) \in Record
<1> DEFINE reassigned == s # "pending" /\ o \notin {NoOne, r.owner}
           asked == IF s = Same THEN r.status ELSE s
           status == IF reassigned /\ r.status = "in_progress" /\ asked = "in_progress"
                     THEN "pending" ELSE asked
           kept == IF s = "pending" \/ reassigned THEN NoClaim ELSE r.claim
           owner == IF s = "pending" \/ o # NoOne THEN o ELSE r.owner
           claim == IF status \in Terminal THEN NoClaim
                    ELSE IF status = "in_progress" /\ kept = NoClaim THEN c ELSE kept
<1>1. /\ status \in Statuses /\ owner \in Members \cup {NoOne}
      /\ claim \in Claims \cup {NoClaim}
    BY RecordFields DEF Statuses, Same
<1>2. Updated(r, s, o, c) = [r EXCEPT !.status = status, !.owner = owner, !.claim = claim]
    BY DEF Updated
<1> QED
    BY <1>1, <1>2 DEF Record

LEMMA CancelledType ==
    ASSUME task \in [Ids -> Slot], CanDraw, NEW m \in Members
    PROVE  /\ Cancelled(m) \in [Ids -> Slot]
           /\ \A t \in Ids : IF task[t].owner = m /\ task[t].status = "in_progress"
                             THEN /\ Cancelled(m)[t] \in Record
                                  /\ Cancelled(m)[t].status = "cancelled"
                                  /\ Cancelled(m)[t].claim = NoClaim
                                  /\ Cancelled(m)[t].owner = m
                             ELSE Cancelled(m)[t] = task[t]
<1>1. ASSUME NEW t \in Ids, task[t].owner = m, task[t].status = "in_progress"
      PROVE  /\ Cancelled(m)[t] \in Record
             /\ Cancelled(m)[t].status = "cancelled"
             /\ Cancelled(m)[t].claim = NoClaim
             /\ Cancelled(m)[t].owner = m
  <2> DEFINE r == [task[t] EXCEPT !.status = "cancelled", !.claim = NoClaim]
  <2>1. task[t] \in Record
      BY <1>1, SlotFacts
  <2>2. r \in Record /\ r.status = "cancelled" /\ r.claim = NoClaim /\ r.owner = m
      BY <1>1, <2>1 DEF Record, Statuses, Terminal
  <2>3. Cancelled(m)[t] = Written(r)
      BY <1>1 DEF Cancelled
  <2> QED
      BY <2>2, <2>3, WrittenType
<1>2. \A t \in Ids : ~(task[t].owner = m /\ task[t].status = "in_progress") =>
          Cancelled(m)[t] = task[t]
    BY DEF Cancelled
<1>3. Cancelled(m) \in [Ids -> Slot]
    BY <1>1, <1>2, SlotFacts DEF Cancelled
<1> QED
    BY <1>1, <1>2, <1>3

\* A claimed task is in progress under its new owner.
LEMMA ClaimedType ==
    ASSUME task \in [Ids -> Slot], NEW m \in Members, NEW t \in Ids, Claimable(m, t), CanDraw
    PROVE  /\ Claimed(m, t) \in Record /\ Claimed(m, t) \in Slot
           /\ Claimed(m, t).status = "in_progress" /\ Claimed(m, t).owner = m
           /\ Claimed(m, t).claim \in Claims
<1> DEFINE r == [task[t] EXCEPT !.status = "in_progress", !.owner = m, !.claim = ANewClaim]
<1>1. task[t] \in Record
    BY SlotFacts DEF Claimable, Live
<1>2. CASE IsRunning(t, m)
    BY <1>1, <1>2, SlotFacts, RecordFields DEF Claimed, IsRunning
<1>3. CASE ~IsRunning(t, m)
  <2>1. /\ r \in Record /\ r.status = "in_progress" /\ r.owner = m /\ r.claim = ANewClaim
      BY <1>1, Drawn DEF Record, Statuses
  <2>2. Claimed(m, t) = Written(r)
      BY <1>3 DEF Claimed
  <2> QED
      BY <2>1, <2>2, Drawn, WrittenType, SlotFacts
<1> QED
    BY <1>2, <1>3

LEMMA LoopFacts ==
    ASSUME NEW r \in LoopRecord
    PROVE  /\ r.task \in 0 .. MaxId /\ r.claim \in Claims \cup {NoClaim}
           /\ r.gen \in 0 .. MaxGen /\ r.life \in 0 .. MaxLife /\ r.stop \in BOOLEAN
           /\ r.before \in Slot /\ r.outcome \in Terminal \cup {"none"} /\ r.phase \in Phases
           /\ r.phase \notin {"off", "idle"} => r.task \in Ids
           /\ r.phase = "done" => r.outcome \in Terminal
           /\ r.phase = "hook" => r.before \in Record
  BY DEF LoopRecord, LoopFields

LEMMA LoopOffType == LoopOff \in LoopRecord
<1>1. /\ 0 \in 0 .. MaxId /\ 0 \in 0 .. MaxGen /\ 0 \in 0 .. MaxLife
      /\ "off" \in Phases /\ NoTask \in Slot
    BY SlotFacts, TeamConstants DEF TeamConstants, Phases
<1> QED
    BY <1>1 DEF LoopOff, LoopRecord, LoopFields

\* The loops after each way of moving on.
LEMMA LoopTypes ==
    ASSUME run \in [Members -> LoopRecord], NEW m \in Members
    PROVE  /\ Dropped(m) \in [Members -> LoopRecord]
           /\ [run EXCEPT ![m].stop = TRUE] \in [Members -> LoopRecord]
           /\ [run EXCEPT ![m] = LoopOff] \in [Members -> LoopRecord]
<1>1. run[m] \in LoopRecord
    OBVIOUS
<1>2. 0 \in 0 .. MaxId /\ "idle" \in Phases /\ NoTask \in Slot
    BY SlotFacts, TeamConstants DEF TeamConstants, Phases
<1>3. [run[m] EXCEPT !.phase = "idle", !.task = 0, !.claim = NoClaim,
                     !.outcome = "none", !.before = NoTask] \in LoopRecord
    BY <1>1, <1>2 DEF LoopRecord, LoopFields
<1>4. [run[m] EXCEPT !.stop = TRUE] \in LoopRecord
    BY <1>1 DEF LoopRecord, LoopFields
<1>5. Dropped(m) \in [Members -> LoopRecord]
    BY <1>3 DEF Dropped
<1> QED
    BY <1>4, <1>5, LoopOffType

\* The same for a loop that has work.
LEMMA WorkTypes ==
    ASSUME run \in [Members -> LoopRecord], NEW m \in Members,
           run[m].phase \notin {"off", "idle"}
    PROVE  /\ \A o \in Terminal : /\ Done(m, o) \in [Members -> LoopRecord]
                                  /\ [Done(m, o) EXCEPT ![m].stop = TRUE] \in [Members -> LoopRecord]
           /\ \A p \in {"running", "rejected", "refail"} : At(m, p) \in [Members -> LoopRecord]
<1>1. run[m] \in LoopRecord /\ run[m].task \in Ids
    BY LoopFacts
<1>2. {"running", "rejected", "refail", "done"} \subseteq Phases /\ NoTask \in Slot
    BY SlotFacts DEF Phases
<1>3. ASSUME NEW o \in Terminal
      PROVE  /\ [run[m] EXCEPT !.phase = "done", !.outcome = o, !.before = NoTask] \in LoopRecord
             /\ [[run[m] EXCEPT !.phase = "done", !.outcome = o, !.before = NoTask]
                    EXCEPT !.stop = TRUE] \in LoopRecord
    BY <1>1, <1>2 DEF LoopRecord, LoopFields
<1>4. ASSUME NEW p \in {"running", "rejected", "refail"}
      PROVE  [[run[m] EXCEPT !.phase = p] EXCEPT !.before = NoTask] \in LoopRecord
    BY <1>1, <1>2 DEF LoopRecord, LoopFields
<1>5. ASSUME NEW o \in Terminal
      PROVE  /\ Done(m, o) \in [Members -> LoopRecord]
             /\ [Done(m, o) EXCEPT ![m].stop = TRUE] \in [Members -> LoopRecord]
    BY <1>3 DEF Done
<1>6. ASSUME NEW p \in {"running", "rejected", "refail"}
      PROVE  At(m, p) \in [Members -> LoopRecord]
    BY <1>4 DEF At
<1> QED
    BY <1>5, <1>6

\* Operations on teams and memberships.
LEMMA TeamsTyped ==
    ASSUME Typed, Teams
    PROVE  Typed'
<1>1. CASE CreateTeam
    BY <1>1, TeamConstants DEF CreateTeam, Typed, Lifetimes, TeamType, TeamConstants
<1>2. CASE DeleteTeam
  <2>1. task' \in [Ids -> Slot]
      BY <1>2, SlotFacts DEF DeleteTeam
  <2>2. TeamType' /\ Lifetimes'
      BY <1>2 DEF DeleteTeam, Typed, Lifetimes, TeamType
  <2>3. hwm' \in 0 .. MaxId
      BY <1>2, TeamConstants DEF DeleteTeam, TeamConstants
  <2> QED
      BY <1>2, <2>1, <2>2, <2>3 DEF DeleteTeam, Typed
<1>3. ASSUME NEW m \in Members, AddMember(m)
      PROVE  Typed'
  <2>1. /\ life \in [Members -> 0 .. MaxLife] /\ life[m] + 1 \in 1 .. MaxLife
        /\ gen \in 1 .. MaxGen
      BY <1>3, TeamConstants
      DEF AddMember, Typed, TeamType, TeamConstants, Lifetimes
  <2>2. /\ life' \in [Members -> 0 .. MaxLife] /\ life'[m] = life[m] + 1
        /\ \A n \in Members : n # m => life'[n] = life[n]
      BY <1>3, <2>1 DEF AddMember
  <2>3. TeamType' /\ Lifetimes'
      BY <1>3, <2>1, <2>2 DEF AddMember, Typed, TeamType, Lifetimes
  <2>4. task' \in [Ids -> Slot]
      BY <1>3, CancelledType DEF AddMember, Typed
  <2>5. [LoopOff EXCEPT !.phase = "idle", !.gen = gen, !.life = life[m] + 1] \in LoopRecord
    <3>1. LoopOff \in LoopRecord /\ LoopOff.phase = "off"
        BY LoopOffType DEF LoopOff
    <3>2. life[m] + 1 \in 0 .. MaxLife /\ gen \in 0 .. MaxGen /\ "idle" \in Phases
        BY <2>1 DEF Phases
    <3> QED
        BY <3>1, <3>2 DEF LoopRecord, LoopFields
  <2>6. run' \in [Members -> LoopRecord]
      BY <1>3, <2>5 DEF AddMember, Spawned, Typed
  <2> QED
      BY <1>3, <2>3, <2>4, <2>6 DEF AddMember, Typed
<1>4. ASSUME NEW m \in Members, Reactivate(m)
      PROVE  Typed'
  <2>1. /\ life \in [Members -> 0 .. MaxLife] /\ life[m] + 1 \in 1 .. MaxLife
      BY <1>4, TeamConstants DEF Reactivate, Typed, TeamType, TeamConstants
  <2>2. /\ life' \in [Members -> 0 .. MaxLife] /\ life'[m] = life[m] + 1
        /\ \A n \in Members : n # m => life'[n] = life[n]
      BY <1>4, <2>1 DEF Reactivate
  <2> QED
      BY <1>4, <2>1, <2>2 DEF Reactivate, Typed, TeamType, Lifetimes
<1>5. ASSUME NEW m \in Members, LeaveBegin(m)
      PROVE  Typed'
  <2>1. [gen |-> gen, life |-> life[m]] \in Departure
      BY <1>5 DEF LeaveBegin, Departure, Typed, Lifetimes
  <2>2. leaving' \in [Members -> Departure \cup {NotLeaving}]
      BY <1>5, <2>1 DEF LeaveBegin, Typed
  <2> QED
      BY <1>5, <2>2 DEF LeaveBegin, Typed, Lifetimes, TeamType
<1>6. ASSUME NEW m \in Members, LeaveEnd(m) \/ LeaveRefused(m)
      PROVE  Typed'
  <2>1. leaving' \in [Members -> Departure \cup {NotLeaving}]
      BY <1>6 DEF LeaveEnd, LeaveRefused, Typed
  <2>2. task' \in [Ids -> Slot] /\ active' \subseteq active
      BY <1>6, CancelledType DEF LeaveEnd, LeaveRefused, Deactivated, Typed
  <2>3. UNCHANGED <<gen, up, members, life, hwm, creating, admin, run>>
      BY <1>6 DEF LeaveEnd, LeaveRefused
  <2> QED
      BY <2>1, <2>2, <2>3 DEF Typed, Lifetimes, TeamType
<1> QED
    BY <1>1, <1>2, <1>3, <1>4, <1>5, <1>6 DEF Teams

\* Operations on the list.
LEMMA ListTyped ==
    ASSUME Typed, List
    PROVE  Typed'
<1> DEFINE Kept == UNCHANGED <<gen, up, members, active, life, leaving, run>>
<1>0. ASSUME Kept, task' \in [Ids -> Slot], hwm' \in 0 .. MaxId, creating' \subseteq Creation,
             admin' \in Completion \cup {NoAdmin}
      PROVE  Typed'
    BY <1>0 DEF Typed, TeamType, Lifetimes
<1>1. ASSUME NEW n \in Ids, NEW B \in SUBSET Live, CreateBegin(n, B)
      PROVE  Typed'
  <2>1. [id |-> n, gen |-> gen, blockedBy |-> B] \in Creation
      BY <1>1 DEF CreateBegin, Creation, Typed, Lifetimes, Live
  <2> QED
      BY <1>0, <1>1, <2>1 DEF CreateBegin, Typed, Ids
<1>2. ASSUME NEW c \in creating, CreateEnd(c) \/ CreateRefused(c)
      PROVE  Typed'
  <2>1. c \in Creation /\ c.id \in Ids /\ c.blockedBy \in SUBSET Ids
      BY DEF Typed, Creation
  <2>2. [NoTask EXCEPT !.status = "pending", !.blockedBy = c.blockedBy, !.rev = ANewRevision]
           \in Slot \/ CreateRefused(c)
      BY <1>2, <2>1, Drawn DEF CreateEnd, Slot, Record, NoTask, Statuses
  <2>3. task' \in [Ids -> Slot]
      BY <1>2, <2>1, <2>2 DEF CreateEnd, CreateRefused, Typed, Written
  <2> QED
      BY <1>0, <1>2, <2>3 DEF CreateEnd, CreateRefused, Typed
<1>3. ASSUME NEW t \in Ids, NEW s \in AdminStatuses \cup {Same}, NEW o \in Members \cup {NoOne},
             Update(t, s, o)
      PROVE  Typed'
  <2> DEFINE after == Updated(task[t], s, o, ANewClaim)
  <2>1. task[t] \in Record /\ s \in Statuses \cup {Same} /\ CanDraw
      BY <1>3, SlotFacts, TeamConstants DEF Update, Live, Typed, TeamConstants
  <2>2. after \in Record
      BY <2>1, UpdatedType, Drawn
  <2>3. Written(after) \in Slot
      BY <2>1, <2>2, WrittenType, SlotFacts
  <2>4. task' \in [Ids -> Slot]
      BY <1>3, <2>3 DEF Update, Typed
  <2>5. [task |-> t, gen |-> gen, before |-> task[t], after |-> after] \in Completion
      BY <1>3, <2>1, <2>2 DEF Update, Typed, Lifetimes, Completion
  <2>6. admin' \in Completion \cup {NoAdmin}
      BY <1>3, <2>5 DEF Update, Typed
  <2> QED
      BY <1>0, <1>3, <2>4, <2>6 DEF Update, Typed
<1>4. CASE UpdateEnd \/ UpdateRefused
  <2>1. admin \in Completion
      BY <1>4 DEF UpdateEnd, UpdateRefused, Typed
  <2>2. admin.task \in Ids /\ admin.after \in Record
      BY <2>1 DEF Completion
  <2>3. UpdateEnd => Written(admin.after) \in Slot
      BY <2>2, WrittenType, SlotFacts DEF UpdateEnd
  <2>4. task' \in [Ids -> Slot]
      BY <1>4, <2>3 DEF UpdateEnd, UpdateRefused, Typed
  <2> QED
      BY <1>0, <1>4, <2>4 DEF UpdateEnd, UpdateRefused, Typed
<1>5. ASSUME NEW b \in Ids, NEW t \in Ids, NEW rewritten \in BOOLEAN, Block(b, t, rewritten)
      PROVE  Typed'
  <2>1. task[t] \in Record /\ task[b] \in Record /\ CanDraw
      BY <1>5, SlotFacts DEF Block, Live, Typed
  <2>2. [task[t] EXCEPT !.blockedBy = task[t].blockedBy \cup {b}] \in Record
      BY <2>1 DEF Record
  <2>3. /\ Written([task[t] EXCEPT !.blockedBy = task[t].blockedBy \cup {b}]) \in Slot
        /\ Written(task[b]) \in Slot
      BY <2>1, <2>2, WrittenType, SlotFacts
  <2>4. task' \in [Ids -> Slot]
      BY <1>5, <2>3 DEF Block, Typed
  <2> QED
      BY <1>0, <1>5, <2>4 DEF Block, Typed
<1>6. ASSUME NEW m \in Members, NEW t \in Ids, UserClaim(m, t)
      PROVE  Typed'
  <2>1. Claimed(m, t) \in Slot
      BY <1>6, ClaimedType DEF UserClaim, Typed
  <2> QED
      BY <1>0, <1>6, <2>1 DEF UserClaim, Typed
<1> QED
    BY <1>1, <1>2, <1>3, <1>4, <1>5, <1>6 DEF List

\* A member's loop.
LEMMA LoopTyped ==
    ASSUME Typed, NEW m \in Members, Loop(m)
    PROVE  Typed'
<1>0. ASSUME UNCHANGED <<gen, up, members, life, hwm, creating, admin, leaving>>,
             active' \subseteq active, task' \in [Ids -> Slot], run' \in [Members -> LoopRecord]
      PROVE  Typed'
    BY <1>0 DEF Typed, TeamType, Lifetimes
<1>1. run \in [Members -> LoopRecord] /\ task \in [Ids -> Slot] /\ run[m] \in LoopRecord
    BY DEF Typed
<1>2. {"hook", "launching"} \subseteq Phases
    BY DEF Phases
<1>10. /\ Dropped(m) \in [Members -> LoopRecord]
       /\ [run EXCEPT ![m].stop = TRUE] \in [Members -> LoopRecord]
       /\ [run EXCEPT ![m] = LoopOff] \in [Members -> LoopRecord]
    BY <1>1, LoopTypes
<1>11. ASSUME run[m].phase \notin {"off", "idle"}
       PROVE  /\ \A o \in Terminal : Done(m, o) \in [Members -> LoopRecord]
              /\ [Done(m, "cancelled") EXCEPT ![m].stop = TRUE] \in [Members -> LoopRecord]
              /\ Done(m, "cancelled") \in [Members -> LoopRecord]
              /\ Done(m, "failed") \in [Members -> LoopRecord]
              /\ At(m, "running") \in [Members -> LoopRecord]
              /\ At(m, "rejected") \in [Members -> LoopRecord]
              /\ At(m, "refail") \in [Members -> LoopRecord]
    BY <1>1, <1>11, WorkTypes DEF Terminal
<1>3. ASSUME NEW t \in Ids, ClaimNext(m, t)
      PROVE  Typed'
  <2>1. task' = [task EXCEPT ![t] = Claimed(m, t)]
      BY <1>3 DEF ClaimNext
  <2>2. Claimed(m, t) \in Slot /\ Claimed(m, t).claim \in Claims
      BY <1>1, <1>3, ClaimedType DEF ClaimNext
  <2>3. task' \in [Ids -> Slot] /\ task'[t] = Claimed(m, t)
      BY <1>1, <2>1, <2>2
  <2>4. t \in 0 .. MaxId /\ task'[t].claim \in Claims \cup {NoClaim}
      BY <2>2, <2>3 DEF Ids
  <2>5. [run[m] EXCEPT !.phase = "launching", !.task = t, !.claim = task'[t].claim] \in LoopRecord
      BY <1>1, <1>2, <2>4 DEF LoopRecord, LoopFields
  <2>6. run' \in [Members -> LoopRecord]
      BY <1>1, <1>3, <2>5 DEF ClaimNext
  <2> QED
      BY <1>0, <1>3, <2>3, <2>6 DEF ClaimNext
<1>4. CASE Enter(m) \/ LaunchFails(m) \/ HookRejects(m) \/ Reread(m)
  <2>1. run[m].phase \notin {"off", "idle"}
      BY <1>4 DEF Enter, LaunchFails, HookRejects, Reread
  <2>3. Enter(m) => run' \in [Members -> LoopRecord]
      BY <1>11, <2>1 DEF Enter
  <2>4. LaunchFails(m) => run' \in [Members -> LoopRecord]
      BY <1>11, <2>1 DEF LaunchFails
  <2>5. HookRejects(m) => run' \in [Members -> LoopRecord]
      BY <1>11, <2>1 DEF HookRejects
  <2>6. Reread(m) => run' \in [Members -> LoopRecord]
      BY <1>10, <1>11, <2>1 DEF Reread
  <2>7. run' \in [Members -> LoopRecord]
      BY <1>4, <2>3, <2>4, <2>5, <2>6
  <2>2. UNCHANGED <<gen, up, members, active, life, hwm, task, creating, admin, leaving>>
      BY <1>4 DEF Enter, LaunchFails, HookRejects, Reread
  <2> QED
      BY <1>0, <1>1, <2>2, <2>7
<1>5. CASE Stop(m) \/ \E o \in Terminal : RunEnds(m, o)
  <2>1. run' \in [Members -> LoopRecord]
    <3>1. \A o \in Terminal : RunEnds(m, o) => run' \in [Members -> LoopRecord]
        BY <1>11 DEF RunEnds
    <3>2. Stop(m) => run' \in [Members -> LoopRecord]
        BY <1>10, <1>11 DEF Stop
    <3> QED
        BY <1>5, <3>1, <3>2
  <2>2. UNCHANGED <<gen, up, members, active, life, hwm, task, creating, admin, leaving>>
      BY <1>5 DEF Stop, RunEnds
  <2> QED
      BY <1>0, <1>1, <2>1, <2>2
<1>6. CASE Finish(m)
  <2> DEFINE r == task[run[m].task]
             after == Updated(r, run[m].outcome, NoOne, NoClaim)
  <2>1. run[m].task \in Ids /\ run[m].outcome \in Terminal
      BY <1>1, <1>6, LoopFacts DEF Finish
  <2>2. Expected(m) => r \in Record
      BY <1>1, <2>1, SlotFacts DEF Expected, ClaimIsCurrent
  <2>3. Expected(m) => Written(after) \in Slot
      BY <1>6, <2>1, <2>2, UpdatedType, WrittenType, SlotFacts DEF Finish, Statuses
  <2>4. Expected(m) => [run[m] EXCEPT !.phase = "hook", !.before = r] \in LoopRecord
    <3>1. SUFFICES ASSUME Expected(m)
                   PROVE  [run[m] EXCEPT !.phase = "hook", !.before = r] \in LoopRecord
        OBVIOUS
    <3>2. r \in Record /\ r \in Slot
        BY <2>2, <3>1, SlotFacts
    <3> QED
        BY <1>1, <1>2, <2>1, <3>2 DEF LoopRecord, LoopFields
  <2>5. Expected(m) => [run EXCEPT ![m].phase = "hook", ![m].before = r] \in [Members -> LoopRecord]
      BY <1>1, <2>4
  <2>6. run' \in [Members -> LoopRecord]
    <3>1. run[m].phase \notin {"off", "idle"}
        BY <1>6 DEF Finish
    <3>2. /\ Dropped(m) \in [Members -> LoopRecord]
          /\ At(m, "rejected") \in [Members -> LoopRecord]
        BY <1>10, <1>11, <3>1
    <3> QED
        BY <1>6, <2>5, <3>2 DEF Finish
  <2>7. task' \in [Ids -> Slot]
      BY <1>1, <1>6, <2>3 DEF Finish
  <2> QED
      BY <1>0, <1>6, <2>6, <2>7 DEF Finish
<1>7. CASE HookAccepts(m)
  <2>1. run[m].before \in Record
      BY <1>1, <1>7, LoopFacts DEF HookAccepts
  <2>2. Written(Updated(run[m].before, "completed", NoOne, NoClaim)) \in Slot
      BY <1>7, <2>1, UpdatedType, WrittenType, SlotFacts DEF HookAccepts, Statuses, Terminal
  <2>3. /\ Dropped(m) \in [Members -> LoopRecord]
        /\ At(m, "rejected") \in [Members -> LoopRecord]
      BY <1>7, <1>10, <1>11 DEF HookAccepts
  <2>4. run' \in [Members -> LoopRecord]
      BY <1>7, <2>3 DEF HookAccepts
  <2>5. task' \in [Ids -> Slot]
      BY <1>1, <1>7, <2>2 DEF HookAccepts
  <2> QED
      BY <1>0, <1>7, <2>4, <2>5 DEF HookAccepts
<1>8. CASE FailClaim(m)
  <2> DEFINE r == task[run[m].task]
  <2>1. run[m].task \in Ids
      BY <1>1, <1>8, LoopFacts DEF FailClaim
  <2>2. Expected(m) => r \in Record
      BY <1>1, <2>1, SlotFacts DEF Expected, ClaimIsCurrent
  <2>3. Expected(m) => Written(Updated(r, "failed", NoOne, NoClaim)) \in Slot
      BY <1>8, <2>2, UpdatedType, WrittenType, SlotFacts DEF FailClaim, Statuses, Terminal
  <2>4. run' \in [Members -> LoopRecord]
      BY <1>8, <1>10, <1>11 DEF FailClaim
  <2>5. task' \in [Ids -> Slot]
      BY <1>1, <1>8, <2>3 DEF FailClaim
  <2> QED
      BY <1>0, <1>8, <2>4, <2>5 DEF FailClaim
<1>9. CASE LoopEnds(m)
  <2>1. run' \in [Members -> LoopRecord]
      BY <1>1, <1>9, LoopTypes DEF LoopEnds
  <2>2. task' \in [Ids -> Slot] /\ active' \subseteq active
      BY <1>1, <1>9, CancelledType DEF LoopEnds, Deactivated
  <2> QED
      BY <1>0, <1>9, <2>1, <2>2 DEF LoopEnds
<1> QED
    BY <1>3, <1>4, <1>5, <1>6, <1>7, <1>8, <1>9 DEF Loop, Executor

LEMMA InitTyped == Init => Typed
<1> SUFFICES ASSUME Init PROVE Typed
    OBVIOUS
<1>1. /\ task \in [Ids -> Slot] /\ run \in [Members -> LoopRecord]
      /\ leaving \in [Members -> Departure \cup {NotLeaving}]
    BY SlotFacts, LoopOffType DEF Init
<1>2. 0 \in 0 .. MaxGen /\ 0 \in 0 .. MaxLife /\ 0 \in 0 .. MaxId
    BY TeamConstants DEF TeamConstants
<1>3. TeamType /\ Lifetimes /\ hwm \in 0 .. MaxId
    BY <1>2 DEF Init, TeamType, Lifetimes
<1> QED
    BY <1>1, <1>3 DEF Init, Typed

LEMMA TypedStep == Typed /\ [Next]_vars => Typed'
<1> SUFFICES ASSUME Typed, [Next]_vars PROVE Typed'
    OBVIOUS
<1>1. CASE UNCHANGED vars
    BY <1>1 DEF vars, Typed, TeamType, Lifetimes
<1> QED
    BY <1>1, TeamsTyped, ListTyped, LoopTyped DEF Next

LEMMA TypedAlways == Spec => []Typed
  BY InitTyped, TypedStep, PTL DEF Spec

\* Every variable keeps its type, and a record that is written is complete:
\* no status, owner or claim outside the sets of update_task and claim_task.
THEOREM TeamTypeCorrect == Spec => []TypeOK
<1>1. Typed => TypeOK
  <2> SUFFICES ASSUME Typed PROVE TypeOK
      OBVIOUS
  <2>1. run \in [Members -> LoopFields]
      BY DEF Typed, LoopRecord
  <2> QED
      BY <2>1 DEF Typed, TypeOK, TeamType, Slot, LoopFields, Creation, Completion, Departure
<1> QED
    BY <1>1, TypedAlways, PTL

(***************************************************************************)
(* Safety.  Every step does one of six things to a task; the invariants    *)
(* follow from which of them may happen when.                              *)
(***************************************************************************)

\* The claim of a record says whether it is in progress.
InStep(r) == r.claim # NoClaim <=> r.status = "in_progress"

\* A completion whose hook runs is a completion.
AdminCompletes == admin # NoAdmin => admin.after.status = "completed" /\ admin.after.claim = NoClaim

\* What a step does to a task.
KeptT(t) ==
    /\ task'[t].status = task[t].status
    /\ task'[t].owner = task[t].owner
    /\ task'[t].claim = task[t].claim
    /\ task[t] = NoTask => task'[t] = NoTask
ReleasedT(t) ==
    /\ task[t] # NoTask
    /\ task'[t].status # "in_progress" /\ task'[t].claim = NoClaim
RemovedT(t) == task'[t] = NoTask /\ ~up'
CreatedT(t) ==
    \E c \in creating :
        /\ c.id = t /\ up /\ c.gen = gen /\ creating' = creating \ {c}
        /\ task'[t].status # "in_progress" /\ task'[t].claim = NoClaim
TakenT(t) ==
    \E m \in active :
        /\ Claimable(m, t) /\ ~IsRunning(t, m)
        /\ task'[t].status = "in_progress" /\ task'[t].owner = m /\ task'[t].claim # NoClaim
        /\ \A u \in Ids \ {t} : task'[u] = task[u]
        /\ UNCHANGED <<up, active>>
AssignedT(t) ==
    /\ "in_progress" \in AdminStatuses /\ task[t] # NoTask
    /\ task'[t].status = "in_progress" /\ task'[t].claim # NoClaim

Kinds == \A t \in Ids : KeptT(t) \/ ReleasedT(t) \/ RemovedT(t) \/ CreatedT(t) \/ TakenT(t) \/ AssignedT(t)

\* Nothing in progress is left with a member that leaves or a team that goes.
Revokes ==
    /\ \A m \in active \ active' : \A t \in Ids : task'[t].owner = m => task'[t].status # "in_progress"
    /\ up /\ ~up' => \A t \in Ids : task'[t] = NoTask

-----------------------------------------------------------------------------
(* update_task.                                                            *)

\* An update releases the task, keeps it as it is, or is a request for
\* "in_progress"; a request for a terminal status releases it.
LEMMA UpdatedKinds ==
    ASSUME NEW r \in Record, InStep(r), NEW s \in Statuses \cup {Same},
           NEW o \in Members \cup {NoOne}, NEW c \in Claims \cup {NoClaim},
           c # NoClaim \/ s \in Terminal
    PROVE  /\ \/ Updated(r, s, o, c).status # "in_progress" /\ Updated(r, s, o, c).claim = NoClaim
              \/ /\ Updated(r, s, o, c).status = r.status
                 /\ Updated(r, s, o, c).owner = r.owner
                 /\ Updated(r, s, o, c).claim = r.claim
              \/ /\ s = "in_progress"
                 /\ Updated(r, s, o, c).status = "in_progress" /\ Updated(r, s, o, c).claim # NoClaim
           /\ s \in Terminal =>
                 Updated(r, s, o, c).status = s /\ Updated(r, s, o, c).claim = NoClaim
           /\ Updated(r, s, o, c).status = "completed" => Updated(r, s, o, c).claim = NoClaim
<1> DEFINE reassigned == s # "pending" /\ o \notin {NoOne, r.owner}
           asked == IF s = Same THEN r.status ELSE s
           status == IF reassigned /\ r.status = "in_progress" /\ asked = "in_progress"
                     THEN "pending" ELSE asked
           kept == IF s = "pending" \/ reassigned THEN NoClaim ELSE r.claim
           owner == IF s = "pending" \/ o # NoOne THEN o ELSE r.owner
           claim == IF status \in Terminal THEN NoClaim
                    ELSE IF status = "in_progress" /\ kept = NoClaim THEN c ELSE kept
<1> DEFINE u == Updated(r, s, o, c)
<1>1. u = [r EXCEPT !.status = status, !.owner = owner, !.claim = claim]
    BY DEF Updated
<1>2. u.status = status /\ u.owner = owner /\ u.claim = claim
    BY <1>1 DEF Record
<1>3. r.status \in Statuses /\ r.claim \in Claims \cup {NoClaim}
    BY RecordFields
<1> HIDE DEF u
<1>4. /\ status # "in_progress" => claim = NoClaim
      /\ status = "completed" => claim = NoClaim
      /\ s \in Terminal => status = s /\ claim = NoClaim
    BY <1>3 DEF InStep, Statuses, Terminal, Same
<1>5. status = "in_progress" => \/ s = Same /\ r.status = "in_progress" /\ ~reassigned
                                \/ s = "in_progress"
    BY <1>3 DEF Statuses, Terminal, Same
<1>6. ASSUME s = Same, r.status = "in_progress", ~reassigned
      PROVE  status = r.status /\ owner = r.owner /\ claim = r.claim
    BY <1>3, <1>6 DEF InStep, Terminal, Same
<1>7. ASSUME s = "in_progress", status = "in_progress"
      PROVE  claim # NoClaim
    BY <1>3, <1>7 DEF Terminal
<1>8. \/ u.status # "in_progress" /\ u.claim = NoClaim
      \/ u.status = r.status /\ u.owner = r.owner /\ u.claim = r.claim
      \/ s = "in_progress" /\ u.status = "in_progress" /\ u.claim # NoClaim
    BY <1>2, <1>4, <1>5, <1>6, <1>7
<1>9. /\ s \in Terminal => u.status = s /\ u.claim = NoClaim
      /\ u.status = "completed" => u.claim = NoClaim
    BY <1>2, <1>4
<1> QED
    BY <1>8, <1>9 DEF u

-----------------------------------------------------------------------------
(* What each operation does.                                               *)

\* Writing an updated record releases the task, keeps it or assigns it.
LEMMA WrittenKinds ==
    ASSUME Typed, ClaimedIffInProgress, CanDraw, NEW t \in Ids, task[t] # NoTask,
           NEW s \in AdminStatuses \cup Terminal \cup {Same},
           NEW o \in Members \cup {NoOne}, NEW c \in Claims \cup {NoClaim},
           c # NoClaim \/ s \in Terminal,
           task'[t] = Written(Updated(task[t], s, o, c))
    PROVE  KeptT(t) \/ ReleasedT(t) \/ AssignedT(t)
<1> DEFINE u == Updated(task[t], s, o, c)
<1>1. task[t] \in Record
    BY SlotFacts DEF Typed
<1>2. InStep(task[t])
    BY DEF InStep, ClaimedIffInProgress
<1>3. s \in Statuses \cup {Same}
    BY TeamConstants DEF TeamConstants, Statuses
<1>4. u \in Record
    BY <1>1, <1>3, UpdatedType
<1>5. /\ task'[t].status = u.status /\ task'[t].owner = u.owner /\ task'[t].claim = u.claim
    BY <1>4, WrittenType
<1>6. \/ u.status # "in_progress" /\ u.claim = NoClaim
      \/ u.status = task[t].status /\ u.owner = task[t].owner /\ u.claim = task[t].claim
      \/ s = "in_progress" /\ u.status = "in_progress" /\ u.claim # NoClaim
    BY <1>1, <1>2, <1>3, UpdatedKinds
<1>7. s = "in_progress" => "in_progress" \in AdminStatuses
    BY DEF Terminal, Same
<1> HIDE DEF u
<1> QED
    BY <1>5, <1>6, <1>7 DEF KeptT, ReleasedT, AssignedT

\* Revoking a member's attempts.
LEMMA CancelledKinds ==
    ASSUME Typed, CanDraw, NEW m \in Members, task' = Cancelled(m)
    PROVE  /\ \A t \in Ids : KeptT(t) \/ ReleasedT(t)
           /\ \A t \in Ids : task'[t].owner = m => task'[t].status # "in_progress"
<1> SUFFICES ASSUME NEW t \in Ids
             PROVE  /\ KeptT(t) \/ ReleasedT(t)
                    /\ task'[t].owner = m => task'[t].status # "in_progress"
    OBVIOUS
<1>1. IF task[t].owner = m /\ task[t].status = "in_progress"
      THEN task'[t].status = "cancelled" /\ task'[t].claim = NoClaim
      ELSE task'[t] = task[t]
    BY CancelledType DEF Typed
<1>2. task[t].status = "in_progress" => task[t] # NoTask
    BY SlotFacts
<1> QED
    BY <1>1, <1>2 DEF KeptT, ReleasedT

LEMMA TakenKinds ==
    ASSUME Typed, CanDraw, NEW m \in Members, NEW t \in Ids, Claimable(m, t),
           task' = [task EXCEPT ![t] = Claimed(m, t)], UNCHANGED <<up, active>>
    PROVE  \A u \in Ids : KeptT(u) \/ TakenT(u)
<1>1. /\ task'[t] = Claimed(m, t)
      /\ \A u \in Ids \ {t} : task'[u] = task[u]
    BY DEF Typed
<1>2. m \in active
    BY DEF Claimable
<1>3. CASE IsRunning(t, m)
    BY <1>1, <1>3 DEF Claimed, KeptT
<1>4. CASE ~IsRunning(t, m)
  <2>1. task'[t].status = "in_progress" /\ task'[t].owner = m /\ task'[t].claim # NoClaim
      BY <1>1, ClaimedType, TeamConstants DEF Typed, TeamConstants
  <2>2. TakenT(t)
      BY <1>1, <1>2, <1>4, <2>1 DEF TakenT
  <2> QED
      BY <1>1, <2>2 DEF KeptT
<1> QED
    BY <1>3, <1>4

LEMMA UnchangedKinds ==
    ASSUME UNCHANGED task
    PROVE  Kinds
  BY DEF Kinds, KeptT

LEMMA TeamsKinds ==
    ASSUME Typed, Teams
    PROVE  Kinds /\ Revokes
<1>1. CASE CreateTeam
    BY <1>1, UnchangedKinds DEF CreateTeam, Revokes
<1>2. CASE DeleteTeam
    BY <1>2 DEF DeleteTeam, Kinds, RemovedT, Revokes
<1>3. ASSUME NEW m \in Members, AddMember(m) \/ Reactivate(m) \/ LeaveBegin(m) \/ LeaveRefused(m)
      PROVE  Kinds /\ Revokes
  <2>1. active \subseteq active' /\ UNCHANGED up
      BY <1>3 DEF AddMember, Reactivate, LeaveBegin, LeaveRefused
  <2>2. UNCHANGED task \/ (CanDraw /\ task' = Cancelled(m))
      BY <1>3 DEF AddMember, Reactivate, LeaveBegin, LeaveRefused
  <2> QED
      BY <2>1, <2>2, CancelledKinds, UnchangedKinds DEF Kinds, Revokes
<1>4. ASSUME NEW m \in Members, LeaveEnd(m)
      PROVE  Kinds /\ Revokes
  <2>1. \/ UNCHANGED <<active, task>>
        \/ CanDraw /\ active' = active \ {m} /\ task' = Cancelled(m)
      BY <1>4 DEF LeaveEnd, Deactivated
  <2>2. UNCHANGED up
      BY <1>4 DEF LeaveEnd
  <2> QED
      BY <2>1, <2>2, CancelledKinds, UnchangedKinds DEF Kinds, Revokes
<1> QED
    BY <1>1, <1>2, <1>3, <1>4 DEF Teams

LEMMA ListKinds ==
    ASSUME Typed, ClaimedIffInProgress, AdminCompletes, List
    PROVE  Kinds /\ Revokes
<1>1. UNCHANGED <<up, active>> /\ Revokes
  <2>1. UNCHANGED <<up, active>>
      BY DEF List, CreateBegin, CreateEnd, CreateRefused, Update, UpdateEnd, UpdateRefused,
             Block, UserClaim
  <2> QED
      BY <2>1 DEF Revokes
<1>2. ASSUME NEW n \in Ids, NEW B \in SUBSET Live, CreateBegin(n, B)
      PROVE  Kinds
    BY <1>2, UnchangedKinds DEF CreateBegin
<1>3. ASSUME NEW c \in creating, CreateEnd(c)
      PROVE  Kinds
  <2>1. CASE ~Fenced(c.gen)
      BY <1>3, <2>1, UnchangedKinds DEF CreateEnd
  <2>2. CASE Fenced(c.gen)
    <3> DEFINE r == [NoTask EXCEPT !.status = "pending", !.blockedBy = c.blockedBy]
    <3>1. task'[c.id] = Written(r) /\ \A t \in Ids \ {c.id} : task'[t] = task[t]
        BY <1>3, <2>2 DEF CreateEnd, Typed, Creation
    <3>2. Written(r).status = "pending" /\ Written(r).claim = NoClaim
        BY DEF Written, NoTask
    <3>3. CreatedT(c.id)
        BY <1>3, <2>2, <3>1, <3>2 DEF CreatedT, CreateEnd, Fenced
    <3> QED
        BY <3>1, <3>3 DEF Kinds, KeptT
  <2> QED
      BY <2>1, <2>2
<1>4. ASSUME NEW t \in Ids, NEW s \in AdminStatuses \cup {Same}, NEW o \in Members \cup {NoOne},
             Update(t, s, o)
      PROVE  Kinds
  <2> DEFINE after == Updated(task[t], s, o, ANewClaim)
  <2>1. task[t] # NoTask /\ CanDraw
      BY <1>4 DEF Update, Live
  <2>2. CASE NeedsHook(task[t], after)
      BY <1>4, <2>2, UnchangedKinds DEF Update
  <2>3. CASE ~NeedsHook(task[t], after)
    <3>1. task' = [task EXCEPT ![t] = Written(after)]
        BY <1>4, <2>3 DEF Update
    <3>2. task'[t] = Written(after) /\ \A u \in Ids \ {t} : task'[u] = task[u]
        BY <3>1 DEF Typed
    <3>3. KeptT(t) \/ ReleasedT(t) \/ AssignedT(t)
        BY <2>1, <3>2, Drawn, WrittenKinds
    <3> QED
        BY <3>2, <3>3 DEF Kinds, KeptT
  <2> QED
      BY <2>2, <2>3
<1>5. ASSUME UpdateEnd
      PROVE  Kinds
  <2>1. CASE UNCHANGED task
      BY <2>1, UnchangedKinds
  <2>2. CASE task # task'
    <3>1. /\ task' = [task EXCEPT ![admin.task] = Written(admin.after)]
          /\ task[admin.task] = admin.before /\ admin # NoAdmin /\ CanDraw
        BY <1>5, <2>2 DEF UpdateEnd, Unchanged
    <3>2. admin.task \in Ids /\ admin.before \in Record /\ admin.after \in Record
        BY <3>1 DEF Typed, Completion
    <3>3. /\ task'[admin.task] = Written(admin.after)
          /\ \A u \in Ids \ {admin.task} : task'[u] = task[u]
        BY <3>1, <3>2 DEF Typed
    <3>4. ReleasedT(admin.task)
        BY <3>1, <3>2, <3>3, WrittenType, SlotFacts DEF AdminCompletes, ReleasedT
    <3> QED
        BY <3>3, <3>4 DEF Kinds, KeptT
  <2> QED
      BY <2>1, <2>2
<1>6. ASSUME NEW b \in Ids, NEW t \in Ids, NEW rewritten \in BOOLEAN, Block(b, t, rewritten)
      PROVE  Kinds
  <2> DEFINE r == [task[t] EXCEPT !.blockedBy = task[t].blockedBy \cup {b}]
  <2>1. task[t] \in Record /\ task[b] \in Record /\ CanDraw
      BY <1>6, SlotFacts DEF Block, Live, Typed
  <2>2. /\ r \in Record /\ r.status = task[t].status /\ r.owner = task[t].owner
        /\ r.claim = task[t].claim
      BY <2>1 DEF Record
  <2>3. task' = [u \in Ids |-> IF u = t /\ b \notin task[t].blockedBy THEN Written(r)
                               ELSE IF u = b /\ rewritten THEN Written(task[b])
                               ELSE task[u]]
      BY <1>6 DEF Block
  <2> HIDE DEF r
  <2>4. \A u \in Ids : \/ task'[u] = Written(r) /\ u = t
                       \/ task'[u] = Written(task[b]) /\ u = b
                       \/ task'[u] = task[u]
      BY <2>3
  <2>5. KeptT(t) \/ task'[t] # Written(r)
      BY <2>1, <2>2, WrittenType, SlotFacts DEF KeptT
  <2>6. KeptT(b) \/ task'[b] # Written(task[b])
      BY <2>1, WrittenType, SlotFacts DEF KeptT
  <2> QED
      BY <2>4, <2>5, <2>6 DEF Kinds, KeptT
<1>7. ASSUME NEW m \in Members, NEW t \in Ids, UserClaim(m, t)
      PROVE  Kinds
    BY <1>7, TakenKinds DEF UserClaim, Kinds
<1>8. ASSUME NEW c \in creating, CreateRefused(c)
      PROVE  Kinds
    BY <1>8, UnchangedKinds DEF CreateRefused
<1>9. UpdateRefused => Kinds
    BY UnchangedKinds DEF UpdateRefused
<1> QED
    BY <1>1, <1>2, <1>3, <1>4, <1>5, <1>6, <1>7, <1>8, <1>9 DEF List

LEMMA LoopKinds ==
    ASSUME Typed, ClaimedIffInProgress, NEW m \in Members, Loop(m)
    PROVE  Kinds /\ Revokes
<1>1. ASSUME UNCHANGED <<up, active>>
      PROVE  Revokes
    BY <1>1 DEF Revokes
<1>2. task \in [Ids -> Slot] /\ run[m] \in LoopRecord
    BY DEF Typed
<1>3. ASSUME NEW t \in Ids, ClaimNext(m, t)
      PROVE  Kinds /\ Revokes
    BY <1>1, <1>3, TakenKinds DEF ClaimNext, Kinds
<1>4. ASSUME UNCHANGED <<up, active, task>>
      PROVE  Kinds /\ Revokes
    BY <1>1, <1>4, UnchangedKinds
<1>5. ASSUME CanDraw, UNCHANGED <<up, active>>, NEW t \in Ids, task[t] # NoTask,
             NEW s \in Terminal, task' = [task EXCEPT ![t] = Written(Updated(task[t], s, NoOne, NoClaim))]
      PROVE  Kinds /\ Revokes
  <2>1. /\ task'[t] = Written(Updated(task[t], s, NoOne, NoClaim))
        /\ \A u \in Ids \ {t} : task'[u] = task[u]
      BY <1>2, <1>5
  <2>2. KeptT(t) \/ ReleasedT(t) \/ AssignedT(t)
      BY <1>5, <2>1, WrittenKinds
  <2> QED
      BY <1>1, <1>5, <2>1, <2>2 DEF Kinds, KeptT
<1>6. CASE Finish(m)
  <2>1. run[m].task \in Ids /\ run[m].outcome \in Terminal
      BY <1>2, <1>6, LoopFacts DEF Finish
  <2>2. Expected(m) => task[run[m].task] # NoTask
      BY SlotFacts DEF Expected, ClaimIsCurrent
  <2>3. \/ UNCHANGED task
        \/ /\ Expected(m)
           /\ task' = [task EXCEPT ![run[m].task] =
                          Written(Updated(task[run[m].task], run[m].outcome, NoOne, NoClaim))]
      BY <1>6 DEF Finish
  <2>4. CanDraw /\ UNCHANGED <<up, active>>
      BY <1>6 DEF Finish
  <2> QED
      BY <1>4, <1>5, <2>1, <2>2, <2>3, <2>4
<1>7. CASE HookAccepts(m)
  <2>1. run[m].task \in Ids /\ run[m].before \in Record
      BY <1>2, <1>7, LoopFacts DEF HookAccepts
  <2>2. \/ UNCHANGED task
        \/ /\ task[run[m].task] = run[m].before
           /\ task' = [task EXCEPT ![run[m].task] =
                          Written(Updated(run[m].before, "completed", NoOne, NoClaim))]
      BY <1>7 DEF HookAccepts, Unchanged
  <2>3. CanDraw /\ UNCHANGED <<up, active>> /\ "completed" \in Terminal
      BY <1>7 DEF HookAccepts, Terminal
  <2> QED
      BY <1>4, <1>5, <2>1, <2>2, <2>3, SlotFacts
<1>8. CASE FailClaim(m)
  <2>1. run[m].task \in Ids
      BY <1>2, <1>8, LoopFacts DEF FailClaim
  <2>2. Expected(m) => task[run[m].task] # NoTask
      BY SlotFacts DEF Expected, ClaimIsCurrent
  <2>3. \/ UNCHANGED task
        \/ /\ Expected(m)
           /\ task' = [task EXCEPT ![run[m].task] =
                          Written(Updated(task[run[m].task], "failed", NoOne, NoClaim))]
      BY <1>8 DEF FailClaim
  <2>4. CanDraw /\ UNCHANGED <<up, active>> /\ "failed" \in Terminal
      BY <1>8 DEF FailClaim, Terminal
  <2> QED
      BY <1>4, <1>5, <2>1, <2>2, <2>3, <2>4
<1>9. CASE LoopEnds(m)
  <2>1. \/ UNCHANGED <<active, task>>
        \/ CanDraw /\ active' = active \ {m} /\ task' = Cancelled(m)
      BY <1>9 DEF LoopEnds, Deactivated
  <2>2. UNCHANGED up
      BY <1>9 DEF LoopEnds
  <2> QED
      BY <1>4, <2>1, <2>2, CancelledKinds DEF Kinds, Revokes
<1>10. CASE Enter(m) \/ LaunchFails(m) \/ HookRejects(m) \/ Reread(m) \/ Stop(m)
           \/ \E o \in Terminal : RunEnds(m, o)
    BY <1>4, <1>10 DEF Enter, LaunchFails, HookRejects, Reread, Stop, RunEnds
<1> QED
    BY <1>3, <1>6, <1>7, <1>8, <1>9, <1>10 DEF Loop, Executor

-----------------------------------------------------------------------------
(* The invariants.                                                         *)

Core ==
    /\ Typed
    /\ ClaimedIffInProgress /\ AdminCompletes
    /\ OwnersAreActive /\ OneTaskPerMember

\* What is true of a snapshot taken for the hook stays true.
LEMMA AdminCompletesStep ==
    ASSUME Typed, ClaimedIffInProgress, AdminCompletes, Next
    PROVE  AdminCompletes'
<1>1. ASSUME NEW t \in Ids, NEW s \in AdminStatuses \cup {Same}, NEW o \in Members \cup {NoOne},
             Update(t, s, o)
      PROVE  AdminCompletes'
  <2> DEFINE after == Updated(task[t], s, o, ANewClaim)
  <2>1. task[t] \in Record /\ InStep(task[t]) /\ s \in Statuses \cup {Same} /\ CanDraw
      BY <1>1, SlotFacts, TeamConstants
      DEF Update, Live, Typed, ClaimedIffInProgress, InStep, TeamConstants
  <2>2. after.status = "completed" => after.claim = NoClaim
      BY <2>1, Drawn, UpdatedKinds
  <2>3. UNCHANGED admin \/ (NeedsHook(task[t], after) /\ admin'.after = after)
      BY <1>1 DEF Update
  <2> QED
      BY <2>2, <2>3 DEF NeedsHook, AdminCompletes
<1>2. ASSUME UNCHANGED admin \/ admin' = NoAdmin
      PROVE  AdminCompletes'
    BY <1>2 DEF AdminCompletes
<1>3. Teams => UNCHANGED admin
    BY DEF Teams, CreateTeam, DeleteTeam, AddMember, Reactivate, LeaveBegin, LeaveEnd, LeaveRefused
<1>4. \A m \in Members : Loop(m) => UNCHANGED admin
    BY DEF Loop, Executor, ClaimNext, Enter, LaunchFails, RunEnds, Stop, Finish, HookAccepts,
           HookRejects, Reread, FailClaim, LoopEnds
<1>5. ASSUME List
      PROVE  AdminCompletes'
    BY <1>1, <1>2, <1>5 DEF List, CreateBegin, CreateEnd, CreateRefused, UpdateEnd, UpdateRefused,
                            Block, UserClaim
<1> QED
    BY <1>2, <1>3, <1>4, <1>5 DEF Next

LEMMA CoreInit == Init => Core
<1> SUFFICES ASSUME Init PROVE Core
    OBVIOUS
<1>1. \A t \in Ids : task[t].status = "none" /\ task[t].claim = NoClaim
    BY SlotFacts DEF Init
<1> QED
    BY <1>1, InitTyped
    DEF Core, ClaimedIffInProgress, AdminCompletes, OwnersAreActive, OneTaskPerMember, Init

LEMMA CoreStep == Core /\ [Next]_vars => Core'
<1> SUFFICES ASSUME Core, [Next]_vars PROVE Core'
    OBVIOUS
<1>1. Typed /\ Typed'
    BY TypedStep DEF Core
<1>2. CASE UNCHANGED vars
    BY <1>1, <1>2 DEF vars, Core, ClaimedIffInProgress, AdminCompletes, OwnersAreActive,
                      OneTaskPerMember
<1>3. CASE Next
  <2>1. Kinds /\ Revokes
      BY <1>1, <1>3, TeamsKinds, ListKinds, LoopKinds DEF Core, Next
  <2>2. AdminCompletes'
      BY <1>1, <1>3, AdminCompletesStep DEF Core
  <2>3. ClaimedIffInProgress'
    <3> SUFFICES ASSUME NEW t \in Ids
                 PROVE  task'[t].claim # NoClaim <=> task'[t].status = "in_progress"
        BY DEF ClaimedIffInProgress
    <3>1. task[t].claim # NoClaim <=> task[t].status = "in_progress"
        BY DEF Core, ClaimedIffInProgress
    <3> QED
        BY <2>1, <3>1, SlotFacts
        DEF Kinds, KeptT, ReleasedT, RemovedT, CreatedT, TakenT, AssignedT
  <2>4. ASSUME "in_progress" \notin AdminStatuses, NEW t \in Ids, task'[t].status = "in_progress"
        PROVE  KeptT(t) \/ TakenT(t)
      BY <2>1, <2>4, SlotFacts DEF Kinds, ReleasedT, RemovedT, CreatedT, AssignedT
  <2>5. OwnersAreActive'
    <3> SUFFICES ASSUME "in_progress" \notin AdminStatuses,
                        NEW t \in Ids, task'[t].status = "in_progress"
                 PROVE  up' /\ task'[t].owner \in active'
        BY DEF OwnersAreActive
    <3>1. CASE TakenT(t)
        BY <3>1 DEF TakenT, Claimable
    <3>2. CASE KeptT(t)
      <4>1. up /\ task[t].owner \in active /\ task'[t].owner = task[t].owner
          BY <3>2 DEF KeptT, Core, OwnersAreActive
      <4>2. up'
          BY <1>1, <2>1, <4>1, SlotFacts DEF Revokes, Typed, TeamType
      <4> QED
          BY <2>1, <4>1, <4>2 DEF Revokes
    <3> QED
        BY <2>4, <3>1, <3>2
  <2>6. OneTaskPerMember'
    <3> SUFFICES ASSUME "in_progress" \notin AdminStatuses,
                        NEW t \in Ids, NEW u \in Ids, t # u,
                        task'[t].status = "in_progress", task'[u].status = "in_progress",
                        task'[t].owner = task'[u].owner
                 PROVE  FALSE
        BY DEF OneTaskPerMember
    <3>1. ASSUME NEW v \in Ids, NEW w \in Ids, v # w, TakenT(v), task'[w].status = "in_progress",
                 task'[v].owner = task'[w].owner
          PROVE  FALSE
      <4>1. PICK m \in active : /\ Claimable(m, v) /\ ~IsRunning(v, m) /\ task'[v].owner = m
                                /\ \A x \in Ids \ {v} : task'[x] = task[x]
          BY <3>1 DEF TakenT
      <4>2. task[w].owner = m /\ task[w].status = "in_progress"
          BY <3>1, <4>1
      <4> QED
          BY <3>1, <4>1, <4>2 DEF Claimable, Busy
    <3>2. KeptT(t) /\ KeptT(u)
        BY <2>4, <3>1
    <3> QED
        BY <3>2 DEF KeptT, Core, OneTaskPerMember
  <2> QED
      BY <1>1, <2>2, <2>3, <2>5, <2>6 DEF Core
<1> QED
    BY <1>2, <1>3

LEMMA CoreAlways == Spec => []Core
  BY CoreInit, CoreStep, PTL DEF Spec

\* Claims and statuses stay in step (update_task's three ways of changing a
\* claim, cancel_owner_tasks, claim_task and creation).
THEOREM ClaimsMatchStatuses == Spec => []ClaimedIffInProgress
  BY CoreAlways, PTL DEF Core

\* Deactivation, registration and deletion leave nothing in progress behind.
THEOREM NothingRunsForTheInactive == Spec => []OwnersAreActive
  BY CoreAlways, PTL DEF Core

\* check_agent_busy holds across claims by the loop and by the user.
THEOREM MembersDoOneThing == Spec => []OneTaskPerMember
  BY CoreAlways, PTL DEF Core

-----------------------------------------------------------------------------
(* Reserved numbers.                                                       *)

\* Creations belong to this team or to one of its predecessors, and the mark
\* has passed the numbers of this team's.
Reservations ==
    /\ ReservationsHold
    /\ \A c \in creating : up /\ c.gen = gen => c.id <= hwm
    /\ \A c \in creating : c.gen \in 0 .. gen

\* A task appears only where a creation of this team ends.
LEMMA NoTaskAppears ==
    ASSUME Typed, Kinds, NEW t \in Ids, task[t] = NoTask
    PROVE  task'[t] = NoTask \/ CreatedT(t)
<1>1. ~ReleasedT(t) /\ ~AssignedT(t) /\ ~TakenT(t)
    BY DEF ReleasedT, AssignedT, TakenT, Claimable, Live
<1> QED
    BY <1>1 DEF Kinds, KeptT, RemovedT

LEMMA ReservationsStep ==
    ASSUME Core, Reservations, [Next]_vars
    PROVE  Reservations'
<1>1. CASE UNCHANGED vars
    BY <1>1 DEF vars, Reservations, ReservationsHold
<1>2. CASE Next
  <2>1. Typed /\ Kinds
      BY <1>2, TeamsKinds, ListKinds, LoopKinds DEF Core, Next
  <2>2. gen \in Nat /\ hwm \in Nat /\ \A c \in creating : c.id \in Ids
      BY <2>1 DEF Typed, TeamType, Creation
  <2>3. \/ CreateTeam \/ DeleteTeam
        \/ \E n \in Ids, B \in SUBSET Live : CreateBegin(n, B)
        \/ UNCHANGED <<gen, up, hwm>> /\ creating' \subseteq creating
    <3>1. Teams => \/ CreateTeam \/ DeleteTeam
                   \/ UNCHANGED <<gen, up, hwm>> /\ creating' \subseteq creating
        BY DEF Teams, AddMember, Reactivate, LeaveBegin, LeaveEnd, LeaveRefused
    <3>2. List => \/ \E n \in Ids, B \in SUBSET Live : CreateBegin(n, B)
                  \/ UNCHANGED <<gen, up, hwm>> /\ creating' \subseteq creating
        BY DEF List, CreateEnd, CreateRefused, Update, UpdateEnd, UpdateRefused, Block, UserClaim
    <3>3. \A m \in Members : Loop(m) => UNCHANGED <<gen, up, hwm>> /\ creating' \subseteq creating
        BY DEF Loop, Executor, ClaimNext, Enter, LaunchFails, RunEnds, Stop, Finish, HookAccepts,
               HookRejects, Reread, FailClaim, LoopEnds
    <3> QED
        BY <1>2, <3>1, <3>2, <3>3 DEF Next
  <2>4. CASE CreateTeam
      BY <2>2, <2>4 DEF CreateTeam, Reservations, ReservationsHold
  <2>5. CASE DeleteTeam
      BY <2>2, <2>5 DEF DeleteTeam, Reservations, ReservationsHold
  <2>6. ASSUME NEW n \in Ids, NEW B \in SUBSET Live, CreateBegin(n, B)
        PROVE  Reservations'
    <3> DEFINE new == [id |-> n, gen |-> gen, blockedBy |-> B]
    <3>1. /\ creating' = creating \cup {new} /\ hwm' = n
          /\ UNCHANGED <<gen, up, task>> /\ n \in Nat
          /\ \A k \in Live \cup {hwm} : k < n
        BY <2>6 DEF CreateBegin, IsNext, Ids
    <3>2. task[n] = NoTask /\ hwm < n
        BY <2>2, <3>1 DEF Live, Ids
    <3>3. new.id = n /\ new.gen = gen
        OBVIOUS
    <3>4. \A c \in creating : up /\ c.gen = gen => c.id # n /\ c.id <= n
        BY <2>2, <3>1, <3>2 DEF Reservations, ReservationsHold, Ids
    <3> HIDE DEF new
    <3>5. \A c \in creating' : c.gen \in 0 .. gen'
        BY <2>2, <3>1, <3>3 DEF Reservations
    <3>6. ReservationsHold'
        BY <3>1, <3>2, <3>3, <3>4 DEF Reservations, ReservationsHold
    <3>7. \A c \in creating' : up' /\ c.gen = gen' => c.id <= hwm'
        BY <3>1, <3>3, <3>4
    <3> QED
        BY <3>5, <3>6, <3>7 DEF Reservations
  <2>7. ASSUME UNCHANGED <<gen, up, hwm>>, creating' \subseteq creating
        PROVE  Reservations'
    <3>1. ASSUME NEW c \in creating', up, c.gen = gen
          PROVE  task'[c.id] = NoTask
      <4>1. task[c.id] = NoTask /\ c.id \in Ids
          BY <2>2, <2>7, <3>1 DEF Reservations, ReservationsHold
      <4>2. ~CreatedT(c.id)
          BY <2>7, <3>1 DEF CreatedT, Reservations, ReservationsHold
      <4> QED
          BY <2>1, <4>1, <4>2, NoTaskAppears
    <3>2. ReservationsHold'
        BY <2>7, <3>1 DEF Reservations, ReservationsHold
    <3>3. \A c \in creating' : c.gen \in 0 .. gen' /\ (up' /\ c.gen = gen' => c.id <= hwm')
        BY <2>7 DEF Reservations
    <3> QED
        BY <3>2, <3>3 DEF Reservations
  <2> QED
      BY <2>3, <2>4, <2>5, <2>6, <2>7
<1> QED
    BY <1>1, <1>2

\* Between the reservation of a number and the hook's answer nobody else
\* gets it, whatever is created, deleted or refused meanwhile.
THEOREM ReservedNumbersAreFree == Spec => []ReservationsHold
<1>1. Init => Reservations
    BY DEF Init, Reservations, ReservationsHold
<1>2. Core /\ Reservations /\ [Next]_vars => Reservations'
    BY ReservationsStep
<1>3. Reservations => ReservationsHold
    BY DEF Reservations
<1> QED
    BY <1>1, <1>2, <1>3, CoreAlways, PTL DEF Spec

-----------------------------------------------------------------------------
(* Outcomes.                                                               *)

\* What a snapshot taken for a TaskCompleted hook was taken of: work that had
\* no outcome yet, and, for a loop, its own attempt.
SnapshotsAreOpen ==
    /\ admin # NoAdmin => admin.before.status \notin Terminal
    /\ \A m \in Members : run[m].phase = "hook" =>
          /\ run[m].before.status = "in_progress"
          /\ run[m].before.owner = m /\ run[m].before.claim = run[m].claim

\* The status that an update leaves.
LEMMA UpdatedStatus ==
    ASSUME NEW r \in Record, NEW s \in Statuses \cup {Same}, NEW o \in Members \cup {NoOne},
           NEW c \in Claims \cup {NoClaim}
    PROVE  /\ s \in Terminal => Updated(r, s, o, c).status = s
           /\ s = "pending" => Updated(r, s, o, c).status = "pending"
           /\ s = Same /\ r.status \in Terminal => Updated(r, s, o, c).status = r.status
<1> DEFINE status == IF /\ s # "pending" /\ o \notin {NoOne, r.owner}
                        /\ r.status = "in_progress"
                        /\ (IF s = Same THEN r.status ELSE s) = "in_progress"
                     THEN "pending" ELSE IF s = Same THEN r.status ELSE s
<1>1. Updated(r, s, o, c).status = status
    BY DEF Updated, Record
<1>2. Same \notin Terminal /\ "in_progress" \notin Terminal /\ Same # "pending"
    BY DEF Same, Terminal
<1> QED
    BY <1>1, <1>2

\* No team operation touches a task that has an outcome, but deletion.
LEMMA TeamsLeaveOutcomes ==
    ASSUME Typed, Teams, NEW t \in Ids, task[t].status \in Terminal
    PROVE  task'[t] = task[t] \/ ~up'
<1>1. ASSUME NEW m \in Members, CanDraw, task' = Cancelled(m)
      PROVE  task'[t] = task[t]
    BY <1>1, CancelledType DEF Typed, Terminal
<1>2. \A m \in Members : \/ UNCHANGED task
                         \/ ~(AddMember(m) \/ LeaveEnd(m))
                         \/ CanDraw /\ task' = Cancelled(m)
    BY DEF AddMember, LeaveEnd, Deactivated
<1> QED
    BY <1>1, <1>2 DEF Teams, CreateTeam, DeleteTeam, Reactivate, LeaveBegin, LeaveRefused

\* An operation on the list that changes a task with an outcome was asked to
\* reset it.
LEMMA ListLeavesOutcomes ==
    ASSUME Core, Reservations, SnapshotsAreOpen, List, NEW t \in Ids, task[t].status \in Terminal
    PROVE  task'[t].status \in {task[t].status, "pending"}
<1>1. Typed /\ task[t] \in Record /\ task \in [Ids -> Slot]
    BY SlotFacts DEF Core, Typed, Terminal
<1>2. ASSUME NEW c \in creating, CreateEnd(c)
      PROVE  task'[t] = task[t]
  <2>1. CASE ~Fenced(c.gen)
      BY <1>2, <2>1 DEF CreateEnd
  <2>2. CASE Fenced(c.gen)
    <3>1. task[c.id] = NoTask /\ c.id # t
        BY <1>1, <2>2, SlotFacts DEF Reservations, ReservationsHold, Fenced
    <3> QED
        BY <1>1, <1>2, <2>2, <3>1 DEF CreateEnd
  <2> QED
      BY <2>1, <2>2
<1>3. ASSUME NEW u \in Ids, NEW s \in AdminStatuses \cup {Same}, NEW o \in Members \cup {NoOne},
             Update(u, s, o)
      PROVE  task'[t].status \in {task[t].status, "pending"}
  <2> DEFINE after == Updated(task[t], s, o, ANewClaim)
  <2>1. CASE task'[t] = task[t]
      BY <2>1
  <2>2. CASE task'[t] # task[t]
    <3>1. u = t /\ CanDraw /\ MayBecome(task[t], s) /\ task'[t] = Written(after)
        BY <1>1, <1>3, <2>2 DEF Update
    <3>2. s \in {Same, task[t].status, "pending"} /\ s \in Statuses \cup {Same}
        BY <3>1, TeamConstants DEF MayBecome, TeamConstants
    <3>3. ANewClaim \in Claims \cup {NoClaim} /\ after \in Record
        BY <1>1, <3>1, <3>2, Drawn, UpdatedType
    <3>4. s = "pending" \/ s \in Terminal \/ s = Same
        BY <3>2
    <3>5. after.status \in {task[t].status, "pending"}
      <4>1. /\ s \in Terminal => after.status = s
            /\ s = "pending" => after.status = "pending"
            /\ s = Same => after.status = task[t].status
          BY <1>1, <3>2, <3>3, UpdatedStatus
      <4> HIDE DEF after
      <4> QED
          BY <3>2, <3>4, <4>1
    <3> QED
        BY <3>1, <3>3, <3>5, WrittenType
  <2> QED
      BY <2>1, <2>2
<1>4. ASSUME UpdateEnd
      PROVE  task'[t] = task[t]
  <2>1. CASE admin.task # t \/ UNCHANGED task
      BY <1>1, <1>4, <2>1 DEF UpdateEnd
  <2>2. CASE admin.task = t /\ task' # task
    <3>1. task[t] = admin.before /\ admin # NoAdmin
        BY <1>4, <2>2 DEF UpdateEnd, Unchanged
    <3> QED
        BY <3>1 DEF SnapshotsAreOpen
  <2> QED
      BY <2>1, <2>2
<1>5. ASSUME NEW b \in Ids, NEW u \in Ids, NEW rewritten \in BOOLEAN, Block(b, u, rewritten)
      PROVE  task'[t].status = task[t].status
  <2> DEFINE r == [task[t] EXCEPT !.blockedBy = task[t].blockedBy \cup {b}]
  <2>1. r \in Record /\ r.status = task[t].status /\ CanDraw
      BY <1>1, <1>5 DEF Record, Block
  <2>2. task'[t] = Written(r) \/ task'[t] = Written(task[t]) \/ task'[t] = task[t]
      BY <1>5 DEF Block
  <2> HIDE DEF r
  <2> QED
      BY <1>1, <2>1, <2>2, WrittenType
<1>6. ASSUME NEW m \in Members, NEW u \in Ids, UserClaim(m, u)
      PROVE  task'[t] = task[t]
    BY <1>1, <1>6 DEF UserClaim, Claimable
<1>7. CASE UNCHANGED task
    BY <1>7
<1> QED
    BY <1>2, <1>3, <1>4, <1>5, <1>6, <1>7
    DEF List, CreateBegin, CreateRefused, UpdateRefused

\* What a step of a loop does to the list: nothing, it publishes an outcome
\* on its own claim, it claims a task, or it revokes its member's attempts.
Publishes(m) ==
    /\ run[m].phase \in {"done", "hook", "refail"} /\ run[m].task \in Ids
    /\ ScopeOk(m) /\ ClaimIsCurrent(m) /\ CanDraw
    /\ \E s \in Terminal : task' = [task EXCEPT ![run[m].task] =
                               Written(Updated(task[run[m].task], s, NoOne, NoClaim))]

LEMMA LoopWrites ==
    ASSUME Typed, SnapshotsAreOpen, NEW m \in Members, Loop(m)
    PROVE  \/ UNCHANGED task
           \/ Publishes(m)
           \/ \E t \in Ids : ClaimNext(m, t)
           \/ run[m].phase = "idle" /\ CanDraw /\ task' = Cancelled(m)
<1>1. run[m] \in LoopRecord
    BY DEF Typed
<1>2. CASE Finish(m)
    BY <1>1, <1>2, LoopFacts DEF Finish, Expected, Publishes
<1>3. CASE HookAccepts(m)
  <2>1. CASE task' # task
    <3>1. /\ run[m].phase = "hook" /\ ScopeOk(m) /\ CanDraw
          /\ task[run[m].task] = run[m].before
          /\ task' = [task EXCEPT ![run[m].task] =
                          Written(Updated(task[run[m].task], "completed", NoOne, NoClaim))]
        BY <1>3, <2>1 DEF HookAccepts, Unchanged
    <3>2. ClaimIsCurrent(m)
        BY <3>1 DEF SnapshotsAreOpen, ClaimIsCurrent
    <3>3. run[m].task \in Ids /\ "completed" \in Terminal
        BY <1>1, <3>1, LoopFacts DEF Terminal
    <3> QED
        BY <3>1, <3>2, <3>3 DEF Publishes
  <2> QED
      BY <2>1
<1>4. CASE FailClaim(m)
  <2>1. run[m].task \in Ids /\ "failed" \in Terminal
      BY <1>1, <1>4, LoopFacts DEF FailClaim, Terminal
  <2> QED
      BY <1>4, <2>1 DEF FailClaim, Expected, Publishes
<1>5. CASE LoopEnds(m)
    BY <1>5 DEF LoopEnds, Deactivated
<1> QED
    BY <1>2, <1>3, <1>4, <1>5
    DEF Loop, Executor, Enter, LaunchFails, RunEnds, HookRejects, Reread, Stop

LEMMA LoopsLeaveOutcomes ==
    ASSUME Typed, SnapshotsAreOpen, NEW m \in Members, Loop(m),
           NEW t \in Ids, task[t].status \in Terminal
    PROVE  task'[t] = task[t]
<1>1. task \in [Ids -> Slot] /\ "in_progress" \notin Terminal
    BY DEF Typed, Terminal
<1>2. CASE Publishes(m)
    BY <1>1, <1>2 DEF Publishes, ClaimIsCurrent
<1>3. ASSUME NEW u \in Ids, ClaimNext(m, u)
      PROVE  task'[t] = task[t]
    BY <1>1, <1>3 DEF ClaimNext, Claimable
<1>4. CASE CanDraw /\ task' = Cancelled(m)
    BY <1>1, <1>4, CancelledType
<1> QED
    BY <1>2, <1>3, <1>4, LoopWrites

\* Which loop a step moves.
LEMMA LoopMoves ==
    ASSUME Typed, Next, NEW m \in Members, run'[m] # run[m]
    PROVE  \/ run[m].phase = "off" /\ run'[m].phase = "idle"
           \/ Loop(m)
<1>1. ASSUME Teams
      PROVE  run[m].phase = "off" /\ run'[m].phase = "idle"
  <2>1. PICK k \in Members : run' = Spawned(k)
      BY <1>1 DEF Teams, CreateTeam, DeleteTeam, AddMember, Reactivate, LeaveBegin, LeaveEnd,
                  LeaveRefused
  <2> QED
      BY <2>1 DEF Spawned, LoopOff, Typed
<1>2. List => UNCHANGED run
    BY DEF List, CreateBegin, CreateEnd, CreateRefused, Update, UpdateEnd, UpdateRefused,
           Block, UserClaim
<1>3. ASSUME NEW k \in Members, k # m, Loop(k)
      PROVE  run'[m] = run[m]
    BY <1>3 DEF Loop, Executor, ClaimNext, Enter, LaunchFails, RunEnds, Stop, Finish, HookAccepts,
                HookRejects, Reread, FailClaim, LoopEnds, Dropped, Done, At, Typed
<1> QED
    BY <1>1, <1>2, <1>3 DEF Next

\* The phase in which each way of moving on leaves a loop.
LEMMA PhaseAfter ==
    ASSUME run \in [Members -> LoopRecord], NEW m \in Members
    PROVE  /\ Dropped(m)[m].phase = "idle"
           /\ \A o \in Terminal : Done(m, o)[m].phase = "done"
           /\ \A o \in Terminal : [Done(m, o) EXCEPT ![m].stop = TRUE][m].phase = "done"
           /\ \A p \in Phases : At(m, p)[m].phase = p
           /\ [run EXCEPT ![m] = LoopOff][m].phase = "off"
<1>1. run[m] \in LoopFields
    BY DEF LoopRecord
<1>2. Dropped(m)[m].phase = "idle"
    BY <1>1 DEF Dropped, LoopFields
<1>3. ASSUME NEW o \in Terminal
      PROVE  Done(m, o)[m].phase = "done" /\ [Done(m, o) EXCEPT ![m].stop = TRUE][m].phase = "done"
  <2> DEFINE r == [run[m] EXCEPT !.phase = "done", !.outcome = o, !.before = NoTask]
  <2>1. Done(m, o) = [run EXCEPT ![m] = r]
      BY DEF Done
  <2>2. r.phase = "done" /\ [r EXCEPT !.stop = TRUE].phase = "done"
      BY <1>1 DEF LoopFields
  <2> HIDE DEF r
  <2>3. Done(m, o)[m] = r /\ [Done(m, o) EXCEPT ![m].stop = TRUE][m] = [r EXCEPT !.stop = TRUE]
      BY <2>1
  <2> QED
      BY <2>2, <2>3
<1>4. ASSUME NEW p \in Phases
      PROVE  At(m, p)[m].phase = p
  <2> DEFINE r == [run[m] EXCEPT !.phase = p]
  <2>1. r.phase = p /\ [r EXCEPT !.before = NoTask].phase = p
      BY <1>1 DEF LoopFields
  <2>2. At(m, p)[m] = [r EXCEPT !.before = NoTask]
      BY DEF At
  <2> QED
      BY <2>1, <2>2
<1>5. [run EXCEPT ![m] = LoopOff][m].phase = "off"
    BY DEF LoopOff
<1> QED
    BY <1>2, <1>3, <1>4, <1>5

\* A loop waits for a hook with the snapshot it took when it asked, of a task
\* that it had claimed.
LEMMA HookSnapshot ==
    ASSUME Typed, SnapshotsAreOpen, NEW m \in Members, Loop(m), run'[m].phase = "hook"
    PROVE  /\ run'[m].before.status = "in_progress"
           /\ run'[m].before.owner = m /\ run'[m].before.claim = run'[m].claim
<1>1. run[m] \in LoopFields /\ run \in [Members -> LoopRecord]
    BY DEF Typed, LoopRecord
<1>2. CASE Finish(m)
  <2> DEFINE r == task[run[m].task]
  <2>1. run' # Dropped(m) /\ run' # At(m, "rejected")
      BY <1>1, PhaseAfter DEF Phases
  <2>2. /\ run' = [run EXCEPT ![m].phase = "hook", ![m].before = r]
        /\ ClaimIsCurrent(m)
      BY <1>2, <2>1 DEF Finish, Expected
  <2>3. run'[m].before = r /\ run'[m].claim = run[m].claim
      BY <1>1, <2>2 DEF LoopFields
  <2> QED
      BY <2>2, <2>3 DEF ClaimIsCurrent
<1>3. CASE Stop(m)
  <2>1. \/ run'[m].phase = "done"
        \/ /\ run'[m].phase = run[m].phase /\ run'[m].before = run[m].before
           /\ run'[m].claim = run[m].claim
      BY <1>1, <1>3 DEF Stop, Done, LoopFields
  <2> QED
      BY <2>1 DEF SnapshotsAreOpen
<1>4. CASE \/ Enter(m) \/ LaunchFails(m) \/ HookRejects(m) \/ Reread(m)
           \/ (\E o \in Terminal : RunEnds(m, o)) \/ HookAccepts(m) \/ FailClaim(m) \/ LoopEnds(m)
  <2>1. \/ run' = Dropped(m)
        \/ \E o \in Terminal : run' = Done(m, o) \/ run' = [Done(m, o) EXCEPT ![m].stop = TRUE]
        \/ \E p \in Phases \ {"hook"} : run' = At(m, p)
        \/ run' = [run EXCEPT ![m] = LoopOff]
      BY <1>4 DEF Enter, LaunchFails, HookRejects, Reread, RunEnds, HookAccepts, FailClaim, LoopEnds,
                  Phases, Terminal
  <2>2. run' # Dropped(m) /\ run' # [run EXCEPT ![m] = LoopOff]
      BY <1>1, PhaseAfter
  <2>3. \A o \in Terminal : run' # Done(m, o) /\ run' # [Done(m, o) EXCEPT ![m].stop = TRUE]
      BY <1>1, PhaseAfter
  <2>4. \A p \in Phases \ {"hook"} : run' # At(m, p)
      BY <1>1, PhaseAfter
  <2> QED
      BY <2>1, <2>2, <2>3, <2>4
<1>5. ASSUME NEW t \in Ids, ClaimNext(m, t)
      PROVE  run'[m].phase = "launching"
    BY <1>1, <1>5 DEF ClaimNext, LoopFields
<1> QED
    BY <1>2, <1>3, <1>4, <1>5 DEF Loop, Executor

LEMMA SnapshotsStep ==
    ASSUME Core, SnapshotsAreOpen, [Next]_vars
    PROVE  SnapshotsAreOpen'
<1>1. CASE UNCHANGED vars
    BY <1>1 DEF vars, SnapshotsAreOpen
<1>2. CASE Next
  <2>1. ASSUME admin' # NoAdmin
        PROVE  admin'.before.status \notin Terminal
    <3>1. CASE admin' = admin
        BY <2>1, <3>1 DEF SnapshotsAreOpen
    <3>2. CASE admin' # admin
      <4>1. PICK t \in Ids, s \in AdminStatuses \cup {Same}, o \in Members \cup {NoOne} :
                Update(t, s, o)
        <5>1. Teams => UNCHANGED admin
            BY DEF Teams, CreateTeam, DeleteTeam, AddMember, Reactivate, LeaveBegin, LeaveEnd,
                   LeaveRefused
        <5>2. \A m \in Members : Loop(m) => UNCHANGED admin
            BY DEF Loop, Executor, ClaimNext, Enter, LaunchFails, RunEnds, Stop, Finish,
                   HookAccepts, HookRejects, Reread, FailClaim, LoopEnds
        <5> QED
            BY <1>2, <2>1, <3>2, <5>1, <5>2
            DEF Next, List, CreateBegin, CreateEnd, CreateRefused, UpdateEnd, UpdateRefused, Block,
                UserClaim
      <4> DEFINE after == Updated(task[t], s, o, ANewClaim)
      <4>2. /\ admin'.before = task[t] /\ NeedsHook(task[t], after) /\ MayBecome(task[t], s)
            /\ task[t] # NoTask /\ CanDraw
          BY <3>2, <4>1 DEF Update, Live
      <4>3. task[t] \in Record /\ s \in Statuses \cup {Same} /\ ANewClaim \in Claims \cup {NoClaim}
          BY <4>2, Drawn, SlotFacts, TeamConstants DEF Core, Typed, TeamConstants
      <4>4. /\ s \in Terminal => after.status = s
            /\ s = "pending" => after.status = "pending"
            /\ s = Same /\ task[t].status \in Terminal => after.status = task[t].status
          BY <4>3, UpdatedStatus
      <4> HIDE DEF after
      <4>5. task[t].status \in Terminal => after.status \in {task[t].status, "pending"}
          BY <4>2, <4>4 DEF MayBecome
      <4> QED
          BY <4>2, <4>5 DEF NeedsHook, Terminal
    <3> QED
        BY <3>1, <3>2
  <2>2. ASSUME NEW m \in Members, run'[m].phase = "hook"
        PROVE  /\ run'[m].before.status = "in_progress"
               /\ run'[m].before.owner = m /\ run'[m].before.claim = run'[m].claim
    <3>1. CASE run'[m] = run[m]
        BY <2>2, <3>1 DEF SnapshotsAreOpen
    <3>2. CASE run'[m] # run[m]
        BY <1>2, <2>2, <3>2, LoopMoves, HookSnapshot DEF Core
    <3> QED
        BY <3>1, <3>2
  <2> QED
      BY <2>1, <2>2 DEF SnapshotsAreOpen
<1> QED
    BY <1>1, <1>2

\* What is known in every state of the snapshots and of the reservations.
OutcomeInv == Core /\ Reservations /\ SnapshotsAreOpen

LEMMA OutcomeInvariant == Spec => []OutcomeInv
<1>1. Init => OutcomeInv
    BY CoreInit DEF Init, OutcomeInv, Reservations, ReservationsHold, SnapshotsAreOpen, LoopOff
<1>2. OutcomeInv /\ [Next]_vars => OutcomeInv'
    BY CoreStep, ReservationsStep, SnapshotsStep DEF OutcomeInv
<1> QED
    BY <1>1, <1>2, PTL DEF Spec

\* A terminal status changes by a reset only, and a loop writes an outcome
\* only while the attempt it executed is the current one: no late outcome,
\* no answer of a hook and no end of a membership overwrites what others did
\* meanwhile (finish_claim's expected_claim and snapshots).
THEOREM OutcomesStayStanding == Spec => OutcomesStand
<1>1. ASSUME OutcomeInv, [Next]_vars, NEW t \in Ids, task[t].status \in Terminal
      PROVE  task'[t].status \in {task[t].status, "pending"} \/ ~up'
    BY <1>1, TeamsLeaveOutcomes, ListLeavesOutcomes, LoopsLeaveOutcomes
    DEF OutcomeInv, Core, Next, vars
<1>2. ASSUME OutcomeInv, [Next]_vars, NEW m \in Members,
             run[m].phase \in {"done", "hook", "refail"}, run'[m] # run[m],
             NEW t \in Ids, task'[t] # task[t]
      PROVE  /\ t = run[m].task /\ ScopeOk(m) /\ ClaimIsCurrent(m)
             /\ task'[t] = Written(Updated(task[t], task'[t].status, NoOne, NoClaim))
  <2>1. Loop(m) /\ Typed /\ task \in [Ids -> Slot]
      BY <1>2, LoopMoves DEF OutcomeInv, Core, vars, Typed
  <2>2. Publishes(m)
      BY <1>2, <2>1, LoopWrites DEF OutcomeInv, ClaimNext
  <2>3. PICK s \in Terminal :
            task' = [task EXCEPT ![run[m].task] =
                        Written(Updated(task[run[m].task], s, NoOne, NoClaim))]
      BY <2>2 DEF Publishes
  <2>4. /\ t = run[m].task /\ task'[t] = Written(Updated(task[t], s, NoOne, NoClaim))
        /\ task[t].status = "in_progress"
      BY <1>2, <2>1, <2>2, <2>3 DEF Publishes, ClaimIsCurrent
  <2>5. /\ task[t] \in Record /\ s \in Statuses \cup {Same}
        /\ NoOne \in Members \cup {NoOne} /\ NoClaim \in Claims \cup {NoClaim}
      BY <2>1, <2>4, SlotFacts DEF Statuses
  <2>6. Updated(task[t], s, NoOne, NoClaim) \in Record
      BY <2>5, UpdatedType
  <2>7. Updated(task[t], s, NoOne, NoClaim).status = s
      BY <2>5, UpdatedStatus
  <2>8. task'[t].status = s
      BY <2>2, <2>4, <2>6, <2>7, WrittenType DEF Publishes
  <2> QED
      BY <2>2, <2>4, <2>8 DEF Publishes
<1>3. OutcomeInv /\ [Next]_vars =>
          [\A t \in Ids : task[t].status \in Terminal =>
              task'[t].status \in {task[t].status, "pending"} \/ ~up']_vars
    BY <1>1
<1>4. OutcomeInv /\ [Next]_vars =>
          [\A m \in Members :
              run[m].phase \in {"done", "hook", "refail"} /\ run'[m] # run[m] =>
                  \A t \in Ids : task'[t] # task[t] =>
                      /\ t = run[m].task /\ ScopeOk(m) /\ ClaimIsCurrent(m)
                      /\ task'[t] = Written(Updated(task[t], task'[t].status, NoOne, NoClaim))]_vars
    BY <1>2
<1> QED
    BY <1>3, <1>4, OutcomeInvariant, PTL DEF Spec, OutcomesStand, TerminalStays, OutcomeIsCurrent

-----------------------------------------------------------------------------
(* Lifetimes.                                                              *)

\* A membership begins only with its registration or reactivation, where
\* nothing of its predecessor is in progress, neither a creation nor a
\* completion that waited for its hook reaches the team that came after, and
\* no deactivation that did reaches the next membership.
THEOREM LifetimesStayApart == Spec => LifetimesApart
<1>1. ASSUME Core, [Next]_vars, NEW m \in Members, life'[m] # life[m],
             NEW t \in Ids, task'[t].owner = m, "in_progress" \notin AdminStatuses
      PROVE  task'[t].status # "in_progress"
  <2>1. Typed /\ TeamType /\ Next /\ task \in [Ids -> Slot]
      BY <1>1 DEF Core, Typed, vars
  <2>2. List => UNCHANGED life
      BY DEF List, CreateBegin, CreateEnd, CreateRefused, Update, UpdateEnd, UpdateRefused,
             Block, UserClaim
  <2>3. \A k \in Members : Loop(k) => UNCHANGED life
      BY DEF Loop, Executor, ClaimNext, Enter, LaunchFails, RunEnds, Stop, Finish, HookAccepts,
             HookRejects, Reread, FailClaim, LoopEnds
  <2>4. AddMember(m) \/ Reactivate(m)
      BY <1>1, <2>1, <2>2, <2>3
      DEF Next, Teams, CreateTeam, DeleteTeam, AddMember, Reactivate, LeaveBegin, LeaveEnd,
          LeaveRefused, TeamType
  <2>5. CASE m \notin active /\ task' = task
      BY <1>1, <2>5 DEF Core, OwnersAreActive
  <2>6. CASE CanDraw /\ task' = Cancelled(m)
      BY <1>1, <2>1, <2>6, CancelledKinds
  <2> QED
      BY <2>1, <2>4, <2>5, <2>6 DEF AddMember, Reactivate, TeamType
<1>2. ASSUME Core, [Next]_vars, NEW c \in creating \ creating', c.gen # gen
      PROVE  UNCHANGED task
  <2>1. CreateEnd(c) \/ CreateRefused(c)
    <3>1. Teams => UNCHANGED creating
        BY DEF Teams, CreateTeam, DeleteTeam, AddMember, Reactivate, LeaveBegin, LeaveEnd,
               LeaveRefused
    <3>2. \A k \in Members : Loop(k) => UNCHANGED creating
        BY DEF Loop, Executor, ClaimNext, Enter, LaunchFails, RunEnds, Stop, Finish, HookAccepts,
               HookRejects, Reread, FailClaim, LoopEnds
    <3>3. ASSUME NEW d \in creating, CreateEnd(d) \/ CreateRefused(d)
          PROVE  d = c
        BY <1>2, <3>3 DEF CreateEnd, CreateRefused
    <3> QED
        BY <1>2, <3>1, <3>2, <3>3
        DEF Next, vars, List, CreateBegin, Update, UpdateEnd, UpdateRefused, Block, UserClaim
  <2> QED
      BY <1>2, <2>1 DEF CreateEnd, CreateRefused, Fenced
<1>3. ASSUME Core, [Next]_vars, admin # NoAdmin, admin' = NoAdmin, admin.gen # gen
      PROVE  UNCHANGED task
  <2>1. UpdateEnd \/ UpdateRefused
    <3>1. Teams => UNCHANGED admin
        BY DEF Teams, CreateTeam, DeleteTeam, AddMember, Reactivate, LeaveBegin, LeaveEnd,
               LeaveRefused
    <3>2. \A k \in Members : Loop(k) => UNCHANGED admin
        BY DEF Loop, Executor, ClaimNext, Enter, LaunchFails, RunEnds, Stop, Finish, HookAccepts,
               HookRejects, Reread, FailClaim, LoopEnds
    <3> QED
        BY <1>3, <3>1, <3>2
        DEF Next, vars, List, CreateBegin, CreateEnd, CreateRefused, Update, Block, UserClaim
  <2> QED
      BY <1>3, <2>1 DEF UpdateEnd, UpdateRefused, Fenced
<1>4. ASSUME Core, [Next]_vars, NEW m \in Members, leaving[m] # NotLeaving, leaving'[m] = NotLeaving,
             leaving[m].gen # gen \/ leaving[m].life # life[m]
      PROVE  UNCHANGED <<active, task>>
  <2>1. List => UNCHANGED leaving
      BY DEF List, CreateBegin, CreateEnd, CreateRefused, Update, UpdateEnd, UpdateRefused,
             Block, UserClaim
  <2>2. \A k \in Members : Loop(k) => UNCHANGED leaving
      BY DEF Loop, Executor, ClaimNext, Enter, LaunchFails, RunEnds, Stop, Finish, HookAccepts,
             HookRejects, Reread, FailClaim, LoopEnds
  <2>3. Teams
      BY <1>4, <2>1, <2>2 DEF Next, vars
  <2>4. \A k \in Members : AddMember(k) \/ Reactivate(k) \/ LeaveBegin(k) => leaving'[m] # NotLeaving
      BY <1>4 DEF AddMember, Reactivate, LeaveBegin, Core, Typed
  <2>5. ASSUME NEW k \in Members, LeaveEnd(k) \/ LeaveRefused(k)
        PROVE  k = m
    <3>1. leaving' = [leaving EXCEPT ![k] = NotLeaving] /\ m \in DOMAIN leaving
        BY <1>4, <2>5 DEF LeaveEnd, LeaveRefused, Core, Typed
    <3> QED
        BY <1>4, <3>1
  <2>6. LeaveEnd(m) \/ LeaveRefused(m)
      BY <1>4, <2>3, <2>4, <2>5 DEF Teams, CreateTeam, DeleteTeam
  <2>7. CASE LeaveEnd(m)
    <3>1. ~(up /\ leaving[m].gen = gen /\ m \in members /\ leaving[m].life = life[m])
        BY <1>4
    <3> QED
        BY <2>7, <3>1 DEF LeaveEnd
  <2>8. CASE LeaveRefused(m)
      BY <2>8 DEF LeaveRefused
  <2> QED
      BY <2>6, <2>7, <2>8
<1>5. Core /\ [Next]_vars =>
          [\A m \in Members : life'[m] # life[m] =>
              \A t \in Ids : task'[t].owner = m => task'[t].status # "in_progress"
                  \/ "in_progress" \in AdminStatuses]_vars
    BY <1>1
<1>6. Core /\ [Next]_vars =>
          [/\ \A c \in creating \ creating' : c.gen # gen => UNCHANGED task
           /\ admin # NoAdmin /\ admin' = NoAdmin /\ admin.gen # gen => UNCHANGED task]_vars
    BY <1>2, <1>3
<1>7. Core /\ [Next]_vars =>
          [\A m \in Members :
              /\ leaving[m] # NotLeaving /\ leaving'[m] = NotLeaving
              /\ leaving[m].gen # gen \/ leaving[m].life # life[m]
              => UNCHANGED <<active, task>>]_vars
    BY <1>4
<1> QED
    BY <1>5, <1>6, <1>7, CoreAlways, PTL
    DEF Spec, LifetimesApart, LifetimeStartsClean, OldTeamChangesNothing, OldLeaveEndsNothing
=============================================================================
