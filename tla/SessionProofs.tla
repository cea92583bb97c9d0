--------------------------- MODULE SessionProofs ---------------------------
(***************************************************************************)
(* Machine-checked facts about what a session does besides its turns, for  *)
(* any values of the bounds: the books of goals (Goals), of background     *)
(* agents (AgentRuns) and of approvals (Approvals), and the history of the *)
(* conversation (Transcript).                                              *)
(***************************************************************************)
EXTENDS Goals, AgentRuns, Approvals, Transcript, SequenceTheorems, WellFoundedInduction, TLAPS

AnyBudget == Budgets \cup {Unlimited}
RowType == [id : GoalIds \cup {NoGoalId}, status : GoalStatuses, budget : AnyBudget, used : 0 .. MaxUsed]
TurnType ==
    [at : {"idle", "start", "run", "end", "charge", "stop", "next"},
     goal : GoalIds \cup {NoGoalId}, created : BOOLEAN, cost : Costs \cup {0},
     outcome : Outcomes, mode : {{}} \cup {ModeFor(s) : s \in GoalStatuses},
     count : 0 .. MaxContinuations, loopTokens : Nat]
EditType == [id : GoalIds \cup {NoGoalId}, status : GoalStatuses, budget : AnyBudget]

\* Identities are fresh, and only a goal that exists has one.
IdsFresh ==
    /\ row.id <= issued /\ turn.goal <= issued
    /\ row.id = NoGoalId => row = NoRow
    /\ edit # NoEdit => edit.id # NoGoalId

\* What the turn in progress still has to be charged is part of what was spent.
ChargeDue ==
    /\ spent <= MaxUsed
    /\ turn.at \in {"end", "charge"} /\ row.id = turn.goal => row.used + turn.cost <= spent

\* Nobody but the turn itself has changed the goal it is bound to, and a turn
\* that is bound to none found none it could work for.
BoundWhileQuiet ==
    /\ turn.at \in {"end", "charge", "stop"} => turn.goal # NoGoalId
    /\ quiet /\ turn.at \in {"run", "end", "charge", "stop"} /\ turn.goal # NoGoalId =>
          row.id = turn.goal
    /\ quiet /\ turn.at = "run" /\ turn.goal = NoGoalId => row.status # "active"

GoalInv == GoalTypeOK /\ IdsFresh /\ ChargeDue /\ BoundWhileQuiet /\ GoalsAreSound

LEMMA GoalTypes ==
    ASSUME GoalTypeOK
    PROVE  /\ row \in RowType /\ turn \in TurnType /\ edit \in EditType /\ NoRow \in RowType
           /\ row.id \in Nat /\ row.used \in Nat /\ issued \in Nat /\ turn.goal \in Nat
           /\ turn.cost \in Nat /\ spent \in Nat /\ turn.count \in Nat
           /\ row # NoRow => row.id \in GoalIds
<1> USE GoalConstants DEF GoalConstants
<1>1. NoRow \in RowType /\ row \in RowType
    BY DEF GoalTypeOK, RowType, AnyBudget, NoRow, NoGoalId, GoalStatuses
<1>2. turn \in TurnType /\ edit \in EditType
    BY DEF GoalTypeOK, TurnType, EditType, AnyBudget
<1>3. \A i \in GoalIds \cup {NoGoalId} : i \in Nat
    BY DEF GoalIds, NoGoalId
<1>4. row.id \in Nat /\ row.used \in Nat
    BY <1>1, <1>3 DEF RowType
<1>5. turn.goal \in Nat /\ turn.count \in Nat
    BY <1>2, <1>3 DEF TurnType
<1>6. turn.cost \in Nat
  <2>1. turn.cost \in Costs \cup {0}
      BY <1>2 DEF TurnType
  <2>2. \A c \in Costs \cup {0} : c \in Nat
    <3> TAKE c \in Costs \cup {0}
    <3>1. CASE c \in Costs
        BY <3>1
    <3>2. CASE c = 0
        BY <3>2
    <3> QED
        BY <3>1, <3>2
  <2> QED
      BY <2>1, <2>2
<1>7. issued \in Nat /\ spent \in Nat /\ (row # NoRow => row.id \in GoalIds)
    BY DEF GoalTypeOK
<1> QED
    BY <1>1, <1>2, <1>4, <1>7, <1>5, <1>6

\* What update_goal stores: an active goal has budget left, and a blocked or
\* completed one is not active.
LEMMA Updating ==
    ASSUME NEW r \in RowType, NEW status \in GoalStatuses, NEW budget \in AnyBudget
    PROVE  LET u == GoalUpdated(r, status, budget) IN
           /\ u \in RowType /\ u.id = r.id /\ u.used = r.used
           /\ u.status = "active" => ~AtBudget(u.used, u.budget) /\ status = "active"
  BY DEF GoalUpdated, Settled, RowType, GoalStatuses

\* What account_usage stores.
LEMMA Charging ==
    ASSUME NEW r \in RowType, NEW cost \in Nat, NEW charging, r.used + cost \in 0 .. MaxUsed
    PROVE  LET u == Charged(r, cost, charging) IN
           /\ u \in RowType /\ u.id = r.id /\ u.used = r.used + cost
           /\ u.status = "active" => ~AtBudget(u.used, u.budget) /\ r.status = "active"
  BY DEF Charged, RowType, GoalStatuses, Stopped

LEMMA MakingGoals ==
    ASSUME GoalTypeOK, issued < MaxGoals, NEW budget \in AnyBudget
    PROVE  /\ Made(budget) \in RowType /\ Made(budget).id = issued + 1 /\ Made(budget).used = 0
           /\ issued + 1 \in GoalIds
           /\ Made(budget).status = "active" => ~AtBudget(0, Made(budget).budget)
  BY GoalConstants DEF GoalConstants, GoalTypeOK, Made, Settled, RowType, GoalIds, GoalStatuses

LEMMA GoalStart == GoalInit => GoalInv
<1> SUFFICES ASSUME GoalInit PROVE GoalInv
    OBVIOUS
<1> USE GoalConstants DEF GoalConstants, GoalInit, NoRow, IdleTurn, NoEdit, NoGoalId
<1>1. GoalTypeOK
    BY DEF GoalTypeOK, GoalStatuses, GoalIds, Outcomes
<1>2. IdsFresh /\ ChargeDue /\ BoundWhileQuiet
    BY DEF IdsFresh, ChargeDue, BoundWhileQuiet
<1>3. GoalsAreSound
    BY DEF GoalsAreSound, ActiveHasBudget, ChargedForOwnTurns, StopsHold
<1> QED
    BY <1>1, <1>2, <1>3 DEF GoalInv
-----------------------------------------------------------------------------
(* Steps of the turn that leave the goal alone.                            *)

LEMMA TurnMoves ==
    ASSUME GoalInv, UNCHANGED goalUser, turn' \in TurnType, turn'.goal <= issued,
           reported' \in GoalIds \cup {NoGoalId}, failures' \in 0 .. MaxStoreFailures,
           quiet' \in BOOLEAN, spent' \in Nat, spent <= spent', spent' <= MaxUsed,
           turn'.at \in {"end", "charge"} /\ row.id = turn'.goal => row.used + turn'.cost <= spent',
           turn'.at \in {"end", "charge", "stop"} => turn'.goal # NoGoalId,
           quiet' /\ turn'.at \in {"run", "end", "charge", "stop"} /\ turn'.goal # NoGoalId =>
              row.id = turn'.goal,
           quiet' /\ turn'.at = "run" /\ turn'.goal = NoGoalId => row.status # "active",
           quiet' /\ turn'.at = "next" /\ turn'.outcome # "ok" => row.status # "active"
    PROVE  GoalInv'
<1> USE DEF GoalInv, goalUser
<1>1. GoalTypeOK'
    BY DEF GoalTypeOK, TurnType, AnyBudget
<1>2. IdsFresh' /\ BoundWhileQuiet'
    BY DEF IdsFresh, BoundWhileQuiet
<1>3. ChargeDue'
    BY DEF ChargeDue
<1>4. GoalsAreSound'
  <2>1. row.used <= spent'
      BY GoalTypes DEF GoalsAreSound, ChargedForOwnTurns
  <2> QED
      BY <2>1 DEF GoalsAreSound, ActiveHasBudget, ChargedForOwnTurns, StopsHold
<1> QED
    BY <1>1, <1>2, <1>3, <1>4

LEMMA Failing ==
    ASSUME GoalTypeOK, StoreFails \/ StoreWorks
    PROVE  failures' \in 0 .. MaxStoreFailures /\ quiet' \in BOOLEAN /\ (quiet' => quiet)
<1>1. CASE StoreFails
  <2>1. failures' = failures + 1 /\ failures < MaxStoreFailures /\ failures \in 0 .. MaxStoreFailures
      BY <1>1 DEF StoreFails, CanFail, GoalTypeOK
  <2>2. failures' \in 0 .. MaxStoreFailures
      BY <2>1, GoalConstants DEF GoalConstants
  <2>3. quiet' = FALSE
      BY <1>1 DEF StoreFails
  <2> QED
      BY <2>2, <2>3
<1>2. CASE StoreWorks
    BY <1>2 DEF GoalTypeOK, StoreWorks
<1> QED
    BY <1>1, <1>2

LEMMA Going ==
    ASSUME GoalTypeOK, NEW at \in {"next", "stop", "idle"}, Goes(at)
    PROVE  /\ turn' \in TurnType /\ turn'.at = at /\ turn'.outcome = turn.outcome
           /\ turn'.goal = IF at = "stop" THEN turn.goal ELSE NoGoalId
  BY GoalTypes, GoalConstants DEF GoalConstants, Goes, TurnType, NoGoalId

LEMMA IdleIsTurn ==
    IdleTurn \in TurnType
  BY GoalConstants DEF GoalConstants, IdleTurn, TurnType, Outcomes, NoGoalId

LEMMA HandleStep ==
    ASSUME GoalInv, HandleBegins
    PROVE  GoalInv'
<1> USE DEF GoalInv
<1>1. /\ turn' \in TurnType /\ turn'.at = "start" /\ turn'.goal = 0
      /\ UNCHANGED <<row, issued, edit, reported, failures, spent, quiet>>
    BY IdleIsTurn DEF HandleBegins, TurnType, IdleTurn, NoGoalId, goalUser
<1> QED
    BY <1>1, TurnMoves, GoalTypes DEF GoalTypeOK, ChargeDue, goalUser

LEMMA TurnStartsStep ==
    ASSUME GoalInv, TurnStarts
    PROVE  GoalInv'
<1> USE DEF GoalInv
<1>1. ASSUME NEW bound \in GoalIds \cup {NoGoalId}, bound = row.id \/ bound = NoGoalId, Starts(bound)
      PROVE  /\ turn' \in TurnType /\ turn'.at = "run" /\ turn'.goal = bound /\ turn'.goal <= issued
             /\ UNCHANGED goalUser /\ spent' = spent /\ reported' \in GoalIds \cup {NoGoalId}
  <2>1. turn' \in TurnType /\ turn'.at = "run" /\ turn'.goal = bound
      BY <1>1, GoalTypes, GoalConstants DEF GoalConstants, Starts, TurnType, Outcomes
  <2>2. bound <= issued
      BY <1>1, GoalTypes DEF IdsFresh, NoGoalId
  <2> QED
      BY <1>1, <2>1, <2>2 DEF Starts, GoalTypeOK
<1>2. row.id \in GoalIds \cup {NoGoalId} /\ spent \in Nat /\ spent <= MaxUsed
    BY GoalTypes DEF RowType, ChargeDue
<1>3. CASE /\ Starts(IF row.status \in {"active", "budget_limited"} THEN row.id ELSE NoGoalId)
           /\ quiet' = TRUE /\ UNCHANGED failures
  <2> DEFINE bound == IF row.status \in {"active", "budget_limited"} THEN row.id ELSE NoGoalId
  <2>1. bound \in GoalIds \cup {NoGoalId} /\ (bound = row.id \/ bound = NoGoalId)
      BY <1>2
  <2>2. bound = NoGoalId => row.status # "active"
      BY DEF IdsFresh, NoRow
  <2> HIDE DEF bound
  <2>3. Starts(bound)
      BY <1>3 DEF bound
  <2> QED
      BY <1>1, <1>2, <1>3, <2>1, <2>2, <2>3, TurnMoves, GoalTypes DEF GoalTypeOK
<1>4. CASE Starts(NoGoalId) /\ StoreFails
  <2>1. failures' \in 0 .. MaxStoreFailures /\ quiet' \in BOOLEAN /\ ~quiet'
      BY <1>4, Failing DEF StoreFails
  <2>2. /\ turn' \in TurnType /\ turn'.at = "run" /\ turn'.goal = NoGoalId /\ turn'.goal <= issued
        /\ UNCHANGED goalUser /\ spent' = spent /\ reported' \in GoalIds \cup {NoGoalId}
      BY <1>1, <1>4
  <2> QED
      BY <1>2, <2>1, <2>2, TurnMoves
<1> QED
    BY <1>3, <1>4 DEF TurnStarts

LEMMA TurnRunEndsStep ==
    ASSUME GoalInv, NEW cost \in Costs, NEW outcome \in Outcomes, TurnRunEnds(cost, outcome)
    PROVE  GoalInv'
<1> USE DEF GoalInv
<1>1. /\ cost \in Nat /\ spent \in Nat /\ spent + cost <= MaxUsed /\ turn.at = "run"
      /\ UNCHANGED <<row, issued, edit, reported, failures, quiet>>
      /\ spent' = IF turn.goal = row.id /\ row # NoRow THEN spent + cost ELSE spent
    BY GoalTypes, GoalConstants DEF GoalConstants, TurnRunEnds, goalUser
<1>2. /\ turn' \in TurnType /\ turn'.goal = turn.goal /\ turn'.outcome = outcome
      /\ turn'.at = IF turn.goal = NoGoalId THEN AfterStops(outcome) ELSE "end"
      /\ turn'.cost = IF turn.created THEN 0 ELSE cost
  <2> DEFINE n == IF turn.count = 0 THEN 0 ELSE turn.loopTokens + cost
  <2>1. n \in Nat /\ turn \in TurnType
      BY <1>1, GoalTypes DEF TurnType
  <2>2. turn' = [turn EXCEPT
                  !.at = IF turn.goal = NoGoalId THEN AfterStops(outcome) ELSE "end",
                  !.cost = IF turn.created THEN 0 ELSE cost, !.outcome = outcome,
                  !.loopTokens = n]
      BY <2>1 DEF TurnRunEnds, TurnType
  <2> HIDE DEF n
  <2> QED
      BY <2>1, <2>2 DEF TurnType, AfterStops
<1>3. spent' \in Nat /\ spent <= spent' /\ spent' <= MaxUsed
    BY <1>1, GoalConstants DEF GoalConstants
<1>4. ASSUME turn'.at \in {"end", "charge"}, row.id = turn'.goal
      PROVE  row.used + turn'.cost <= spent'
  <2>1. turn.goal # NoGoalId /\ turn.goal = row.id /\ row # NoRow
      BY <1>2, <1>4 DEF AfterStops, NoRow
  <2>2. spent' = spent + cost /\ row.used <= spent /\ row.used \in Nat /\ turn'.cost \in {0, cost}
      BY <1>1, <1>2, <2>1, GoalTypes DEF GoalsAreSound, ChargedForOwnTurns
  <2> QED
      BY <1>1, <2>2
<1>5. /\ turn'.at \in {"next", "idle", "end"}
      /\ turn'.at = "end" <=> turn.goal # NoGoalId
    BY <1>2 DEF AfterStops
<1>6. quiet /\ turn'.at = "next" => row.status # "active"
    BY <1>1, <1>5 DEF BoundWhileQuiet
<1>7. quiet /\ turn.goal # NoGoalId => row.id = turn.goal
    BY <1>1 DEF BoundWhileQuiet
<1> QED
    BY <1>1, <1>2, <1>3, <1>4, <1>5, <1>6, <1>7, TurnMoves, GoalTypes DEF GoalTypeOK, IdsFresh, goalUser

LEMMA AccountReadsStep ==
    ASSUME GoalInv, AccountReads
    PROVE  GoalInv'
<1> USE DEF GoalInv
<1>1. /\ turn.at = "end" /\ turn.goal # NoGoalId /\ turn.goal <= issued
      /\ UNCHANGED <<row, issued, edit, reported, spent>>
      /\ failures' \in 0 .. MaxStoreFailures /\ quiet' \in BOOLEAN /\ (quiet' => quiet)
      /\ (quiet => row.id = turn.goal) /\ spent <= MaxUsed /\ spent \in Nat
      /\ reported \in GoalIds \cup {NoGoalId}
    BY Failing, GoalTypes DEF AccountReads, BoundWhileQuiet, IdsFresh, ChargeDue, GoalTypeOK, goalUser
<1>2. CASE turn' = [turn EXCEPT !.at = "charge", !.mode = ModeFor(row.status)]
  <2>1. row.status \in GoalStatuses
      BY GoalTypes DEF RowType
  <2>2. /\ turn' \in TurnType /\ turn'.at = "charge" /\ turn'.goal = turn.goal
        /\ turn'.cost = turn.cost
      BY <1>2, <2>1, GoalTypes DEF TurnType
  <2>3. row.id = turn.goal => row.used + turn.cost <= spent
      BY <1>1 DEF ChargeDue
  <2> QED
      BY <1>1, <2>2, <2>3, TurnMoves, GoalTypes DEF goalUser
<1>3. CASE Goes(AfterCharge(turn.outcome))
  <2>1. AfterCharge(turn.outcome) \in {"next", "stop"}
      BY DEF AfterCharge
  <2>2. /\ turn' \in TurnType /\ turn'.at = AfterCharge(turn.outcome) /\ turn'.outcome = turn.outcome
        /\ turn'.goal = IF AfterCharge(turn.outcome) = "stop" THEN turn.goal ELSE NoGoalId
      BY <1>3, <2>1, Going
  <2>3. turn'.goal <= issued
      BY <1>1, <2>2, GoalTypes DEF NoGoalId
  <2> QED
      BY <1>1, <2>1, <2>2, <2>3, TurnMoves DEF goalUser, AfterCharge
<1> QED
    BY <1>2, <1>3 DEF AccountReads

LEMMA LoopSteps ==
    ASSUME GoalInv, LoopStops \/ LoopContinues \/ LoopWrapsUp
    PROVE  GoalInv'
<1> USE DEF GoalInv
<1>1. /\ UNCHANGED <<row, issued, edit, spent>> /\ spent \in Nat /\ spent <= MaxUsed
      /\ row.id \in GoalIds \cup {NoGoalId} /\ turn.at = "next" /\ turn.goal <= issued
      /\ reported' \in GoalIds \cup {NoGoalId}
    BY GoalTypes DEF LoopStops, LoopContinues, LoopWrapsUp, MayGoOn, goalUser, ChargeDue, RowType,
        GoalTypeOK, IdsFresh
<1>2. CASE LoopStops
  <2>1. turn' = IdleTurn /\ IdleTurn.at = "idle" /\ IdleTurn.goal = 0
      BY <1>2 DEF LoopStops, IdleTurn, NoGoalId
  <2>2. failures' \in 0 .. MaxStoreFailures /\ quiet' \in BOOLEAN
      BY <1>2, Failing DEF LoopStops
  <2> QED
      BY <1>1, <2>1, <2>2, IdleIsTurn, TurnMoves, GoalTypes DEF goalUser
<1>3. CASE LoopContinues \/ LoopWrapsUp
  <2>1. GoesOn /\ turn.count < MaxContinuations /\ UNCHANGED <<failures, quiet>>
      BY <1>3 DEF LoopContinues, LoopWrapsUp, MayGoOn
  <2>2. turn' \in TurnType /\ turn'.at = "start" /\ turn'.goal = turn.goal
    <3>1. turn.count + 1 \in 0 .. MaxContinuations /\ turn \in TurnType
        BY <2>1, GoalTypes, GoalConstants DEF GoalConstants
    <3> QED
        BY <2>1, <3>1 DEF GoesOn, TurnType
  <2> QED
      BY <1>1, <2>1, <2>2, TurnMoves DEF goalUser, GoalTypeOK
<1> QED
    BY <1>2, <1>3
-----------------------------------------------------------------------------
(* Steps that store a goal.                                                *)

\* The goal keeps its identity and is charged or given another status.
LEMMA RowMoves ==
    ASSUME GoalInv, UNCHANGED <<issued, edit, spent>>, row' \in RowType, row'.id = row.id,
           row # NoRow \/ row' = row,
           row'.status = "active" => ~AtBudget(row'.used, row'.budget) /\ row.status = "active",
           row'.used <= spent,
           turn' \in TurnType, turn'.goal <= issued,
           turn'.at \in {"end", "charge"} => row'.used = row.used /\ turn' = turn,
           turn'.at \in {"run", "end", "charge", "stop"} => turn'.goal = turn.goal,
           turn'.at \in {"end", "charge", "stop"} => turn'.goal # NoGoalId,
           turn'.at = "run" => turn' = turn,
           turn'.at = "stop" => turn.at \in {"charge", "stop"},
           quiet' /\ turn'.at = "next" /\ turn'.outcome # "ok" => row'.status # "active",
           reported' \in GoalIds \cup {NoGoalId}, failures' \in 0 .. MaxStoreFailures,
           quiet' \in BOOLEAN, quiet' => quiet
    PROVE  GoalInv'
<1> USE DEF GoalInv
<1>1. GoalTypeOK'
  <2>1. row' \in [id : GoalIds, status : GoalStatuses, budget : Budgets \cup {Unlimited},
                  used : 0 .. MaxUsed] \cup {NoRow}
    <3>1. CASE row' = row
        BY <3>1 DEF GoalTypeOK
    <3>2. CASE row # NoRow
      <4>1. row'.id \in GoalIds
          BY <3>2, GoalTypes
      <4> QED
          BY <4>1 DEF RowType, AnyBudget
    <3> QED
        BY <3>1, <3>2
  <2> QED
      BY <2>1 DEF GoalTypeOK, TurnType, AnyBudget
<1>2. IdsFresh'
    BY DEF IdsFresh
<1>3. ChargeDue'
    BY DEF ChargeDue
<1>4. BoundWhileQuiet'
    BY DEF BoundWhileQuiet
<1>5. GoalsAreSound'
    BY DEF GoalsAreSound, ActiveHasBudget, ChargedForOwnTurns, StopsHold
<1> QED
    BY <1>1, <1>2, <1>3, <1>4, <1>5

LEMMA AccountChargesStep ==
    ASSUME GoalInv, AccountCharges
    PROVE  GoalInv'
<1> USE DEF GoalInv
<1>1. /\ turn.at = "charge" /\ turn.goal # NoGoalId /\ turn.goal <= issued /\ row.used <= spent
      /\ UNCHANGED <<issued, edit, spent>> /\ reported' \in GoalIds \cup {NoGoalId}
      /\ failures' \in 0 .. MaxStoreFailures /\ quiet' \in BOOLEAN /\ (quiet' => quiet)
      /\ spent \in Nat /\ spent <= MaxUsed /\ MaxUsed \in Nat
    BY Failing, GoalTypes, GoalConstants DEF AccountCharges, BoundWhileQuiet, IdsFresh, ChargeDue,
        GoalTypeOK, GoalsAreSound, ChargedForOwnTurns, GoalConstants
<1>2. AfterCharge(turn.outcome) \in {"next", "stop"}
    BY DEF AfterCharge
<1>3. /\ turn' \in TurnType /\ turn'.at = AfterCharge(turn.outcome) /\ turn'.outcome = turn.outcome
      /\ turn'.goal = IF AfterCharge(turn.outcome) = "stop" THEN turn.goal ELSE NoGoalId
    BY <1>2, Going DEF AccountCharges
<1>4. turn'.goal <= issued /\ (turn'.at = "next" => turn'.outcome = "ok")
    BY <1>1, <1>3, GoalTypes DEF NoGoalId, AfterCharge
<1>5. CASE row' = row
  <2>1. row'.status = "active" => ~AtBudget(row'.used, row'.budget) /\ row.status = "active"
      BY <1>5 DEF GoalsAreSound, ActiveHasBudget
  <2> QED
      BY <1>1, <1>2, <1>3, <1>4, <1>5, <2>1, GoalTypes, RowMoves
<1>6. CASE row.id = turn.goal /\ row' = Charged(row, turn.cost, turn.mode)
  <2>1. row # NoRow /\ row.used + turn.cost <= spent /\ row.used + turn.cost \in 0 .. MaxUsed
      BY <1>1, <1>6, GoalTypes DEF ChargeDue, NoRow
  <2>2. /\ row' \in RowType /\ row'.id = row.id /\ row'.used = row.used + turn.cost
        /\ row'.status = "active" => ~AtBudget(row'.used, row'.budget) /\ row.status = "active"
      BY <1>6, <2>1, GoalTypes, Charging
  <2> QED
      BY <1>1, <1>2, <1>3, <1>4, <2>1, <2>2, RowMoves
<1> QED
    BY <1>5, <1>6 DEF AccountCharges

LEMMA TurnStopsStep ==
    ASSUME GoalInv, TurnStops
    PROVE  GoalInv'
<1> USE DEF GoalInv
<1>1. /\ turn.at = "stop" /\ turn.goal # NoGoalId /\ row.used <= spent
      /\ UNCHANGED <<issued, edit, spent>> /\ reported' \in GoalIds \cup {NoGoalId}
      /\ failures' \in 0 .. MaxStoreFailures /\ quiet' \in BOOLEAN /\ (quiet' => quiet)
      /\ (quiet => row.id = turn.goal)
    BY Failing DEF TurnStops, BoundWhileQuiet, GoalTypeOK, GoalsAreSound, ChargedForOwnTurns
<1>2. AfterStops(turn.outcome) \in {"next", "idle"}
    BY DEF AfterStops
<1>3. /\ turn' \in TurnType /\ turn'.at = AfterStops(turn.outcome) /\ turn'.outcome = turn.outcome
      /\ turn'.goal = NoGoalId /\ turn'.goal <= issued
  <2>1. 0 <= issued
      BY GoalTypes
  <2> QED
      BY <1>2, <2>1, Going DEF TurnStops, NoGoalId
<1>4. CASE UNCHANGED row /\ StoreFails
  <2>1. ~quiet'
      BY <1>4 DEF StoreFails
  <2>2. row'.status = "active" => ~AtBudget(row'.used, row'.budget) /\ row.status = "active"
      BY <1>4 DEF GoalsAreSound, ActiveHasBudget
  <2> QED
      BY <1>1, <1>2, <1>3, <1>4, <2>1, <2>2, GoalTypes, RowMoves
<1>5. CASE row' = Halted(row) /\ StoreWorks
  <2>1. /\ row' \in RowType /\ row'.id = row.id /\ row'.used = row.used /\ (row # NoRow \/ row' = row)
        /\ row'.status = "active" =>
              ~AtBudget(row'.used, row'.budget) /\ row.status = "active" /\ row' = row
    <3>1. CASE row' = row
        BY <3>1, GoalTypes DEF GoalsAreSound, ActiveHasBudget
    <3>2. CASE row.status = "active" /\ row' = [row EXCEPT !.status = "paused"]
        BY <3>2, GoalTypes DEF RowType, GoalStatuses, NoRow
    <3>3. CASE row.id = turn.goal /\ row' = GoalUpdated(row, "blocked", row.budget)
      <4>1. "blocked" \in GoalStatuses /\ row.budget \in AnyBudget /\ row # NoRow
          BY <1>1, <3>3, GoalTypes DEF GoalStatuses, RowType, NoRow
      <4> QED
          BY <3>3, <4>1, GoalTypes, Updating
    <3> QED
        BY <1>5, <3>1, <3>2, <3>3 DEF Halted
  <2>2. quiet' /\ turn'.at = "next" /\ turn'.outcome # "ok" => row'.status # "active"
    <3> SUFFICES ASSUME quiet', turn'.at = "next" PROVE row'.status # "active"
        OBVIOUS
    <3>1. row.id = turn.goal
        BY <1>1
    <3>2. CASE turn.outcome \in {"cancelled", "raised_cancel"}
        BY <1>5, <2>1, <3>2 DEF Halted, RowType
    <3>3. CASE turn.outcome \notin {"cancelled", "raised_cancel"}
      <4>1. row' = GoalUpdated(row, "blocked", row.budget)
          BY <1>5, <3>1, <3>3 DEF Halted
      <4>2. "blocked" \in GoalStatuses /\ row.budget \in AnyBudget
          BY GoalTypes DEF GoalStatuses, RowType
      <4> QED
          BY <4>1, <4>2, GoalTypes, Updating
    <3> QED
        BY <3>2, <3>3
  <2> QED
      BY <1>1, <1>2, <1>3, <2>1, <2>2, RowMoves
<1> QED
    BY <1>4, <1>5 DEF TurnStops

LEMMA ToolCreatesStep ==
    ASSUME GoalInv, NEW budget \in AnyBudget, ToolCreates(budget)
    PROVE  GoalInv'
<1> USE DEF GoalInv
<1>1. /\ row' = Made(budget) /\ issued' = issued + 1 /\ issued < MaxGoals /\ turn.at = "run"
      /\ turn' = [turn EXCEPT !.goal = issued + 1, !.created = TRUE]
      /\ reported' = NoGoalId /\ spent' = 0 /\ UNCHANGED <<edit, failures, quiet>>
    BY DEF ToolCreates
<1>2. /\ row' \in RowType /\ row'.id = issued + 1 /\ row'.used = 0 /\ issued + 1 \in GoalIds
      /\ row'.status = "active" => ~AtBudget(row'.used, row'.budget)
    BY <1>1, MakingGoals
<1>3. turn' \in TurnType /\ turn'.goal = issued + 1 /\ turn'.at = "run"
    BY <1>1, <1>2, GoalTypes DEF TurnType
<1>4. GoalTypeOK'
  <2>1. row' \in [id : GoalIds, status : GoalStatuses, budget : Budgets \cup {Unlimited},
                  used : 0 .. MaxUsed]
      BY <1>2 DEF RowType, AnyBudget
  <2>2. issued' \in 0 .. MaxGoals
      BY <1>1, GoalTypes, GoalConstants DEF GoalConstants
  <2> QED
      BY <1>1, <1>3, <2>1, <2>2 DEF GoalTypeOK, TurnType, AnyBudget, NoGoalId
<1>5. IdsFresh'
    BY <1>1, <1>2, <1>3, GoalTypes DEF IdsFresh, NoGoalId
<1>6. ChargeDue'
    BY <1>1, <1>3, GoalConstants DEF ChargeDue, GoalConstants
<1>7. BoundWhileQuiet'
    BY <1>1, <1>2, <1>3, GoalTypes DEF BoundWhileQuiet, NoGoalId
<1>8. GoalsAreSound'
    BY <1>1, <1>2, <1>3 DEF GoalsAreSound, ActiveHasBudget, ChargedForOwnTurns, StopsHold
<1> QED
    BY <1>4, <1>5, <1>6, <1>7, <1>8

LEMMA ToolUpdatesStep ==
    ASSUME GoalInv, NEW status \in {"complete", "blocked"}, ToolUpdates(status)
    PROVE  GoalInv'
<1> USE DEF GoalInv
<1>1. /\ turn.at = "run" /\ row # NoRow /\ row' = GoalUpdated(row, status, row.budget)
      /\ reported' = NoGoalId /\ UNCHANGED <<issued, turn, edit, failures, spent, quiet>>
    BY DEF ToolUpdates
<1>2. status \in GoalStatuses /\ row.budget \in AnyBudget
    BY GoalTypes DEF GoalStatuses, RowType
<1>3. /\ row' \in RowType /\ row'.id = row.id /\ row'.used = row.used /\ row'.status # "active"
    BY <1>1, <1>2, GoalTypes, Updating
<1>4. /\ reported' \in GoalIds \cup {NoGoalId} /\ failures' \in 0 .. MaxStoreFailures
      /\ quiet' \in BOOLEAN /\ (quiet' => quiet) /\ turn.goal <= issued /\ row.used <= spent
    BY <1>1 DEF GoalTypeOK, IdsFresh, GoalsAreSound, ChargedForOwnTurns
<1> QED
    BY <1>1, <1>3, <1>4, GoalTypes, RowMoves

\* What /goal may do.
LEMMA UserMoves ==
    ASSUME GoalInv, UserActs, row' \in RowType, edit' \in EditType,
           edit' # NoEdit => edit'.id # NoGoalId,
           row'.status = "active" => ~AtBudget(row'.used, row'.budget),
           \/ row'.id = row.id /\ row'.used = row.used /\ issued' = issued /\ (row # NoRow \/ row' = row)
           \/ row' = NoRow /\ issued' = issued
           \/ /\ row'.id = issued + 1 /\ row'.used = 0
              /\ issued' = issued + 1 /\ issued + 1 \in GoalIds
    PROVE  GoalInv'
<1> USE DEF GoalInv
<1>1. /\ quiet' = FALSE /\ UNCHANGED <<turn, reported, failures>>
      /\ spent' = IF row'.id = row.id THEN spent ELSE 0
    BY DEF UserActs
<1>2. row.id <= issued /\ turn.goal <= issued /\ row.id \in Nat /\ issued \in Nat /\ NoGoalId = 0
    BY GoalTypes DEF IdsFresh, NoGoalId
<1>3. GoalTypeOK'
  <2>1. row' \in [id : GoalIds, status : GoalStatuses, budget : Budgets \cup {Unlimited},
                  used : 0 .. MaxUsed] \cup {NoRow}
    <3>1. row'.id \in GoalIds \/ row' = NoRow
        BY GoalTypes
    <3> QED
        BY <3>1 DEF RowType, AnyBudget
  <2>2. issued' \in 0 .. MaxGoals
      BY GoalTypes, GoalConstants DEF GoalConstants, GoalIds, GoalTypeOK
  <2>3. spent' \in Nat
      BY <1>1, GoalTypes
  <2> QED
      BY <1>1, <2>1, <2>2, <2>3 DEF GoalTypeOK, EditType, AnyBudget
<1>4. IdsFresh'
  <2>1. /\ (row'.id \in {row.id, 0}) \/ (row'.id = issued' /\ issued' = issued + 1)
        /\ issued' \in {issued, issued + 1}
      BY <1>2 DEF NoRow
  <2>2. issued <= issued' /\ issued' \in Nat /\ 0 <= issued'
      BY <1>2, <2>1
  <2>3. turn'.goal <= issued'
      BY <1>1, <1>2, <2>2, GoalTypes
  <2>4. row'.id <= issued'
      BY <1>2, <2>1, <2>2
  <2>5. row'.id = NoGoalId => row' = NoRow
      BY <1>2 DEF IdsFresh
  <2> QED
      BY <2>5, <2>3, <2>4 DEF IdsFresh
<1>5. row'.id # row.id => row'.used = 0
    BY DEF NoRow
<1>6. ChargeDue'
  <2>1. spent' <= MaxUsed
      BY <1>1, GoalConstants DEF ChargeDue, GoalConstants
  <2>2. ASSUME turn'.at \in {"end", "charge"}, row'.id = turn'.goal
        PROVE  row'.used + turn'.cost <= spent'
    <3>1. turn.goal # NoGoalId /\ row'.id = turn.goal
        BY <1>1, <2>2 DEF BoundWhileQuiet
    <3>2. row'.id = row.id /\ row'.used = row.used
        BY <1>2, <3>1 DEF NoRow
    <3> QED
        BY <1>1, <2>2, <3>2 DEF ChargeDue
  <2> QED
      BY <2>1, <2>2 DEF ChargeDue
<1>7. BoundWhileQuiet'
    BY <1>1 DEF BoundWhileQuiet
<1>8. GoalsAreSound'
  <2>1. row'.used <= spent'
    <3>1. CASE row'.id = row.id
      <4>1. row'.used = row.used
          BY <1>2, <3>1, GoalTypes DEF NoRow, IdsFresh
      <4> QED
          BY <1>1, <3>1, <4>1 DEF GoalsAreSound, ChargedForOwnTurns
    <3>2. CASE row'.id # row.id
        BY <1>1, <1>5, <3>2
    <3> QED
        BY <3>1, <3>2
  <2> QED
      BY <1>1, <2>1 DEF GoalsAreSound, ActiveHasBudget, ChargedForOwnTurns, StopsHold
<1> QED
    BY <1>3, <1>4, <1>6, <1>7, <1>8

LEMMA UserSteps ==
    ASSUME GoalInv, UserStep
    PROVE  GoalInv'
<1> USE DEF GoalInv
<1>1. /\ edit \in EditType /\ (edit # NoEdit => edit.id # NoGoalId) /\ row \in RowType
      /\ NoEdit \in EditType /\ Budgets \subseteq AnyBudget
    BY GoalTypes DEF IdsFresh, EditType, NoEdit, AnyBudget, NoGoalId, GoalStatuses
<1>2. ASSUME NEW budget \in AnyBudget, UserSets(budget)
      PROVE  GoalInv'
    BY <1>1, <1>2, MakingGoals, UserMoves DEF UserSets
<1>3. CASE UserClears
  <2>1. row' = NoRow /\ row'.status = "complete"
      BY <1>3 DEF UserClears, NoRow
  <2> QED
      BY <1>1, <1>3, <2>1, GoalTypes, UserMoves DEF UserClears
<1>4. CASE UserPauses
  <2>1. row # NoRow /\ row' = [row EXCEPT !.status = "paused"] /\ UNCHANGED <<issued, edit>> /\ UserActs
      BY <1>4 DEF UserPauses, NoRow
  <2>2. row' \in RowType /\ row'.id = row.id /\ row'.used = row.used /\ row'.status = "paused"
      BY <1>1, <2>1 DEF RowType, GoalStatuses
  <2> QED
      BY <1>1, <2>1, <2>2, UserMoves
<1>5. CASE UserResumes
  <2>1. "active" \in GoalStatuses /\ row.budget \in AnyBudget
      BY <1>1 DEF GoalStatuses, RowType
  <2>2. /\ row' \in RowType /\ row'.id = row.id /\ row'.used = row.used
        /\ row'.status = "active" => ~AtBudget(row'.used, row'.budget)
      BY <1>1, <1>5, <2>1, Updating DEF UserResumes
  <2> QED
      BY <1>1, <1>5, <2>2, UserMoves DEF UserResumes
<1>6. ASSUME NEW budget \in Budgets, UserBudgets(budget)
      PROVE  GoalInv'
  <2>1. row' = [row EXCEPT !.budget = budget, !.status = Settled(row.status, row.used, budget)]
      BY <1>1, <1>6 DEF UserBudgets, RowType
  <2>2. Settled(row.status, row.used, budget) \in GoalStatuses
      BY <1>1 DEF Settled, RowType, GoalStatuses
  <2>3. /\ row' \in RowType /\ row'.id = row.id /\ row'.used = row.used
        /\ row'.status = "active" => ~AtBudget(row'.used, row'.budget)
      BY <1>1, <2>1, <2>2 DEF RowType, Settled
  <2> QED
      BY <1>1, <1>6, <2>3, UserMoves DEF UserBudgets
<1>7. ASSUME NEW budget \in AnyBudget, EditBegins(budget)
      PROVE  GoalInv'
  <2>1. edit' \in EditType /\ edit'.id # NoGoalId
      BY <1>1, <1>7, GoalTypes DEF EditBegins, EditType, RowType, GoalStatuses, NoGoalId, GoalIds
  <2>2. row'.status = "active" => ~AtBudget(row'.used, row'.budget)
      BY <1>7 DEF EditBegins, GoalsAreSound, ActiveHasBudget
  <2> QED
      BY <1>1, <1>7, <2>1, <2>2, UserMoves DEF EditBegins
<1>8. CASE EditEnds
  <2> DEFINE budget == IF edit.budget = Unlimited THEN row.budget ELSE edit.budget
  <2>1. budget \in AnyBudget /\ edit.status \in GoalStatuses
      BY <1>1 DEF EditType, RowType
  <2>2. CASE row.id = edit.id /\ row' = GoalUpdated(row, edit.status, budget)
    <3>1. row # NoRow
        BY <1>1, <1>8, <2>2 DEF EditEnds, NoRow
    <3>2. /\ row' \in RowType /\ row'.id = row.id /\ row'.used = row.used
          /\ row'.status = "active" => ~AtBudget(row'.used, row'.budget)
      <4> HIDE DEF budget
      <4> QED
          BY <1>1, <2>1, <2>2, Updating
    <3> QED
        BY <1>1, <1>8, <3>1, <3>2, UserMoves DEF EditEnds
  <2>3. CASE row' = row
    <3>1. row'.status = "active" => ~AtBudget(row'.used, row'.budget)
        BY <2>3 DEF GoalsAreSound, ActiveHasBudget
    <3> QED
        BY <1>1, <1>8, <2>3, <3>1, UserMoves DEF EditEnds
  <2> QED
      BY <1>8, <2>2, <2>3 DEF EditEnds
<1> QED
    BY <1>2, <1>3, <1>4, <1>5, <1>6, <1>7, <1>8 DEF UserStep, AnyBudget

LEMMA GoalStep == GoalInv /\ [GoalNext]_goalVars => GoalInv'
<1> SUFFICES ASSUME GoalInv, [GoalNext]_goalVars PROVE GoalInv'
    OBVIOUS
<1>1. CASE TurnStep
    BY <1>1, TurnStartsStep, TurnRunEndsStep, AccountReadsStep, AccountChargesStep, TurnStopsStep,
        LoopSteps DEF TurnStep
<1>2. CASE ToolStep
    BY <1>2, ToolCreatesStep, ToolUpdatesStep DEF ToolStep, AnyBudget
<1>3. CASE UNCHANGED goalVars
    BY <1>3 DEF goalVars, goalUser, GoalInv, GoalTypeOK, IdsFresh, ChargeDue, BoundWhileQuiet,
        GoalsAreSound, ActiveHasBudget, ChargedForOwnTurns, StopsHold
<1> QED
    BY <1>1, <1>2, <1>3, HandleStep, UserSteps DEF GoalNext

\* In every reachable state an active goal has budget left, a goal was charged
\* for no more than its own turns spent, and a turn that was cancelled or failed
\* leaves no active goal behind unless the user spoke: whatever /goal, the model's
\* goal tools and failing transactions do between the transactions of a turn
\* (core/goals.py, core/goal_runtime.py).
THEOREM GoalsStaySound == GoalSpec => []GoalsAreSound
<1>1. GoalInv => GoalsAreSound
    BY DEF GoalInv
<1> QED
    BY GoalStart, GoalStep, <1>1, PTL DEF GoalSpec

-----------------------------------------------------------------------------
(* Background agents.                                                      *)

Mail == Seq(AgentMessages)
AgentRecords == [state : AgentStates, owner : Runtimes \cup {NoRuntime}, execution : 0 .. MaxExecutions,
                 pending : Mail, inflight : Mail]
AgentTasks == [at : RunningAt \cup {"none", "unstarted", "done"}, execution : 0 .. MaxExecutions,
               rounds : 0 .. MaxAgentRounds, carried : Mail]

\* A run that is over has recorded it, or could not.
EndRecorded == \A r \in Runtimes :
    agentTask[r].at = "done" => agent.state # "in_progress" \/ agentFailures > 0

\* What a run has yet to do: its rounds from the first, and no mail between them.
RunsBetweenRounds == \A r \in Runtimes :
    /\ agentTask[r].at \in {"claim", "finish"} => agent.inflight = <<>>
    /\ agentTask[r].at = "new" => agentTask[r].rounds = 0

\* A runtime that is about to record a cancellation still owns an open record.
CancelsChecked == \A r \in checked :
    /\ agentTask[r].at \in {"none", "done"}
    /\ agent.owner = r => agent.state \notin AgentEnded

\* Nothing happens to an agent before its first run, which gives it an owner.
RecordOpened ==
    /\ agent.state = "none" => checked = {} /\ agent.execution = 0 /\ runLock = NoRuntime
    /\ agent.state # "none" => agent.owner \in Runtimes

AgentInv ==
    /\ AgentTypeOK /\ RunsHoldRecord /\ OrphansExplained /\ MailKept
    /\ EndRecorded /\ RunsBetweenRounds /\ CancelsChecked /\ RecordOpened

LEMMA AgentTypes ==
    ASSUME AgentTypeOK
    PROVE  /\ agent \in AgentRecords /\ agent.state \in AgentStates
           /\ agent.pending \in Mail /\ agent.inflight \in Mail /\ acked \in Mail
           /\ agent.owner \in Runtimes \cup {NoRuntime} /\ agent.execution \in 0 .. MaxExecutions
           /\ agentTask \in [Runtimes -> AgentTasks]
           /\ \A r \in Runtimes : agentTask[r] \in AgentTasks
    BY DEF AgentTypeOK, AgentRecords, AgentTasks, Mail

LEMMA AgentCounts ==
    ASSUME AgentTypeOK
    PROVE  /\ runLock \in Runtimes \cup {NoRuntime}
           /\ runtime \in [Runtimes -> {"up", "closing", "closed", "dead"}]
           /\ agentOwned \subseteq Runtimes /\ checked \subseteq Runtimes
           /\ agentFailures \in 0 .. MaxAgentFailures /\ agentFailures >= agentFailures
           /\ sent \in 0 .. MaxMessages /\ acked \in Mail
<1>1. /\ runLock \in Runtimes \cup {NoRuntime}
      /\ runtime \in [Runtimes -> {"up", "closing", "closed", "dead"}]
      /\ agentOwned \subseteq Runtimes /\ checked \subseteq Runtimes
      /\ agentFailures \in 0 .. MaxAgentFailures
      /\ sent \in 0 .. MaxMessages /\ acked \in Mail
    BY Zenon DEF AgentTypeOK, Mail
<1> QED
    BY <1>1

LEMMA AgentTyped ==
    ASSUME agent' \in AgentRecords, agentTask' \in [Runtimes -> AgentTasks],
           runLock' \in Runtimes \cup {NoRuntime},
           runtime' \in [Runtimes -> {"up", "closing", "closed", "dead"}],
           agentOwned' \subseteq Runtimes, checked' \subseteq Runtimes,
           agentFailures' \in 0 .. MaxAgentFailures, sent' \in 0 .. MaxMessages, acked' \in Mail
    PROVE  AgentTypeOK'
  BY Zenon DEF AgentTypeOK, AgentRecords, AgentTasks, Mail

LEMMA AgentStart == AgentInit => AgentInv
<1> SUFFICES ASSUME AgentInit PROVE AgentInv
    OBVIOUS
<1> USE AgentConstants DEF AgentConstants, AgentInit
<1>1. <<>> \in Mail
    BY EmptySeq DEF Mail
<1>2. IdleTask \in AgentTasks /\ IdleTask.at = "none"
    BY <1>1 DEF IdleTask, AgentTasks
<1>3. AgentTypeOK
    BY <1>1, <1>2 DEF AgentTypeOK, AgentTasks, AgentStates, Mail
<1>4. \A r \in Runtimes : agentTask[r].at = "none" /\ runLock # r
    BY <1>2
<1>5. /\ RunsHoldRecord /\ OrphansExplained /\ EndRecorded /\ RunsBetweenRounds
      /\ CancelsChecked /\ RecordOpened
    BY <1>4 DEF RunsHoldRecord, OrphansExplained, EndRecorded, RunsBetweenRounds, CancelsChecked,
            RecordOpened, RunningAt
<1>6. acked \o agent.inflight \o agent.pending = <<>>
    BY <1>1, ConcatEmptySeq DEF Mail
<1>7. [i \in 1 .. sent |-> i] = <<>>
    BY SMT
<1>8. MailKept
    BY <1>4, <1>6, <1>7 DEF MailKept
<1> QED
    BY <1>3, <1>5, <1>8 DEF AgentInv

\* A step of a run that has begun, and of nobody else.
LEMMA RunMoves ==
    ASSUME AgentInv, NEW r \in Runtimes, agentTask[r].at \in RunningAt,
           TaskOnly, agentFailures' \in 0 .. MaxAgentFailures, agentFailures' >= agentFailures,
           agentTask' \in [Runtimes -> AgentTasks],
           \A q \in Runtimes \ {r} : agentTask'[q] = agentTask[q],
           agentTask'[r].at # "none", agentTask'[r].execution = agentTask[r].execution,
           agent' \in AgentRecords, agent'.owner = agent.owner, agent'.execution = agent.execution,
           agent'.state # "none", acked' \in Mail,
           agentTask'[r].at \in RunningAt => agent'.state \in {"in_progress", "delayed"},
           agentTask'[r].at = "done" => agent'.state # "in_progress" \/ agentFailures' > 0,
           acked' \o agent'.inflight \o agent'.pending = acked \o agent.inflight \o agent.pending,
           agentTask'[r].at \in {"execute", "ack"} => agentTask'[r].carried = agent'.inflight,
           agentTask'[r].at \in {"claim", "finish"} => agent'.inflight = <<>>,
           agentTask'[r].at = "new" => agentTask'[r].rounds = 0
    PROVE  AgentInv'
<1> USE DEF TaskOnly
<1>1. AgentTypeOK'
    BY AgentCounts, AgentTyped DEF AgentInv
<1>2. /\ agentTask[r].at # "none" /\ runLock = r
      /\ agent.owner = r /\ agent.execution = agentTask[r].execution
      /\ \A q \in Runtimes \ {r} : agentTask[q].at = "none" /\ agentTask'[q].at = "none"
    BY DEF AgentInv, RunsHoldRecord, RunningAt
<1>3. RunsHoldRecord'
  <2> SUFFICES ASSUME NEW q \in Runtimes
               PROVE  /\ runLock = q <=> agentTask'[q].at # "none"
                      /\ runLock = q => agent'.owner = q /\ agent'.execution = agentTask'[q].execution
                      /\ agentTask'[q].at \in RunningAt => agent'.state \in {"in_progress", "delayed"}
      BY DEF RunsHoldRecord
  <2>1. CASE q = r
      BY <1>2, <2>1
  <2>2. CASE q # r
      BY <1>2, <2>2 DEF RunningAt
  <2> QED
      BY <2>1, <2>2
<1>4. OrphansExplained'
    BY DEF OrphansExplained
<1>5. MailKept'
    BY <1>2 DEF AgentInv, MailKept
<1>6. EndRecorded' /\ RunsBetweenRounds'
    BY <1>2 DEF EndRecorded, RunsBetweenRounds
<1>7. r \notin checked
    BY DEF AgentInv, CancelsChecked, RunningAt
<1>8. CancelsChecked'
  <2>1. \A q \in checked : q \in Runtimes /\ q # r
      BY <1>7 DEF AgentInv, AgentTypeOK
  <2> QED
      BY <1>2, <2>1 DEF AgentInv, CancelsChecked
<1>9. RecordOpened'
    BY <1>2 DEF RecordOpened
<1> QED
    BY <1>1, <1>3, <1>4, <1>5, <1>6, <1>8, <1>9 DEF AgentInv

LEMMA RunArrives ==
    ASSUME AgentInv, NEW r \in Runtimes, NEW at \in RunningAt \cup {"unstarted", "done"}, GoTo(r, at)
    PROVE  /\ agentTask' \in [Runtimes -> AgentTasks]
           /\ \A q \in Runtimes \ {r} : agentTask'[q] = agentTask[q]
           /\ agentTask'[r].at = at /\ agentTask'[r].at # "none"
           /\ agentTask'[r].execution = agentTask[r].execution
           /\ agentTask'[r].rounds = agentTask[r].rounds
           /\ agentTask'[r].carried = agentTask[r].carried
<1>1. agentTask \in [Runtimes -> AgentTasks]
    BY AgentTypes DEF AgentInv
<1>2. at \in RunningAt \cup {"none", "unstarted", "done"} /\ at # "none"
    BY DEF RunningAt
<1>3. agentTask' = [agentTask EXCEPT ![r] = [agentTask[r] EXCEPT !.at = at]]
    BY <1>1 DEF GoTo, AgentTasks
<1>4. [agentTask[r] EXCEPT !.at = at] \in AgentTasks
    BY <1>1, <1>2 DEF AgentTasks
<1> QED
    BY <1>1, <1>2, <1>3, <1>4 DEF AgentTasks

LEMMA BeginsRound ==
    ASSUME AgentInv, NEW r \in Runtimes, NEW carried \in Mail, Begin(r, carried),
           agentTask[r].rounds # MaxAgentRounds
    PROVE  /\ agentTask' \in [Runtimes -> AgentTasks]
           /\ \A q \in Runtimes \ {r} : agentTask'[q] = agentTask[q]
           /\ agentTask'[r].at = "execute"
           /\ agentTask'[r].execution = agentTask[r].execution
           /\ agentTask'[r].carried = carried
<1> DEFINE begun == [agentTask[r] EXCEPT !.at = "execute", !.rounds = @ + 1, !.carried = carried]
<1>1. agentTask \in [Runtimes -> AgentTasks]
    BY AgentTypes DEF AgentInv
<1>2. agentTask[r].rounds \in 0 .. MaxAgentRounds /\ agentTask[r].rounds + 1 \in 0 .. MaxAgentRounds
    BY <1>1, AgentConstants DEF AgentTasks, AgentConstants
<1>3. agentTask' = [agentTask EXCEPT ![r] = begun]
    BY <1>1 DEF Begin, AgentTasks
<1>4. begun \in AgentTasks /\ begun.at = "execute" /\ begun.carried = carried
      /\ begun.execution = agentTask[r].execution
    BY <1>1, <1>2 DEF AgentTasks, RunningAt
<1> HIDE DEF begun
<1> QED
    BY <1>1, <1>3, <1>4

\* What the state of a run that has begun says of it.
LEMMA RunFacts ==
    ASSUME AgentInv, NEW r \in Runtimes, agentTask[r].at \in RunningAt
    PROVE  /\ agent.state \in {"in_progress", "delayed"} /\ MayFinish(r) /\ runLock = r
           /\ agent.pending \in Mail /\ agent.inflight \in Mail /\ acked \in Mail
           /\ agent \in AgentRecords /\ agentFailures \in 0 .. MaxAgentFailures
           /\ MaxAgentFailures \in Nat
    BY AgentTypes, AgentConstants
    DEF AgentInv, RunsHoldRecord, MayFinish, RunningAt, AgentTypeOK, AgentConstants

\* Steps of a run that leave the record and the mail as they are.
LEMMA RunGoes ==
    ASSUME AgentInv, NEW r \in Runtimes, agentTask[r].at \in RunningAt, TaskOnly,
           NEW at \in RunningAt \cup {"unstarted", "done"}, GoTo(r, at), UNCHANGED <<agent, acked>>,
           Succeeds \/ TransactionFails, at = "done" => TransactionFails,
           at \in {"execute", "ack"} => agentTask[r].at \in {"execute", "ack"},
           at \in {"claim", "finish"} => agent.inflight = <<>>,
           at # "new"
    PROVE  AgentInv'
<1>1. agentFailures' \in 0 .. MaxAgentFailures /\ agentFailures' >= agentFailures
      /\ (at = "done" => agentFailures' > 0)
    BY RunFacts DEF Succeeds, TransactionFails
<1>2. agentTask'[r].at \in {"execute", "ack"} => agentTask'[r].carried = agent.inflight
    BY RunArrives DEF AgentInv, MailKept
<1> HIDE DEF TaskOnly
<1> QED
    BY <1>1, <1>2, RunFacts, RunArrives, RunMoves

LEMMA ClaimStep == ASSUME AgentInv, NEW r \in Runtimes, Claim(r) PROVE AgentInv'
<1>1. agentTask[r].at \in {"new", "claim"} /\ agentTask[r].at \in RunningAt /\ TaskOnly /\ acked' = acked
    BY DEF Claim, RunningAt
<1>2. ASSUME NEW at \in {"cancelling", "failing"}, GoTo(r, at), agent' = agent, Succeeds \/ TransactionFails
      PROVE  AgentInv'
    BY <1>1, <1>2, RunGoes DEF RunningAt
<1>3. CASE GoTo(r, "finish") /\ agent' = agent /\ Succeeds
           /\ (agentTask[r].rounds = MaxAgentRounds \/ ClaimableMail = <<>>)
  <2>1. agent.inflight = <<>>
    <3>1. CASE ClaimableMail = <<>>
        BY <3>1, <1>1, RunFacts, ConcatEqualIffEmpty DEF ClaimableMail, Mail
    <3>2. CASE agentTask[r].rounds = MaxAgentRounds
        BY <3>2, <1>1, AgentConstants DEF AgentInv, RunsBetweenRounds, AgentConstants
    <3> QED
        BY <1>3, <3>1, <3>2
  <2> QED
      BY <1>1, <1>3, <2>1, RunGoes DEF RunningAt
<1>4. CASE /\ agentTask[r].rounds # MaxAgentRounds /\ ClaimableMail # <<>> /\ Succeeds
           /\ agent' = [agent EXCEPT !.inflight = ClaimableMail, !.pending = <<>>]
           /\ Begin(r, ClaimableMail)
  <2>1. ClaimableMail \in Mail /\ <<>> \in Mail
      BY <1>1, RunFacts, ConcatProperties, EmptySeq DEF ClaimableMail, Mail
  <2>2. /\ agent' \in AgentRecords /\ agent'.owner = agent.owner /\ agent'.execution = agent.execution
        /\ agent'.state = agent.state /\ agent'.inflight = ClaimableMail /\ agent'.pending = <<>>
      BY <1>1, <1>4, <2>1, RunFacts DEF AgentRecords
  <2>3. ClaimableMail \o <<>> = ClaimableMail
      BY <2>1, ConcatEmptySeq DEF Mail
  <2>4. acked' \o agent'.inflight \o agent'.pending = acked \o agent.inflight \o agent.pending
    <3>1. acked \o agent.inflight \o agent.pending = acked \o ClaimableMail
      <4>1. acked \in Mail /\ agent.inflight \in Mail /\ agent.pending \in Mail
          BY <1>1, RunFacts
      <4>2. \A x, y, z \in Mail : (x \o y) \o z = x \o (y \o z)
          BY ConcatAssociative DEF Mail
      <4> QED
          BY <4>1, <4>2 DEF ClaimableMail
    <3>2. acked \o ClaimableMail \in Mail
        BY <1>1, <2>1, RunFacts, ConcatProperties DEF Mail
    <3>3. acked \o ClaimableMail \o <<>> = acked \o ClaimableMail
        BY <3>2, ConcatEmptySeq DEF Mail
    <3> QED
        BY <1>1, <2>2, <3>1, <3>3
  <2>5. agentFailures' \in 0 .. MaxAgentFailures /\ agentFailures' >= agentFailures
      BY <1>1, <1>4, RunFacts DEF Succeeds
  <2>6. /\ agentTask' \in [Runtimes -> AgentTasks]
        /\ \A q \in Runtimes \ {r} : agentTask'[q] = agentTask[q]
        /\ agentTask'[r].at = "execute"
        /\ agentTask'[r].execution = agentTask[r].execution
        /\ agentTask'[r].carried = agent'.inflight
      BY <1>4, <2>1, <2>2, BeginsRound
  <2>7. agent'.state \in {"in_progress", "delayed"} /\ agent'.state # "none" /\ acked' \in Mail
      BY <1>1, <2>2, RunFacts
  <2> QED
      BY <1>1, <2>2, <2>4, <2>5, <2>6, <2>7, RunMoves
<1>5. CASE agentTask[r].rounds # MaxAgentRounds /\ ClaimableMail = <<>> /\ Begin(r, <<>>)
           /\ agent' = agent /\ Succeeds
  <2>1. agent.inflight = <<>> /\ <<>> \in Mail
      BY <1>1, <1>5, RunFacts, ConcatEqualIffEmpty, EmptySeq DEF ClaimableMail, Mail
  <2>2. agentFailures' \in 0 .. MaxAgentFailures /\ agentFailures' >= agentFailures
      BY <1>1, <1>5, RunFacts DEF Succeeds
  <2> QED
      BY <1>1, <1>5, <2>1, <2>2, RunFacts, BeginsRound, RunMoves
<1> QED
  <2>1. CASE runtime[r] = "closing"
      BY <2>1, <1>2 DEF Claim
  <2>2. CASE runtime[r] # "closing" /\ agentTask[r].rounds = MaxAgentRounds
      BY <2>2, <1>3 DEF Claim
  <2>3. CASE runtime[r] # "closing" /\ agentTask[r].rounds # MaxAgentRounds
    <3>1. agent.owner = r
        BY <1>1, RunFacts DEF MayFinish
    <3>2. CASE GoTo(r, "failing") /\ TransactionFails
        BY <3>2, <1>2 DEF TransactionFails
    <3>3. CASE ClaimableMail # <<>> /\ ~(GoTo(r, "failing") /\ TransactionFails)
        BY <2>3, <3>1, <3>3, <1>4 DEF Claim
    <3>4. CASE ClaimableMail = <<>> /\ ~(GoTo(r, "failing") /\ TransactionFails)
      <4>1. CASE TaskAt(r, "new")
          BY <2>3, <3>1, <3>4, <4>1, <1>5 DEF Claim
      <4>2. CASE ~TaskAt(r, "new")
          BY <2>3, <3>1, <3>4, <4>2, <1>3 DEF Claim
      <4> QED
          BY <4>1, <4>2
    <3> QED
        BY <3>2, <3>3, <3>4
  <2> QED
      BY <2>1, <2>2, <2>3

LEMMA RoundEndsStep == ASSUME AgentInv, NEW r \in Runtimes, RoundEnds(r) PROVE AgentInv'
<1>1. agentTask[r].at \in RunningAt /\ agentTask[r].at = "execute" /\ TaskOnly /\ UNCHANGED <<agent, acked>> /\ Succeeds
    BY DEF RoundEnds, TaskAt, RunningAt, Succeeds
<1>2. ASSUME NEW at \in {"ack", "failing"}, GoTo(r, at) PROVE AgentInv'
    BY <1>1, <1>2, RunGoes DEF RunningAt
<1> QED
    BY <1>2 DEF RoundEnds

LEMMA AcknowledgeStep == ASSUME AgentInv, NEW r \in Runtimes, Acknowledge(r) PROVE AgentInv'
<1>1. agentTask[r].at \in RunningAt /\ agentTask[r].at = "ack" /\ TaskOnly
    BY DEF Acknowledge, TaskAt, RunningAt
<1>2. MayFinish(r)
    BY <1>1, RunFacts
<1>3. CASE GoTo(r, "failing") /\ TransactionFails /\ acked' = acked
    BY <1>1, <1>3, RunGoes DEF RunningAt, TransactionFails
<1>4. CASE /\ agent' = [agent EXCEPT !.inflight = <<>>] /\ acked' = acked \o agent.inflight
           /\ agentTask' = [agentTask EXCEPT ![r].at = "claim", ![r].carried = <<>>] /\ Succeeds
  <2> DEFINE acknowledged == [agentTask[r] EXCEPT !.at = "claim", !.carried = <<>>]
  <2>1. <<>> \in Mail /\ agentTask \in [Runtimes -> AgentTasks]
      BY EmptySeq, AgentTypes DEF Mail, AgentInv
  <2>2. acknowledged \in AgentTasks /\ acknowledged.at = "claim" /\ acknowledged.execution = agentTask[r].execution
      BY <2>1 DEF AgentTasks, RunningAt
  <2>3. agentTask' = [agentTask EXCEPT ![r] = acknowledged]
      BY <1>4, <2>1 DEF AgentTasks
  <2>4. /\ agent' \in AgentRecords /\ agent'.owner = agent.owner /\ agent'.execution = agent.execution
        /\ agent'.state = agent.state /\ agent'.inflight = <<>> /\ agent'.pending = agent.pending
      BY <1>1, <1>4, <2>1, RunFacts DEF AgentRecords
  <2>5. acked' \in Mail /\ acked' \o <<>> = acked'
      BY <1>1, <1>4, RunFacts, ConcatProperties, ConcatEmptySeq DEF Mail
  <2>6. acked' \o agent'.inflight \o agent'.pending = acked \o agent.inflight \o agent.pending
      BY <1>4, <2>4, <2>5
  <2>7. agentFailures' \in 0 .. MaxAgentFailures /\ agentFailures' >= agentFailures
      BY <1>1, <1>4, RunFacts DEF Succeeds
  <2> HIDE DEF acknowledged
  <2>8. /\ agentTask' \in [Runtimes -> AgentTasks] /\ agentTask'[r] = acknowledged
        /\ \A q \in Runtimes \ {r} : agentTask'[q] = agentTask[q]
      BY <2>1, <2>2, <2>3
  <2> QED
      BY <1>1, <2>2, <2>4, <2>5, <2>6, <2>7, <2>8, RunFacts, RunMoves
<1> QED
    BY <1>2, <1>3, <1>4 DEF Acknowledge

\* _finish_record changes the state alone.
LEMMA FinishingChanges ==
    ASSUME agent \in AgentRecords, NEW state \in AgentEnded
    PROVE  /\ Finished(state) \in AgentRecords
           /\ Finished(state).owner = agent.owner /\ Finished(state).execution = agent.execution
           /\ Finished(state).pending = agent.pending /\ Finished(state).inflight = agent.inflight
           /\ Finished(state).state \in {state, "delayed"}
           /\ Finished(state).state = "completed" => agent.pending = <<>>
           /\ state # "completed" => Finished(state).state = state
<1> DEFINE to == IF state = "completed" /\ agent.pending # <<>> THEN "delayed" ELSE state
<1>1. to \in AgentStates /\ to \in {state, "delayed"} /\ (to = "completed" => agent.pending = <<>>)
      /\ (state # "completed" => to = state)
    BY DEF AgentStates
<1>2. Finished(state) = [agent EXCEPT !.state = to]
    BY DEF Finished
<1> HIDE DEF to
<1> QED
    BY <1>1, <1>2 DEF AgentRecords

LEMMA RecordsStep ==
    ASSUME AgentInv, NEW r \in Runtimes, NEW at \in RunningAt, NEW state \in AgentEnded,
           NEW otherwise \in {"failing", "done"}, Records(r, at, state, otherwise)
    PROVE  AgentInv'
<1>1. agentTask[r].at \in RunningAt /\ TaskOnly /\ acked' = acked
    BY DEF Records, TaskAt
<1>2. MayFinish(r)
    BY <1>1, RunFacts
<1>3. CASE GoTo(r, otherwise) /\ TransactionFails
    BY <1>1, <1>3, RunGoes DEF RunningAt, TransactionFails
<1>4. CASE agent' = Finished(state) /\ GoTo(r, "done") /\ Succeeds
  <2>1. /\ agent' \in AgentRecords /\ agent'.owner = agent.owner /\ agent'.execution = agent.execution
        /\ agent'.inflight = agent.inflight /\ agent'.pending = agent.pending
        /\ agent'.state \notin {"none", "in_progress"}
      BY <1>1, <1>4, RunFacts, FinishingChanges DEF AgentEnded
  <2>2. agentFailures' \in 0 .. MaxAgentFailures /\ agentFailures' >= agentFailures
      BY <1>1, <1>4, RunFacts DEF Succeeds
  <2>3. "done" \notin RunningAt
      BY DEF RunningAt
  <2> QED
      BY <1>1, <1>4, <2>1, <2>2, <2>3, RunFacts, RunArrives, RunMoves
<1> QED
    BY <1>2, <1>3, <1>4 DEF Records

LEMMA RunEndingStep == ASSUME AgentInv, NEW r \in Runtimes, RunEnding(r) PROVE AgentInv'
    BY RecordsStep DEF RunEnding, RunningAt, AgentEnded

LEMMA CancelRunningStep == ASSUME AgentInv, NEW r \in Runtimes, CancelRunning(r) PROVE AgentInv'
<1>1. TaskOnly /\ UNCHANGED <<agent, acked>> /\ Succeeds /\ TaskCancelled(r)
    BY DEF CancelRunning, Succeeds
<1>2. CASE TaskAt(r, "new") /\ GoTo(r, "unstarted")
    BY <1>1, <1>2, RunGoes DEF RunningAt, TaskAt
<1>3. CASE TaskAt(r, "execute") /\ GoTo(r, "cancelling")
    BY <1>1, <1>3, RunGoes DEF RunningAt, TaskAt
<1> QED
    BY <1>1, <1>2, <1>3 DEF TaskCancelled

\* The lock is given back: the task is gone, and its record is not left open
\* without a reason.
LEMMA TaskGone ==
    ASSUME AgentInv, NEW r \in Runtimes, agentTask[r].at # "none", r \notin checked' \/ checked' = checked,
           agentTask' = [agentTask EXCEPT ![r] = IdleTask], runLock' = NoRuntime,
           runtime' \in [Runtimes -> {"up", "closing", "closed", "dead"}], checked' \subseteq checked,
           agentFailures' \in 0 .. MaxAgentFailures, agentFailures' >= agentFailures,
           agent' \in AgentRecords, agent'.owner = r, agent'.execution = agent.execution,
           agent'.state # "none", checked' # checked => agent' = agent,
           agent' # agent => r \notin checked',
           agent'.inflight = agent.inflight, agent'.pending = agent.pending,
           agent'.state = "in_progress" => agentFailures' > 0 \/ runtime'[r] = "dead",
           UNCHANGED <<agentOwned, sent, acked>>
    PROVE  AgentInv'
<1> USE AgentConstants DEF AgentConstants
<1>1. <<>> \in Mail /\ agentTask \in [Runtimes -> AgentTasks]
    BY EmptySeq, AgentTypes DEF Mail, AgentInv
<1>2. IdleTask \in AgentTasks /\ IdleTask.at = "none"
    BY <1>1 DEF IdleTask, AgentTasks
<1>3. agentTask' \in [Runtimes -> AgentTasks]
    BY <1>1, <1>2
<1>4. AgentTypeOK'
    BY <1>3, AgentCounts, AgentTyped DEF AgentInv
<1>5. /\ runLock = r /\ agent.owner = r
      /\ \A q \in Runtimes : agentTask'[q].at = "none"
    BY <1>1, <1>2 DEF AgentInv, RunsHoldRecord
<1>6. RunsHoldRecord' /\ EndRecorded' /\ RunsBetweenRounds'
    BY <1>5 DEF RunsHoldRecord, EndRecorded, RunsBetweenRounds, RunningAt
<1>7. OrphansExplained'
    BY <1>5 DEF OrphansExplained
<1>8. MailKept'
    BY <1>5 DEF AgentInv, MailKept
<1>9. CancelsChecked' /\ RecordOpened'
  <2>1. \A q \in checked' : agent'.owner = q => agent'.state \notin AgentEnded
      BY <1>5 DEF AgentInv, CancelsChecked
  <2> QED
      BY <1>4, <1>5, <2>1 DEF CancelsChecked, RecordOpened, AgentTypeOK
<1> QED
    BY <1>4, <1>6, <1>7, <1>8, <1>9 DEF AgentInv

LEMMA SettlesStep == ASSUME AgentInv, NEW r \in Runtimes, Settles(r) PROVE AgentInv'
<1> USE DEF AgentInv
<1>1. /\ agentTask[r].at \in {"unstarted", "done"} /\ agentTask[r].at # "none" /\ r \notin checked
      /\ agentTask' = [agentTask EXCEPT ![r] = IdleTask] /\ runLock' = NoRuntime
      /\ UNCHANGED <<runtime, agentOwned, checked, sent, acked>>
    BY DEF Settles, Release
<1>2. /\ agent \in AgentRecords /\ agent.owner = r /\ MayFinish(r) /\ agent.state # "none"
      /\ agentFailures \in 0 .. MaxAgentFailures /\ MaxAgentFailures \in Nat
    <2>1. agent.owner = r /\ agent.execution = agentTask[r].execution /\ runLock = r
        BY <1>1 DEF RunsHoldRecord
    <2>2. agent.state # "none"
        BY <2>1, AgentConstants DEF RecordOpened, AgentConstants
    <2> QED
        BY <2>1, <2>2, AgentTypes, AgentConstants DEF MayFinish, AgentTypeOK, AgentConstants
<1>3. CASE TransactionFails
  <2>1. agentFailures' \in 0 .. MaxAgentFailures /\ agentFailures' >= agentFailures /\ agentFailures' > 0 /\ agent' = agent
      BY <1>2, <1>3 DEF TransactionFails
  <2> HIDE DEF AgentInv
  <2> QED
      BY <1>1, <1>2, <2>1, AgentTypes, TaskGone DEF AgentTypeOK, AgentInv
<1>4. CASE agent' = Finished("cancelled") /\ Succeeds
  <2>1. /\ agent' \in AgentRecords /\ agent'.owner = r /\ agent'.execution = agent.execution
        /\ agent'.inflight = agent.inflight /\ agent'.pending = agent.pending /\ agent'.state = "cancelled"
      BY <1>2, <1>4, FinishingChanges DEF AgentEnded
  <2>2. agentFailures' \in 0 .. MaxAgentFailures /\ agentFailures' >= agentFailures
      BY <1>2, <1>4 DEF Succeeds
  <2> QED
      BY <1>1, <1>2, <2>1, <2>2, TaskGone DEF AgentTypeOK
<1>5. CASE /\ agent' = agent /\ Succeeds
           /\ ~(TaskAt(r, "unstarted") /\ agent.state = "in_progress" /\ MayFinish(r))
  <2>1. agent.state = "in_progress" => agentFailures > 0
      BY <1>1, <1>2, <1>5 DEF EndRecorded, TaskAt
  <2>2. agentFailures' \in 0 .. MaxAgentFailures /\ agentFailures' >= agentFailures
        /\ (agent.state = "in_progress" => agentFailures' > 0)
      BY <1>2, <1>5, <2>1 DEF Succeeds
  <2> QED
      BY <1>1, <1>2, <1>5, <2>2, TaskGone DEF AgentTypeOK
<1> QED
    BY <1>3, <1>4, <1>5 DEF Settles

LEMMA AgentCrashStep == ASSUME AgentInv, NEW r \in Runtimes, Crash(r) PROVE AgentInv'
<1> USE AgentConstants DEF AgentConstants
<1>1. /\ runtime' = [runtime EXCEPT ![r] = "dead"] /\ checked' = checked \ {r}
      /\ agentTask' = [agentTask EXCEPT ![r] = IdleTask]
      /\ runLock' = IF runLock = r THEN NoRuntime ELSE runLock
      /\ UNCHANGED <<agent, agentOwned, agentFailures, sent, acked>>
    BY DEF Crash
<1>2. /\ runtime' \in [Runtimes -> {"up", "closing", "closed", "dead"}] /\ runtime'[r] = "dead"
      /\ agentFailures \in Nat /\ agent \in AgentRecords
      /\ agentTask \in [Runtimes -> AgentTasks]
  <2>1. agent \in AgentRecords /\ agentTask \in [Runtimes -> AgentTasks]
      BY AgentTypes DEF AgentInv
  <2>2. /\ runtime \in [Runtimes -> {"up", "closing", "closed", "dead"}]
        /\ agentFailures \in 0 .. MaxAgentFailures
      BY AgentCounts DEF AgentInv
  <2> QED
      BY <1>1, <2>1, <2>2
<1>3. CASE agentTask[r].at # "none"
  <2>1. runLock = r /\ agent.owner = r /\ agent.state # "none"
    <3>1. runLock = r /\ agent.owner = r /\ agent.execution = agentTask[r].execution
        BY <1>3 DEF AgentInv, RunsHoldRecord
    <3>2. agent.state # "none"
        BY <3>1 DEF AgentInv, RecordOpened
    <3> QED
        BY <3>1, <3>2
  <2>2. agentFailures' \in 0 .. MaxAgentFailures /\ agentFailures' >= agentFailures
      BY <1>1 DEF AgentInv, AgentTypeOK
  <2> QED
      BY <1>1, <1>2, <1>3, <2>1, <2>2, TaskGone
<1>4. CASE agentTask[r].at = "none"
  <2>1. runLock' = runLock /\ \A q \in Runtimes : agentTask'[q].at = agentTask[q].at
      BY <1>1, <1>2, <1>4 DEF AgentInv, RunsHoldRecord, IdleTask
  <2>2. <<>> \in Mail
      BY EmptySeq DEF Mail
  <2>3. agentTask' \in [Runtimes -> AgentTasks]
      BY <1>1, <1>2, <2>2 DEF AgentTasks, IdleTask
  <2>4. AgentTypeOK'
    <3>1. /\ runLock' \in Runtimes \cup {NoRuntime} /\ checked' \subseteq Runtimes
          /\ agentOwned' \subseteq Runtimes /\ agentFailures' \in 0 .. MaxAgentFailures
          /\ sent' \in 0 .. MaxMessages /\ acked' \in Mail
        BY <1>1, <2>1, AgentCounts DEF AgentInv
    <3>2. agent' \in AgentRecords
        BY <1>1, <1>2
    <3> QED
        BY <1>2, <2>3, <3>1, <3>2, AgentTyped
  <2>5. \A q \in Runtimes : agentTask[q].at # "none" => agentTask'[q] = agentTask[q]
      BY <1>1, <1>2, <1>4
  <2>6. RunsHoldRecord' /\ MailKept' /\ EndRecorded' /\ RunsBetweenRounds'
    <3>1. RunsHoldRecord'
      <4>1. \A q \in Runtimes : runLock = q => agentTask[q].at # "none"
          BY DEF AgentInv, RunsHoldRecord
      <4> QED
          BY <1>1, <2>1, <2>5, <4>1 DEF AgentInv, RunsHoldRecord, RunningAt
    <3>2. MailKept'
        BY <1>1, <2>1, <2>5 DEF AgentInv, MailKept
    <3>3. EndRecorded' /\ RunsBetweenRounds'
        BY <1>1, <2>1, <2>5 DEF AgentInv, EndRecorded, RunsBetweenRounds
    <3> QED
        BY <3>1, <3>2, <3>3
  <2>7. OrphansExplained'
    <3>1. agent.state = "in_progress" /\ runtime[agent.owner] = "dead" => runtime'[agent.owner] = "dead"
        BY <1>1 DEF AgentInv, AgentTypeOK, RecordOpened
    <3> QED
        BY <1>1, <2>1, <3>1 DEF AgentInv, OrphansExplained
  <2>8. CancelsChecked' /\ RecordOpened'
    <3>1. \A q \in checked' : q \in checked /\ q \in Runtimes
        BY <1>1 DEF AgentInv, AgentTypeOK
    <3> QED
        BY <1>1, <2>1, <3>1 DEF AgentInv, CancelsChecked, RecordOpened
  <2> QED
      BY <2>4, <2>6, <2>7, <2>8 DEF AgentInv
<1> QED
    BY <1>3, <1>4

LEMMA RunStarts ==
    ASSUME AgentInv, NEW r \in Runtimes, Reserve(r), Run(r), Succeeds, agent.execution + 1 <= MaxExecutions
    PROVE  AgentInv'
<1> USE AgentConstants DEF AgentConstants
<1> DEFINE begun == [IdleTask EXCEPT !.at = "new", !.execution = agent.execution + 1]
<1>1. /\ runtime[r] = "up" /\ r \notin checked /\ agentTask[r].at = "none"
      /\ runLock = NoRuntime /\ runLock' = r
      /\ agentTask' = [agentTask EXCEPT ![r] = begun]
      /\ agent' = [agent EXCEPT !.state = "in_progress", !.owner = r, !.execution = @ + 1]
      /\ agentOwned' = agentOwned \cup {r}
      /\ UNCHANGED <<runtime, checked, sent, acked, agentFailures>>
    BY DEF Reserve, Run, TaskAt, Succeeds
<1>2. /\ agent \in AgentRecords /\ agentTask \in [Runtimes -> AgentTasks]
      /\ agent.execution \in 0 .. MaxExecutions /\ agent.execution + 1 \in 0 .. MaxExecutions
    BY AgentTypes DEF AgentInv
<1>3. /\ begun \in AgentTasks /\ begun.at = "new" /\ begun.rounds = 0
      /\ begun.execution = agent.execution + 1
  <2>1. <<>> \in Mail
      BY EmptySeq DEF Mail
  <2>2. "new" \in RunningAt /\ 0 \in 0 .. MaxAgentRounds
      BY DEF RunningAt
  <2>3. IdleTask \in AgentTasks /\ IdleTask.rounds = 0
      BY <1>2, <2>1, <2>2 DEF AgentTasks, IdleTask
  <2> QED
      BY <1>2, <2>2, <2>3 DEF AgentTasks
<1>4. /\ agent' \in AgentRecords /\ agent'.owner = r /\ agent'.execution = agent.execution + 1
      /\ agent'.state = "in_progress" /\ agent'.pending = agent.pending /\ agent'.inflight = agent.inflight
    BY <1>1, <1>2 DEF AgentRecords, AgentStates
<1> HIDE DEF begun
<1>5. /\ agentTask' \in [Runtimes -> AgentTasks] /\ agentTask'[r] = begun
      /\ \A q \in Runtimes \ {r} : agentTask'[q] = agentTask[q]
    BY <1>1, <1>2, <1>3
<1>6. \A q \in Runtimes : agentTask[q].at = "none"
    BY <1>1 DEF AgentInv, RunsHoldRecord
<1>7. AgentTypeOK'
  <2>1. /\ runLock' \in Runtimes \cup {NoRuntime} /\ checked' \subseteq Runtimes
        /\ runtime' \in [Runtimes -> {"up", "closing", "closed", "dead"}]
        /\ agentOwned' \subseteq Runtimes /\ agentFailures' \in 0 .. MaxAgentFailures
        /\ sent' \in 0 .. MaxMessages /\ acked' \in Mail
      BY <1>1, AgentCounts DEF AgentInv
  <2> QED
      BY <1>4, <1>5, <2>1, AgentTyped
<1>8. RunsHoldRecord'
  <2> SUFFICES ASSUME NEW q \in Runtimes
               PROVE  /\ runLock' = q <=> agentTask'[q].at # "none"
                      /\ runLock' = q => agent'.owner = q /\ agent'.execution = agentTask'[q].execution
                      /\ agentTask'[q].at \in RunningAt => agent'.state \in {"in_progress", "delayed"}
      BY DEF RunsHoldRecord
  <2>1. CASE q = r
      BY <1>1, <1>3, <1>4, <1>5, <2>1
  <2>2. CASE q # r
      BY <1>1, <1>5, <1>6, <2>2 DEF RunningAt
  <2> QED
      BY <2>1, <2>2
<1>9. OrphansExplained' /\ EndRecorded' /\ RunsBetweenRounds'
    BY <1>3, <1>5, <1>6 DEF OrphansExplained, EndRecorded, RunsBetweenRounds
<1>10. MailKept'
    BY <1>1, <1>3, <1>4, <1>5, <1>6 DEF AgentInv, MailKept
<1>11. CancelsChecked' /\ RecordOpened'
  <2>1. \A q \in checked : q \in Runtimes /\ q # r
      BY <1>1 DEF AgentInv, AgentTypeOK
  <2> QED
      BY <1>1, <1>4, <1>5, <2>1 DEF AgentInv, CancelsChecked, RecordOpened
<1> QED
    BY <1>7, <1>8, <1>9, <1>10, <1>11 DEF AgentInv

LEMMA LaunchStep == ASSUME AgentInv, NEW r \in Runtimes, Launch(r) PROVE AgentInv'
<1>1. agent.execution + 1 <= MaxExecutions
    BY AgentConstants DEF Launch, AgentInv, RecordOpened, AgentConstants
<1> QED
    BY <1>1, RunStarts DEF Launch

LEMMA ResumeStep == ASSUME AgentInv, NEW r \in Runtimes, Resume(r) PROVE AgentInv'
<1>1. agent.execution + 1 <= MaxExecutions
    BY AgentTypes, AgentConstants DEF Resume, AgentInv, AgentConstants
<1> QED
    BY <1>1, RunStarts DEF Resume

\* The record changes, and nothing else but the two sets and the failures: the
\* tasks and the mail stay.
LEMMA RecordMoves ==
    ASSUME AgentInv, UNCHANGED <<runLock, runtime, agentTask, sent, acked>>,
           agent' \in AgentRecords, agentOwned' \subseteq Runtimes, checked' \subseteq Runtimes,
           agentFailures' \in 0 .. MaxAgentFailures, agentFailures' >= agentFailures,
           agent'.pending = agent.pending, agent'.inflight = agent.inflight,
           \A r \in Runtimes : runLock = r => agent'.owner = agent.owner /\ agent'.execution = agent.execution,
           \A r \in Runtimes : agentTask[r].at \in RunningAt => agent'.state \in {"in_progress", "delayed"},
           agent'.state = "in_progress" =>
               agentFailures' > 0 \/ (agent'.state = agent.state /\ agent'.owner = agent.owner),
           \A r \in checked' : /\ agentTask[r].at \in {"none", "done"}
                               /\ agent'.owner = r => agent'.state \notin AgentEnded,
           agent'.state = "none" =>
               agent.state = "none" /\ checked' = {} /\ agent'.execution = agent.execution,
           agent'.state # "none" => agent'.owner \in Runtimes
    PROVE  AgentInv'
<1>1. AgentTypeOK'
    BY AgentTypes, AgentCounts, AgentTyped DEF AgentInv
<1>2. RunsHoldRecord'
    BY DEF AgentInv, RunsHoldRecord
<1>3. agentFailures \in Nat /\ agentFailures' \in Nat
    BY DEF AgentInv, AgentTypeOK
<1>4. agentFailures > 0 => agentFailures' > 0
    BY <1>3
<1>5. OrphansExplained' /\ EndRecorded'
    BY <1>4 DEF AgentInv, OrphansExplained, EndRecorded
<1>6. MailKept' /\ RunsBetweenRounds' /\ CancelsChecked' /\ RecordOpened'
    BY DEF AgentInv, MailKept, RunsBetweenRounds, CancelsChecked, RecordOpened
<1> QED
    BY <1>1, <1>2, <1>5, <1>6 DEF AgentInv

LEMMA LaunchAbortsStep == ASSUME AgentInv, NEW r \in Runtimes, LaunchAborts(r) PROVE AgentInv'
<1> USE AgentConstants DEF AgentConstants
<1>1. /\ agent.state = "none" /\ runLock = NoRuntime /\ checked = {} /\ agentOwned' = agentOwned \cup {r}
      /\ UNCHANGED <<runLock, runtime, agentTask, checked, sent, acked>>
    BY DEF LaunchAborts, AgentInv, RecordOpened
<1>2. agent \in AgentRecords /\ agentFailures \in 0 .. MaxAgentFailures
      /\ agentOwned' \subseteq Runtimes /\ checked' \subseteq Runtimes
    BY <1>1, AgentTypes DEF AgentInv, AgentTypeOK
<1>3. \A q \in Runtimes : runLock # q /\ agentTask[q].at \notin RunningAt
    BY <1>1 DEF AgentInv, RunsHoldRecord, RunningAt
<1>4. PICK marked \in BOOLEAN :
        /\ agent' = [agent EXCEPT !.state = IF marked THEN "failed" ELSE "in_progress",
                                  !.owner = r, !.execution = 1]
        /\ IF marked THEN Succeeds
           ELSE agentFailures < MaxAgentFailures /\ agentFailures' = agentFailures + 1
    BY DEF LaunchAborts
<1>5. /\ agent' \in AgentRecords /\ agent'.owner = r /\ agent'.state # "none"
      /\ agent'.pending = agent.pending /\ agent'.inflight = agent.inflight
  <2> DEFINE state == IF marked THEN "failed" ELSE "in_progress"
  <2>1. state \in AgentStates /\ state # "none" /\ 1 \in 0 .. MaxExecutions
      BY DEF AgentStates, AgentEnded
  <2>2. agent' = [agent EXCEPT !.state = state, !.owner = r, !.execution = 1]
      BY <1>4
  <2> HIDE DEF state
  <2> QED
      BY <1>2, <2>1, <2>2 DEF AgentRecords
<1>6. /\ agentFailures' \in 0 .. MaxAgentFailures /\ agentFailures' >= agentFailures
      /\ agent'.state = "in_progress" => agentFailures' > 0
  <2>1. CASE marked
    <3>1. agent'.state = "failed" /\ Succeeds
        BY <1>2, <1>4, <2>1 DEF AgentRecords
    <3> QED
        BY <1>2, <3>1 DEF Succeeds
  <2>2. CASE ~marked
      BY <1>2, <1>4, <2>2
  <2> QED
      BY <2>1, <2>2
<1> QED
  <2>1. /\ \A q \in checked' : /\ agentTask[q].at \in {"none", "done"}
                               /\ agent'.owner = q => agent'.state \notin AgentEnded
        /\ \A q \in Runtimes : runLock = q => agent'.owner = agent.owner /\ agent'.execution = agent.execution
        /\ \A q \in Runtimes : agentTask[q].at \in RunningAt => agent'.state \in {"in_progress", "delayed"}
      BY <1>1, <1>3
  <2>2. UNCHANGED <<runLock, runtime, agentTask, sent, acked>>
      BY <1>1
  <2>3. agent'.state # "none" /\ agent'.owner \in Runtimes
      BY <1>5
  <2> QED
      BY <1>2, <1>5, <1>6, <2>1, <2>2, <2>3, RecordMoves

LEMMA CancelChecksStep == ASSUME AgentInv, NEW r \in Runtimes, CancelChecks(r) PROVE AgentInv'
<1>1. /\ agentTask[r].at \in {"none", "done"} /\ agent.state \notin AgentEnded \cup {"none"}
      /\ checked' = checked \cup {r}
      /\ UNCHANGED <<agent, runLock, runtime, agentTask, agentOwned, agentFailures, sent, acked>>
    BY DEF CancelChecks
<1>2. AgentTypeOK' /\ RunsHoldRecord' /\ OrphansExplained' /\ MailKept' /\ EndRecorded' /\ RunsBetweenRounds'
    BY <1>1 DEF AgentInv, AgentTypeOK, RunsHoldRecord, OrphansExplained, MailKept, EndRecorded, RunsBetweenRounds
<1>3. CancelsChecked' /\ RecordOpened'
    BY <1>1 DEF AgentInv, CancelsChecked, RecordOpened
<1> QED
    BY <1>2, <1>3 DEF AgentInv

LEMMA CancelRecordsStep == ASSUME AgentInv, NEW r \in Runtimes, CancelRecords(r) PROVE AgentInv'
<1>1. /\ r \in checked /\ checked' = checked \ {r}
      /\ agent' = IF CancelOwned(r) THEN Finished("cancelled") ELSE agent
      /\ UNCHANGED <<runLock, runtime, agentTask, agentOwned, agentFailures, sent, acked>>
    BY DEF CancelRecords
<1>2. /\ agent \in AgentRecords /\ agentFailures \in 0 .. MaxAgentFailures /\ agentOwned' \subseteq Runtimes
      /\ checked' \subseteq Runtimes /\ agentFailures' >= agentFailures
      /\ agentFailures' \in 0 .. MaxAgentFailures
  <2>1. agent \in AgentRecords
      BY AgentTypes DEF AgentInv
  <2> QED
      BY <1>1, <2>1, AgentCounts DEF AgentInv
<1>3. agent.state # "none" /\ agent.owner \in Runtimes
    BY <1>1 DEF AgentInv, RecordOpened
<1>4. CASE agent.owner # r
  <2>1. agent' = agent
      BY <1>1, <1>4 DEF CancelOwned
  <2> QED
      BY <1>1, <1>2, <1>3, <2>1, RecordMoves DEF AgentInv, RunsHoldRecord, CancelsChecked
<1>5. CASE agent.owner = r
  <2>1. /\ agent' \in AgentRecords /\ agent'.owner = r /\ agent'.execution = agent.execution
        /\ agent'.pending = agent.pending /\ agent'.inflight = agent.inflight /\ agent'.state = "cancelled"
      BY <1>1, <1>2, <1>5, FinishingChanges DEF CancelOwned, AgentEnded
  <2>2. \A q \in Runtimes : agentTask[q].at \notin RunningAt
      BY <1>1, <1>5 DEF AgentInv, RunsHoldRecord, CancelsChecked, RunningAt
  <2>3. \A q \in checked' : agentTask[q].at \in {"none", "done"} /\ agent'.owner # q
      BY <1>1, <2>1 DEF AgentInv, CancelsChecked
  <2> QED
      BY <1>1, <1>2, <1>3, <1>5, <2>1, <2>2, <2>3, RecordMoves
<1> QED
    BY <1>4, <1>5

LEMMA MarkDelayedStep == ASSUME AgentInv, NEW r \in Runtimes, MarkDelayed(r) PROVE AgentInv'
<1>1. /\ agent' = [agent EXCEPT !.state = "delayed"] /\ agent.state # "none" /\ agent.owner = r
      /\ UNCHANGED <<runLock, runtime, agentTask, agentOwned, checked, agentFailures, sent, acked>>
    BY DEF MarkDelayed
<1>2. /\ agent \in AgentRecords /\ agentFailures \in 0 .. MaxAgentFailures /\ agentOwned' \subseteq Runtimes
      /\ checked' \subseteq Runtimes /\ agentFailures' >= agentFailures
      /\ agentFailures' \in 0 .. MaxAgentFailures
  <2>1. agent \in AgentRecords
      BY AgentTypes DEF AgentInv
  <2> QED
      BY <1>1, <2>1, AgentCounts DEF AgentInv
<1>3. /\ agent' \in AgentRecords /\ agent'.owner = r /\ agent'.execution = agent.execution
      /\ agent'.pending = agent.pending /\ agent'.inflight = agent.inflight /\ agent'.state = "delayed"
    BY <1>1, <1>2 DEF AgentRecords, AgentStates
<1>4. \A q \in checked' : agentTask[q].at \in {"none", "done"}
    BY <1>1 DEF AgentInv, CancelsChecked
<1> QED
    BY <1>1, <1>2, <1>3, <1>4, RecordMoves DEF AgentEnded

\* What a process does to itself, and steps that change nothing.
LEMMA ClosingSteps ==
    ASSUME AgentInv, UNCHANGED <<agent, runLock, agentTask, agentOwned, checked, agentFailures, sent, acked>>,
           \/ \E r \in Runtimes : ServiceCloseBegins(r) \/ ServiceCloseEnds(r)
           \/ runtime' = runtime
    PROVE  AgentInv'
<1>1. /\ runtime' \in [Runtimes -> {"up", "closing", "closed", "dead"}]
      /\ \A q \in Runtimes : runtime[q] = "dead" => runtime'[q] = "dead"
    BY DEF AgentInv, AgentTypeOK, ServiceCloseBegins, ServiceCloseEnds
<1>2. AgentTypeOK' /\ RunsHoldRecord' /\ MailKept' /\ EndRecorded' /\ RunsBetweenRounds'
    BY <1>1 DEF AgentInv, AgentTypeOK, RunsHoldRecord, MailKept, EndRecorded, RunsBetweenRounds
<1>3. OrphansExplained'
    BY <1>1 DEF AgentInv, OrphansExplained, RecordOpened
<1>4. CancelsChecked' /\ RecordOpened'
    BY DEF AgentInv, CancelsChecked, RecordOpened
<1> QED
    BY <1>2, <1>3, <1>4 DEF AgentInv

\* The next message is one more of the messages sent.
LEMMA NextMessage ==
    ASSUME NEW seq \in Mail, NEW n \in Nat, n + 1 <= MaxMessages, seq = [i \in 1 .. n |-> i]
    PROVE  Append(seq, n + 1) = [i \in 1 .. n + 1 |-> i]
<1> USE AgentConstants DEF AgentConstants
<1>1. n + 1 \in AgentMessages
    BY DEF AgentMessages
<1>2. Len(seq) \in Nat /\ DOMAIN seq = 1 .. Len(seq) /\ DOMAIN seq = 1 .. n
    BY LenProperties DEF Mail
<1>3. Len(seq) = n
    BY <1>2
<1>4. /\ Append(seq, n + 1) \in Mail /\ Len(Append(seq, n + 1)) = n + 1
      /\ \A i \in 1 .. n : Append(seq, n + 1)[i] = seq[i]
      /\ Append(seq, n + 1)[n + 1] = n + 1
    BY <1>1, <1>3, AppendProperties DEF Mail
<1> DEFINE longer == Append(seq, n + 1)
<1> HIDE DEF longer
<1>5. longer \in [1 .. n + 1 -> AgentMessages]
    BY <1>4, LenProperties DEF Mail, longer
<1>6. \A i \in 1 .. n + 1 : longer[i] = i
  <2> TAKE i \in 1 .. n + 1
  <2>1. i \in 1 .. n \/ i = n + 1
      OBVIOUS
  <2> QED
      BY <1>4, <2>1 DEF longer
<1>7. longer = [i \in 1 .. n + 1 |-> i]
    BY <1>5, <1>6
<1> QED
    BY <1>7 DEF longer

LEMMA SendStep == ASSUME AgentInv, NEW r \in Runtimes, Send(r) PROVE AgentInv'
<1> USE AgentConstants DEF AgentConstants
<1>1. /\ sent < MaxMessages /\ sent' = sent + 1 /\ agent.owner = r
      /\ agent' = [agent EXCEPT !.pending = Append(@, sent + 1)]
      /\ UNCHANGED <<runLock, runtime, agentTask, agentOwned, checked, agentFailures, acked>>
    BY DEF Send
<1>2. agent \in AgentRecords /\ sent \in 0 .. MaxMessages
    BY AgentTypes, AgentCounts DEF AgentInv
<1>3. sent + 1 \in AgentMessages /\ sent' \in 0 .. MaxMessages /\ sent \in Nat /\ sent + 1 <= MaxMessages
    BY <1>1, <1>2 DEF AgentMessages
<1>4. Append(agent.pending, sent + 1) \in Mail
    BY <1>2, <1>3, AppendProperties DEF Mail, AgentRecords
<1>5. /\ agent' \in AgentRecords /\ agent'.owner = agent.owner /\ agent'.execution = agent.execution
      /\ agent'.state = agent.state /\ agent'.inflight = agent.inflight
      /\ agent'.pending = Append(agent.pending, sent + 1)
    BY <1>1, <1>2, <1>4 DEF AgentRecords
<1>6. AgentTypeOK'
    BY <1>1, <1>3, <1>5, AgentTypes, AgentCounts, AgentTyped DEF AgentInv
<1>7. /\ RunsHoldRecord' /\ OrphansExplained' /\ EndRecorded' /\ RunsBetweenRounds'
      /\ CancelsChecked' /\ RecordOpened'
    BY <1>1, <1>5 DEF AgentInv, RunsHoldRecord, OrphansExplained, EndRecorded, RunsBetweenRounds,
                      CancelsChecked, RecordOpened
<1>8. acked' \o agent'.inflight \o agent'.pending = [i \in 1 .. sent' |-> i]
  <2> DEFINE taken == acked \o agent.inflight
             all == taken \o agent.pending
  <2>1. acked \in Mail /\ agent.inflight \in Mail /\ agent.pending \in Mail
      BY AgentTypes DEF AgentInv
  <2>2. taken \in Mail
      BY <2>1, ConcatProperties DEF Mail
  <2> HIDE DEF taken
  <2>3. all \in Mail
      BY <2>1, <2>2, ConcatProperties DEF Mail
  <2>4. <<sent + 1>> \in Mail
    <3>1. Append(<<>>, sent + 1) = <<>> \o <<sent + 1>> /\ <<>> \in Mail /\ Append(<<>>, sent + 1) \in Mail
        BY <1>3, EmptySeq, AppendIsConcat, AppendProperties DEF Mail
    <3> QED
        BY <1>3 DEF Mail
  <2>5. Append(agent.pending, sent + 1) = agent.pending \o <<sent + 1>>
        /\ Append(all, sent + 1) = all \o <<sent + 1>>
    <3> HIDE DEF all
    <3> QED
        BY <1>3, <2>1, <2>3, AppendIsConcat DEF Mail
  <2>6. all \o <<sent + 1>> = taken \o (agent.pending \o <<sent + 1>>)
    <3>1. \A x, y, z \in Mail : (x \o y) \o z = x \o (y \o z)
        BY ConcatAssociative DEF Mail
    <3>2. agent.pending \in Mail
        BY <2>1
    <3>3. (taken \o agent.pending) \o <<sent + 1>> = taken \o (agent.pending \o <<sent + 1>>)
        BY <2>2, <2>4, <3>1, <3>2, Zenon
    <3> QED
        BY <3>3
  <2>7. all = [i \in 1 .. sent |-> i]
      BY DEF AgentInv, MailKept, taken
  <2> HIDE DEF all
  <2>8. Append(all, sent + 1) = [i \in 1 .. sent + 1 |-> i]
      BY <1>3, <2>3, <2>7, NextMessage
  <2> QED
      BY <1>1, <1>5, <2>5, <2>6, <2>8 DEF taken
<1>9. MailKept'
    BY <1>1, <1>5, <1>8 DEF AgentInv, MailKept
<1> QED
    BY <1>6, <1>7, <1>9 DEF AgentInv

LEMMA AgentStep == AgentInv /\ [AgentNext]_agentVars => AgentInv'
<1> SUFFICES ASSUME AgentInv, [AgentNext]_agentVars PROVE AgentInv'
    OBVIOUS
<1>1. CASE UNCHANGED agentVars
    BY <1>1, ClosingSteps DEF agentVars
<1>2. ASSUME NEW r \in Runtimes, TaskStep(r) \/ QueuedStep(r) PROVE AgentInv'
    BY <1>2, ClaimStep, RoundEndsStep, AcknowledgeStep, RunEndingStep, CancelRunningStep, SettlesStep,
        ClosingSteps
    DEF TaskStep, QueuedStep, ServiceCloseCancels, ServiceCloseEnds
<1>3. ASSUME NEW r \in Runtimes,
             Launch(r) \/ LaunchAborts(r) \/ Resume(r) \/ Send(r) \/ CancelRunning(r) \/ CancelChecks(r)
             \/ CancelRecords(r) \/ MarkDelayed(r) \/ ServiceCloseBegins(r) \/ Crash(r)
      PROVE  AgentInv'
    BY <1>3, LaunchStep, LaunchAbortsStep, ResumeStep, SendStep, CancelRunningStep, CancelChecksStep,
        CancelRecordsStep, MarkDelayedStep, AgentCrashStep, ClosingSteps
    DEF ServiceCloseBegins
<1> QED
    BY <1>1, <1>2, <1>3 DEF AgentNext

\* A step that records the end of a run does it for a run in progress, and none
\* other touches a record that is over.
LEMMA OutcomesStep == AgentInv /\ [AgentNext]_agentVars => [CompletesEmpty /\ OutcomeStands]_agentVars
<1> SUFFICES ASSUME AgentInv, AgentNext PROVE CompletesEmpty /\ OutcomeStands
    OBVIOUS
<1> DEFINE Fine == CompletesEmpty /\ OutcomeStands
<1>1. agent \in AgentRecords
    BY AgentTypes DEF AgentInv
<1>2. ASSUME agent'.state = agent.state \/ agent'.state = "delayed" PROVE Fine
    BY <1>2 DEF CompletesEmpty, OutcomeStands, AgentEnded
<1>3. ASSUME agent.state \notin AgentEnded, agent'.state # "completed" PROVE Fine
    BY <1>3 DEF CompletesEmpty, OutcomeStands
<1>4. ASSUME agent' = agent PROVE Fine
    BY <1>2, <1>4
<1>5. ASSUME NEW r \in Runtimes, Records(r, "finish", "completed", "failing") PROVE Fine
  <2>1. CASE agent' = Finished("completed")
    <3>1. agentTask[r].at = "finish" /\ agent.state \notin AgentEnded /\ agent.inflight = <<>>
        BY <1>5, RunFacts DEF Records, TaskAt, AgentInv, RunsBetweenRounds, RunningAt, AgentEnded
    <3>2. /\ agent'.pending = agent.pending /\ agent'.inflight = agent.inflight
          /\ agent'.state = "completed" => agent.pending = <<>>
        BY <1>1, <2>1, FinishingChanges DEF AgentEnded
    <3> QED
        BY <3>1, <3>2 DEF CompletesEmpty, OutcomeStands
  <2>2. CASE agent' = agent
      BY <1>4, <2>2
  <2> QED
      BY <1>5, <2>1, <2>2 DEF Records, TransactionFails
<1>6. ASSUME NEW r \in Runtimes, NEW at \in {"failing", "cancelling"}, NEW state \in {"failed", "cancelled"},
             Records(r, at, state, "done")
      PROVE  Fine
  <2>1. CASE agent' = Finished(state)
    <3>1. agent.state \notin AgentEnded
        BY <1>6, RunFacts DEF Records, TaskAt, RunningAt, AgentEnded
    <3>2. agent'.state # "completed"
        BY <1>1, <2>1, FinishingChanges DEF AgentEnded
    <3> QED
        BY <1>3, <3>1, <3>2
  <2>2. CASE agent' = agent
      BY <1>4, <2>2
  <2> QED
      BY <1>6, <2>1, <2>2 DEF Records, TransactionFails
<1>7. ASSUME NEW r \in Runtimes, Settles(r) PROVE Fine
  <2>1. CASE agent' = Finished("cancelled") /\ agent.state = "in_progress"
      BY <1>1, <1>3, <2>1, FinishingChanges DEF AgentEnded
  <2>2. CASE agent' = agent
      BY <1>4, <2>2
  <2> QED
      BY <1>7, <2>1, <2>2 DEF Settles, TransactionFails
<1>8. ASSUME NEW r \in Runtimes, CancelRecords(r) PROVE Fine
  <2>1. CASE agent.owner = r /\ agent' = Finished("cancelled")
    <3>1. agent.state \notin AgentEnded
        BY <1>8, <2>1 DEF CancelRecords, AgentInv, CancelsChecked
    <3> QED
        BY <1>1, <1>3, <2>1, <3>1, FinishingChanges DEF AgentEnded
  <2>2. CASE agent' = agent
      BY <1>4, <2>2
  <2> QED
      BY <1>8, <2>1, <2>2 DEF CancelRecords, CancelOwned
<1>9. ASSUME NEW r \in Runtimes, Launch(r) \/ Resume(r) PROVE Fine
  <2>1. agent'.state = "in_progress" /\ agent'.execution = agent.execution + 1
      BY <1>1, <1>9 DEF Launch, Resume, Run, AgentRecords
  <2>2. agent.execution + 1 # agent.execution
      BY <1>1, AgentConstants DEF AgentRecords, AgentConstants
  <2> QED
      BY <2>1, <2>2 DEF CompletesEmpty, OutcomeStands
<1>10. ASSUME NEW r \in Runtimes, LaunchAborts(r) PROVE Fine
  <2>1. agent.state = "none" /\ agent'.state \in {"failed", "in_progress"}
    <3>1. PICK marked \in BOOLEAN :
            agent' = [agent EXCEPT !.state = IF marked THEN "failed" ELSE "in_progress",
                                   !.owner = r, !.execution = 1]
        BY <1>10 DEF LaunchAborts
    <3> QED
        BY <1>1, <1>10, <3>1 DEF LaunchAborts, AgentRecords
  <2> QED
      BY <1>3, <2>1 DEF AgentEnded
<1>11. ASSUME NEW r \in Runtimes, Send(r) \/ Claim(r) \/ Acknowledge(r) \/ MarkDelayed(r) PROVE Fine
  <2>1. agent'.state = agent.state \/ agent'.state = "delayed"
      BY <1>1, <1>11 DEF Send, Claim, Acknowledge, MarkDelayed, AgentRecords, TransactionFails
  <2> QED
      BY <1>2, <2>1
<1>12. ASSUME NEW r \in Runtimes,
              RoundEnds(r) \/ CancelRunning(r) \/ CancelChecks(r) \/ ServiceCloseBegins(r)
              \/ ServiceCloseEnds(r) \/ Crash(r)
       PROVE  Fine
    BY <1>4, <1>12 DEF RoundEnds, CancelRunning, CancelChecks, ServiceCloseBegins, ServiceCloseEnds, Crash
<1> HIDE DEF Fine
<1>13. Fine
    BY <1>5, <1>6, <1>7, <1>8, <1>9, <1>10, <1>11, <1>12
    DEF AgentNext, TaskStep, QueuedStep, RunEnding, ServiceCloseCancels
<1> QED
    BY <1>13 DEF Fine

\* Whatever the processes that share an agent's record do, and wherever one of
\* them dies: a run holds the lock, the record and its execution until it ends;
\* a record in progress that nobody runs was left by a crash or by a record that
\* could not be written; every message is acknowledged, in flight or pending,
\* once and in order; a run completes only with an empty mailbox; and how an
\* execution ended stands (harness/agents/service.py).
THEOREM AgentsStaySound == AgentSpec => AgentsAreSound
<1>1. AgentInv => RunsHoldRecord /\ OrphansExplained /\ MailKept
    BY DEF AgentInv
<1>2. AgentSpec => []AgentInv
    BY AgentStart, AgentStep, PTL DEF AgentSpec
<1>3. AgentSpec => []AgentInv /\ [][AgentNext]_agentVars
    BY <1>2, PTL DEF AgentSpec
<1> QED
    BY <1>1, <1>3, OutcomesStep, PTL DEF AgentsAreSound

-----------------------------------------------------------------------------
(* Approvals.                                                              *)

InLine == {"waiting", "shown", "answered"}
CallType ==
    [at : InLine \cup {"new", "judged", "reading", "runs"}, by : Terminals \cup {"none"},
     cmd : Commands \cup {"none"}, asked : BOOLEAN, current : BOOLEAN, said : Replies \cup {"none"}]

\* A call that is judged belongs to a running session, and no deny rule of its
\* project's settings matches it.
CallsJudged ==
    /\ call \in [AskedCalls -> CallType]
    /\ \A i \in AskedCalls : call[i].at = "new" => call[i].asked = FALSE
    /\ \A i \in AskedCalls : call[i].at # "new" =>
        /\ call[i].by \in live /\ call[i].cmd \in Commands
        /\ ~Denied(Settings[call[i].by], call[i].cmd)

\* The line of a session has its calls that wait for the prompt, each once; all
\* but the first wait, and what is on display was put to the prompt that is open.
LineKept ==
    /\ line \in [Terminals -> Seq(AskedCalls)] /\ mounted \in [Terminals -> BOOLEAN]
    /\ \A s \in Terminals : \A k \in 1 .. Len(line[s]) :
        /\ call[line[s][k]].by = s /\ call[line[s][k]].at \in InLine
        /\ k # 1 => call[line[s][k]].at = "waiting"
        /\ \A j \in 1 .. Len(line[s]) : line[s][j] = line[s][k] => j = k
    /\ \A i \in AskedCalls : call[i].at \in InLine =>
        /\ call[i].by \in Terminals
        /\ \E k \in 1 .. Len(line[call[i].by]) : line[call[i].by][k] = i
    /\ \A i \in AskedCalls : call[i].at = "shown" => mounted[call[i].by] /\ call[i].current

\* Where a rule that lets a word pass comes from.
UserAllows(w) == \E c \in granted, v \in Words : c.parts = {v} /\ w \in Family[v]
SettingsAllow(w) == \E s \in Terminals : \E r \in Settings[s] : r.behavior = "allow" /\ w \in r.covers
Justified(known) ==
    \A r \in known : r.behavior = "allow" => \A w \in r.covers : UserAllows(w) \/ SettingsAllow(w)

\* A session knows the rules of its settings, and no session a rule that nobody
\* made; while sessions are apart, it knows the rules that are stored, and what
\* the user allowed for good is among them.
RulesKnown ==
    /\ live \subseteq Terminals /\ rules \in [Terminals -> SUBSET RuleType] /\ stored \in SUBSET RuleType
    /\ granted \in SUBSET Commands /\ apart \in BOOLEAN
    /\ \A s \in live : Settings[s] \subseteq rules[s]
    /\ Justified(stored) /\ \A s \in Terminals : Justified(rules[s])
    /\ apart =>
        /\ \A s, t \in live : s = t
        /\ \A s \in live : stored \subseteq rules[s]
        /\ \A w \in Words : UserAllows(w) => \E r \in stored : r.behavior = "allow" /\ w \in r.covers

ApprovalInv == CallsJudged /\ LineKept /\ RulesKnown

LEMMA FreshCall ==
    /\ NotAsked \in CallType /\ NotAsked.at = "new" /\ NotAsked.at \notin InLine
    /\ NotAsked.at # "shown" /\ NotAsked.asked = FALSE
    BY DEF NotAsked, CallType, InLine

LEMMA ApprovalStart == ApprovalInit => ApprovalInv
<1> SUFFICES ASSUME ApprovalInit PROVE ApprovalInv
    OBVIOUS
<1> USE DEF ApprovalInit
<1>1. CallsJudged
    BY FreshCall DEF CallsJudged
<1>2. LineKept
  <2>1. <<>> \in Seq(AskedCalls) /\ Len(<<>>) = 0
      BY EmptySeq
  <2>2. line \in [Terminals -> Seq(AskedCalls)] /\ mounted \in [Terminals -> BOOLEAN]
      BY <2>1
  <2>3. \A s \in Terminals : Len(line[s]) = 0
      BY <2>1
  <2> QED
      BY <2>2, <2>3, FreshCall DEF LineKept
<1>3. RulesKnown
    BY DEF RulesKnown, Justified, UserAllows
<1> QED
    BY <1>1, <1>2, <1>3 DEF ApprovalInv

\* Deny rules of its settings stop a call for good: a session that judges a
\* command knows them.
LEMMA NotDenied ==
    ASSUME RulesKnown, NEW s \in live, NEW c \in Commands, Verdict(s, c) # "deny"
    PROVE  ~Denied(Settings[s], c)
<1>1. ~Denied(rules[s], c)
    BY DEF Verdict
<1> QED
    BY <1>1 DEF Denied, RulesKnown

\* Calls and lines change; sessions and rules do not.
LEMMA RulesStay ==
    ASSUME ApprovalInv, UNCHANGED <<live, rules, stored, granted, apart>>
    PROVE  RulesKnown'
<1>1. Justified(stored)' /\ \A s \in Terminals : Justified(rules[s])'
    BY DEF ApprovalInv, RulesKnown, Justified, UserAllows, SettingsAllow
<1> QED
    BY <1>1 DEF ApprovalInv, RulesKnown, UserAllows

LEMMA CallsStay ==
    ASSUME ApprovalInv, UNCHANGED <<live, mounted, line, call>>
    PROVE  CallsJudged' /\ LineKept'
<1>1. live' = live /\ mounted' = mounted /\ line' = line /\ call' = call
    OBVIOUS
<1>2. CallsJudged'
    BY <1>1 DEF ApprovalInv, CallsJudged
<1>3. line' \in [Terminals -> Seq(AskedCalls)] /\ mounted' \in [Terminals -> BOOLEAN]
    BY <1>1 DEF ApprovalInv, LineKept
<1>4. \A s \in Terminals : \A k \in 1 .. Len(line'[s]) :
          /\ call'[line'[s][k]].by = s /\ call'[line'[s][k]].at \in InLine
          /\ k # 1 => call'[line'[s][k]].at = "waiting"
          /\ \A j \in 1 .. Len(line'[s]) : line'[s][j] = line'[s][k] => j = k
    BY <1>1 DEF ApprovalInv, LineKept
<1>5. \A i \in AskedCalls : call'[i].at \in InLine =>
          /\ call'[i].by \in Terminals
          /\ \E k \in 1 .. Len(line'[call'[i].by]) : line'[call'[i].by][k] = i
    BY <1>1 DEF ApprovalInv, LineKept
<1>6. \A i \in AskedCalls : call'[i].at = "shown" => mounted'[call'[i].by] /\ call'[i].current
    BY <1>1 DEF ApprovalInv, LineKept
<1> QED
    BY <1>2, <1>3, <1>4, <1>5, <1>6, Zenon DEF LineKept

\* A call that a verdict has placed is no longer new.
LEMMA JudgedPlaced ==
    ASSUME NEW r \in CallType, NEW at \in {"judged", "runs"}
    PROVE  /\ [r EXCEPT !.at = at] \in CallType /\ [r EXCEPT !.at = at].at # "new"
           /\ [r EXCEPT !.at = at].at = at /\ [r EXCEPT !.at = at].by = r.by
           /\ [r EXCEPT !.at = at].cmd = r.cmd
  BY DEF CallType

\* The lines stay, and so does who is in them; only the first of a line moves.
LEMMA LinesStay ==
    ASSUME LineKept, line' = line, mounted' \in [Terminals -> BOOLEAN], call' \in [AskedCalls -> CallType],
           \A i \in AskedCalls : call'[i].at \in InLine <=> call[i].at \in InLine,
           \A i \in AskedCalls : call'[i].at \in InLine => call'[i].by = call[i].by,
           \A i \in AskedCalls : call[i].at = "waiting" /\ call'[i].at # "waiting" =>
               line[call[i].by][1] = i,
           \A i \in AskedCalls : call'[i].at = "waiting" => call[i].at = "waiting",
           \A i \in AskedCalls : call'[i].at = "shown" => mounted'[call'[i].by] /\ call'[i].current
    PROVE  LineKept'
<1>1. line' \in [Terminals -> Seq(AskedCalls)] /\ mounted' \in [Terminals -> BOOLEAN]
    BY DEF LineKept
<1>2. ASSUME NEW s \in Terminals, NEW k \in 1 .. Len(line[s])
      PROVE  /\ call'[line[s][k]].by = s /\ call'[line[s][k]].at \in InLine
             /\ k # 1 => call'[line[s][k]].at = "waiting"
             /\ \A j \in 1 .. Len(line[s]) : line[s][j] = line[s][k] => j = k
  <2> DEFINE i == line[s][k]
  <2>1. i \in AskedCalls /\ Len(line[s]) \in Nat
      BY ElementOfSeq, LenProperties DEF LineKept
  <2>2. call[i].by = s /\ call[i].at \in InLine /\ (k # 1 => call[i].at = "waiting")
        /\ \A j \in 1 .. Len(line[s]) : line[s][j] = i => j = k
      BY DEF LineKept
  <2>3. 1 \in 1 .. Len(line[s])
      BY <2>1
  <2> HIDE DEF i
  <2>4. call'[i].by = s /\ call'[i].at \in InLine
      BY <2>1, <2>2
  <2>5. k # 1 => call'[i].at = "waiting"
      BY <2>1, <2>2, <2>3
  <2> QED
      BY <2>2, <2>4, <2>5 DEF i
<1>3. \A i \in AskedCalls : call'[i].at \in InLine =>
          /\ call'[i].by \in Terminals
          /\ \E k \in 1 .. Len(line[call'[i].by]) : line[call'[i].by][k] = i
    BY DEF LineKept
<1> QED
    BY <1>1, <1>2, <1>3 DEF LineKept

\* One more call in the line of a session, at its end.
LEMMA LineGrows ==
    ASSUME LineKept, NEW s \in Terminals, NEW i \in AskedCalls, call[i].at \notin InLine,
           line' = [line EXCEPT ![s] = Append(@, i)], call' \in [AskedCalls -> CallType],
           \A q \in AskedCalls \ {i} : call'[q] = call[q],
           call'[i].by = s, call'[i].at = IF line[s] = <<>> THEN "shown" ELSE "waiting",
           mounted' = mounted, mounted[s], call'[i].current
    PROVE  LineKept'
<1> DEFINE grown == Append(line[s], i)
<1>1. line \in [Terminals -> Seq(AskedCalls)] /\ line[s] \in Seq(AskedCalls) /\ Len(line[s]) \in Nat
    BY LenProperties DEF LineKept
<1>2. /\ grown \in Seq(AskedCalls) /\ Len(grown) = Len(line[s]) + 1
      /\ \A k \in 1 .. Len(line[s]) : grown[k] = line[s][k]
      /\ grown[Len(line[s]) + 1] = i
    BY <1>1, AppendProperties
<1> HIDE DEF grown
<1>3. /\ line' \in [Terminals -> Seq(AskedCalls)] /\ line'[s] = grown
      /\ \A t \in Terminals \ {s} : line'[t] = line[t]
    BY <1>1, <1>2 DEF grown
<1>4. \A t \in Terminals : \A k \in 1 .. Len(line[t]) : line[t][k] \in AskedCalls /\ line[t][k] # i
    BY ElementOfSeq DEF LineKept
<1>5. ASSUME NEW t \in Terminals, NEW k \in 1 .. Len(line'[t])
      PROVE  /\ call'[line'[t][k]].by = t /\ call'[line'[t][k]].at \in InLine
             /\ k # 1 => call'[line'[t][k]].at = "waiting"
             /\ \A j \in 1 .. Len(line'[t]) : line'[t][j] = line'[t][k] => j = k
  <2>1. CASE t # s
    <3>1. line'[t] = line[t] /\ k \in 1 .. Len(line[t])
        BY <1>3, <1>5, <2>1
    <3>2. line[t][k] \in AskedCalls /\ line[t][k] # i
        BY <1>4, <3>1
    <3>3. /\ call[line[t][k]].by = t /\ call[line[t][k]].at \in InLine
          /\ k # 1 => call[line[t][k]].at = "waiting"
          /\ \A j \in 1 .. Len(line[t]) : line[t][j] = line[t][k] => j = k
        BY <3>1 DEF LineKept
    <3> QED
        BY <3>1, <3>2, <3>3
  <2>2. CASE t = s /\ k \in 1 .. Len(line[s])
    <3>1. call'[grown[k]].by = s /\ call'[grown[k]].at \in InLine /\ (k # 1 => call'[grown[k]].at = "waiting")
        BY <1>2, <1>4, <2>2 DEF LineKept
    <3>2. ASSUME NEW j \in 1 .. Len(grown), grown[j] = grown[k] PROVE j = k
      <4>1. j \in 1 .. Len(line[s]) \/ j = Len(line[s]) + 1
          BY <1>1, <1>2
      <4>2. j # Len(line[s]) + 1
          BY <1>2, <1>4, <2>2, <3>2
      <4> QED
          BY <1>2, <2>2, <3>2, <4>1, <4>2 DEF LineKept
    <3>3. t = s /\ line'[t] = grown
        BY <1>3, <2>2
    <3> QED
        BY ONLY <3>1, <3>2, <3>3
  <2>3. CASE t = s /\ k = Len(line[s]) + 1
    <3>1. call'[i].at \in InLine
        BY DEF InLine
    <3>2. k # 1 => call'[i].at = "waiting"
        BY <1>1, <2>3, EmptySeq
    <3>3. ASSUME NEW j \in 1 .. Len(grown), grown[j] = grown[k] PROVE j = k
      <4>1. j \in 1 .. Len(line[s]) \/ j = Len(line[s]) + 1
          BY <1>1, <1>2
      <4> QED
          BY <1>2, <1>4, <2>3, <3>3, <4>1
    <3>4. /\ t = s /\ line'[t] = grown /\ grown[k] = i
          /\ call'[i].by = s
        BY <1>2, <1>3, <2>3
    <3> QED
        BY ONLY <3>1, <3>2, <3>3, <3>4
  <2> QED
      BY <1>1, <1>2, <1>3, <2>1, <2>2, <2>3
<1>6. ASSUME NEW q \in AskedCalls, call'[q].at \in InLine
      PROVE  /\ call'[q].by \in Terminals
             /\ \E k \in 1 .. Len(line'[call'[q].by]) : line'[call'[q].by][k] = q
  <2>1. CASE q = i
    <3>1. Len(line[s]) + 1 \in 1 .. Len(grown)
        BY <1>1, <1>2
    <3> QED
        BY <1>2, <1>3, <2>1, <3>1
  <2>2. CASE q # i
    <3>1. PICK k \in 1 .. Len(line[call[q].by]) : line[call[q].by][k] = q
        BY <1>6, <2>2 DEF LineKept
    <3> call[q].by \in Terminals
        BY <1>6, <2>2 DEF LineKept
    <3>2. CASE call[q].by = s
      <4>1. k \in 1 .. Len(grown) /\ grown[k] = q
          BY <1>1, <1>2, <3>1, <3>2
      <4> QED
          BY <1>3, <2>2, <3>2, <4>1
    <3>3. CASE call[q].by # s
        BY <1>1, <1>3, <2>2, <3>1, <3>3
    <3> QED
        BY <3>2, <3>3
  <2> QED
      BY <2>1, <2>2
<1>7. \A q \in AskedCalls : call'[q].at = "shown" => mounted'[call'[q].by] /\ call'[q].current
    BY DEF LineKept
<1>8. mounted' \in [Terminals -> BOOLEAN]
    BY DEF LineKept
<1> QED
    BY <1>3, <1>5, <1>6, <1>7, <1>8 DEF LineKept

\* What is left of a sequence without its k-th member.
Rest(rest, k, seq) ==
    /\ Len(rest) = Len(seq) - 1
    /\ \A j \in 1 .. Len(seq) - 1 : rest[j] = IF j < k THEN seq[j] ELSE seq[j + 1]

LEMMA WithoutIsRest ==
    ASSUME NEW S, NEW seq \in Seq(S), NEW k \in 1 .. Len(seq)
    PROVE  Without(k, seq) \in Seq(S) /\ Rest(Without(k, seq), k, seq)
<1> DEFINE before == SubSeq(seq, 1, k - 1)
           after == SubSeq(seq, k + 1, Len(seq))
<1>1. Len(seq) \in Nat /\ k \in Nat /\ \A i \in 1 .. Len(seq) : seq[i] \in S
    BY LenProperties, ElementOfSeq
<1>2. /\ before \in Seq(S) /\ Len(before) = k - 1
      /\ \A i \in 1 .. k - 1 : before[i] = seq[i]
  <2>1. \A i \in 1 .. k - 1 : seq[i] \in S
      BY <1>1
  <2>2. /\ before \in Seq(S) /\ Len(before) = IF 1 <= k - 1 THEN (k - 1) - 1 + 1 ELSE 0
        /\ \A i \in 1 .. (k - 1) - 1 + 1 : before[i] = seq[1 + i - 1]
      BY <1>1, <2>1, SubSeqProperties
  <2> HIDE DEF before
  <2> QED
      BY <1>1, <2>2
<1>3. /\ after \in Seq(S) /\ Len(after) = Len(seq) - k
      /\ \A i \in 1 .. Len(seq) - k : after[i] = seq[k + i]
  <2>1. \A i \in k + 1 .. Len(seq) : seq[i] \in S
      BY <1>1
  <2>2. /\ after \in Seq(S) /\ Len(after) = IF k + 1 <= Len(seq) THEN Len(seq) - (k + 1) + 1 ELSE 0
        /\ \A i \in 1 .. Len(seq) - (k + 1) + 1 : after[i] = seq[(k + 1) + i - 1]
      BY <1>1, <2>1, SubSeqProperties
  <2> HIDE DEF after
  <2> QED
      BY <1>1, <2>2
<1> HIDE DEF before, after
<1>4. /\ before \o after \in Seq(S) /\ Len(before \o after) = Len(before) + Len(after)
      /\ \A i \in 1 .. Len(before) + Len(after) :
            (before \o after)[i] = IF i <= Len(before) THEN before[i] ELSE after[i - Len(before)]
    BY <1>2, <1>3, ConcatProperties
<1>5. Without(k, seq) = before \o after
    BY DEF Without, before, after
<1> DEFINE rest == before \o after
<1> HIDE DEF rest
<1>6. Len(rest) = Len(seq) - 1
    BY <1>1, <1>2, <1>3, <1>4 DEF rest
<1>7. ASSUME NEW j \in 1 .. Len(seq) - 1 PROVE rest[j] = IF j < k THEN seq[j] ELSE seq[j + 1]
  <2>1. j \in 1 .. Len(before) + Len(after) /\ j \in Int
      BY <1>1, <1>2, <1>3
  <2>2. rest[j] = IF j <= Len(before) THEN before[j] ELSE after[j - Len(before)]
      BY <1>4, <2>1 DEF rest
  <2>3. CASE j < k
    <3>1. j <= Len(before) /\ j \in 1 .. k - 1
        BY <1>1, <1>2, <2>1, <2>3
    <3> QED
        BY <1>2, <2>2, <2>3, <3>1
  <2>4. CASE ~(j < k)
    <3>1. ~(j <= Len(before)) /\ j - (k - 1) \in 1 .. Len(seq) - k /\ k + (j - (k - 1)) = j + 1
        BY <1>1, <1>2, <2>1, <2>4
    <3>2. after[j - (k - 1)] = seq[k + (j - (k - 1))]
        BY <1>3, <3>1
    <3> QED
        BY <1>2, <2>2, <2>4, <3>1, <3>2
  <2> QED
      BY <2>3, <2>4
<1> QED
    BY <1>4, <1>5, <1>6, <1>7 DEF Rest, rest

LEMMA TailIsRest ==
    ASSUME NEW S, NEW seq \in Seq(S), seq # <<>>
    PROVE  Tail(seq) \in Seq(S) /\ Rest(Tail(seq), 1, seq) /\ 1 \in 1 .. Len(seq) /\ Head(seq) = seq[1]
<1>1. Len(seq) \in Nat \ {0}
    BY EmptySeq
<1>2. Tail(seq) \in Seq(S) /\ Len(Tail(seq)) = Len(seq) - 1
      /\ \A i \in 1 .. Len(Tail(seq)) : Tail(seq)[i] = seq[i + 1]
    BY HeadTailProperties
<1>3. \A j \in 1 .. Len(seq) - 1 : ~(j < 1)
    BY <1>1
<1>4. Head(seq) = seq[1]
    BY <1>1
<1> QED
    BY <1>1, <1>2, <1>3, <1>4 DEF Rest

\* A call leaves the line of its session.
LEMMA LineShrinks ==
    ASSUME LineKept, NEW s \in Terminals, NEW k \in 1 .. Len(line[s]), NEW rest \in Seq(AskedCalls),
           Rest(rest, k, line[s]), line' = [line EXCEPT ![s] = rest],
           call' \in [AskedCalls -> CallType], mounted' = mounted,
           NEW i \in AskedCalls, line[s][k] = i, call'[i].at \notin InLine,
           \A q \in AskedCalls \ {i} : call'[q] = call[q]
    PROVE  LineKept'
<1> DEFINE n == Len(line[s])
           old == line[s]
<1>1. line \in [Terminals -> Seq(AskedCalls)] /\ n \in Nat /\ k \in Nat
    BY LenProperties DEF LineKept
<1>2. /\ line' \in [Terminals -> Seq(AskedCalls)] /\ line'[s] = rest
      /\ \A t \in Terminals \ {s} : line'[t] = line[t]
    BY <1>1
<1>3. \A t \in Terminals : \A j \in 1 .. Len(line[t]) :
        /\ line[t][j] \in AskedCalls /\ call[line[t][j]].by = t /\ call[line[t][j]].at \in InLine
        /\ j # 1 => call[line[t][j]].at = "waiting"
        /\ \A m \in 1 .. Len(line[t]) : line[t][m] = line[t][j] => m = j
    BY ElementOfSeq DEF LineKept
<1>4. /\ old[k] \in AskedCalls /\ call[old[k]].by = s
      /\ \A j \in 1 .. n : /\ old[j] \in AskedCalls /\ call[old[j]].by = s /\ call[old[j]].at \in InLine
                           /\ j # 1 => call[old[j]].at = "waiting"
                           /\ \A m \in 1 .. n : old[m] = old[j] => m = j
    BY <1>3
<1>5. /\ Len(rest) = n - 1
      /\ \A j \in 1 .. n - 1 : rest[j] = IF j < k THEN old[j] ELSE old[j + 1]
    BY DEF Rest
<1> DEFINE from(j) == IF j < k THEN j ELSE j + 1
<1>6. \A j \in 1 .. Len(rest) :
        /\ from(j) \in 1 .. n /\ from(j) # k /\ rest[j] = old[from(j)]
        /\ j # 1 => from(j) # 1
        /\ \A m \in 1 .. Len(rest) : from(m) = from(j) => m = j
    BY <1>1, <1>5
<1> HIDE DEF n, old, from
<1>7. ASSUME NEW t \in Terminals, NEW j \in 1 .. Len(line'[t])
      PROVE  /\ call'[line'[t][j]].by = t /\ call'[line'[t][j]].at \in InLine
             /\ j # 1 => call'[line'[t][j]].at = "waiting"
             /\ \A m \in 1 .. Len(line'[t]) : line'[t][m] = line'[t][j] => m = j
  <2>1. CASE t = s
    <3>1. j \in 1 .. Len(rest) /\ line'[t] = rest
        BY <1>2, <1>7, <2>1
    <3>2. from(j) \in 1 .. n /\ from(j) # k /\ rest[j] = old[from(j)]
        BY <1>6, <3>1
    <3>3. old[from(j)] # old[k] /\ k \in 1 .. n
        BY <1>4, <3>2 DEF n
    <3>4. call'[rest[j]] = call[old[from(j)]]
        BY <1>4, <3>2, <3>3 DEF old
    <3>5. call'[rest[j]].by = s /\ call'[rest[j]].at \in InLine /\ (j # 1 => call'[rest[j]].at = "waiting")
        BY <1>4, <1>6, <3>1, <3>2, <3>4
    <3>6. ASSUME NEW m \in 1 .. Len(rest), rest[m] = rest[j] PROVE m = j
      <4>1. from(m) \in 1 .. n /\ rest[m] = old[from(m)]
          BY <1>6
      <4>2. from(m) = from(j)
          BY <1>4, <3>2, <3>6, <4>1
      <4> QED
          BY <1>6, <3>1, <4>2
    <3> QED
        BY <2>1, <3>1, <3>5, <3>6
  <2>2. CASE t # s
    <3>1. line'[t] = line[t] /\ j \in 1 .. Len(line[t])
        BY <1>2, <1>7, <2>2
    <3>2. line[t][j] # old[k]
        BY <1>3, <1>4, <2>2, <3>1
    <3>3. line[t][j] \in AskedCalls /\ line[t][j] # i
        BY <1>3, <3>1, <3>2 DEF old
    <3>4. call'[line[t][j]] = call[line[t][j]]
        BY <3>3
    <3>5. /\ call[line[t][j]].by = t /\ call[line[t][j]].at \in InLine
          /\ j # 1 => call[line[t][j]].at = "waiting"
          /\ \A m \in 1 .. Len(line[t]) : line[t][m] = line[t][j] => m = j
        BY <1>3, <3>1
    <3> QED
        BY <3>1, <3>4, <3>5
  <2> QED
      BY <2>1, <2>2
<1>8. ASSUME NEW q \in AskedCalls, call'[q].at \in InLine
      PROVE  /\ call'[q].by \in Terminals
             /\ \E j \in 1 .. Len(line'[call'[q].by]) : line'[call'[q].by][j] = q
  <2>1. q # old[k] /\ call'[q] = call[q] /\ call[q].at \in InLine
      BY <1>8 DEF old
  <2>2. PICK m \in 1 .. Len(line[call[q].by]) : line[call[q].by][m] = q
      BY <2>1 DEF LineKept
  <2>3. CASE call[q].by = s
    <3>1. m \in 1 .. n /\ old[m] = q /\ m # k /\ m \in Int
        BY <2>1, <2>2, <2>3 DEF n, old
    <3> DEFINE j == IF m < k THEN m ELSE m - 1
    <3>2. j \in 1 .. Len(rest)
        BY <1>1, <1>5, <3>1 DEF n
    <3>3. rest[j] = old[m]
      <4>1. j \in 1 .. n - 1 /\ (IF j < k THEN j ELSE j + 1) = m
          BY <1>1, <1>5, <3>1, <3>2 DEF n
      <4> HIDE DEF j
      <4> QED
          BY <1>5, <4>1
    <3> HIDE DEF j
    <3> QED
        BY <1>2, <2>1, <2>3, <3>1, <3>2, <3>3
  <2>4. CASE call[q].by # s
    <3>1. call[q].by \in Terminals
        BY <2>1 DEF LineKept
    <3>2. line'[call[q].by] = line[call[q].by]
        BY <1>2, <2>4, <3>1
    <3> QED
        BY <2>1, <2>2, <3>1, <3>2
  <2> QED
      BY <2>3, <2>4
<1>9. \A q \in AskedCalls : call'[q].at = "shown" => mounted'[call'[q].by] /\ call'[q].current
    BY DEF LineKept, InLine
<1>10. mounted' \in [Terminals -> BOOLEAN]
    BY DEF LineKept
<1> QED
    BY <1>2, <1>7, <1>8, <1>9, <1>10 DEF LineKept

\* A judged call may come to be in the program's hands.
Fit(after, sessions) ==
    /\ after \in CallType
    /\ after.at = "new" => after.asked = FALSE
    /\ after.at # "new" =>
        /\ after.by \in sessions /\ after.cmd \in Commands
        /\ ~Denied(Settings[after.by], after.cmd)

LEMMA CallsFit ==
    ASSUME CallsJudged, NEW i \in AskedCalls, NEW after, call' = [call EXCEPT ![i] = after],
           Fit(after, live), live' = live
    PROVE  CallsJudged' /\ call'[i] = after /\ \A q \in AskedCalls : q # i => call'[q] = call[q]
<1>1. /\ call' \in [AskedCalls -> CallType] /\ call'[i] = after
      /\ \A q \in AskedCalls : q # i => call'[q] = call[q]
    BY DEF CallsJudged, Fit
<1>2. \A q \in AskedCalls : call'[q].at = "new" => call'[q].asked = FALSE
    BY <1>1 DEF CallsJudged, Fit
<1>3. ASSUME NEW q \in AskedCalls, call'[q].at # "new"
      PROVE  /\ call'[q].by \in live /\ call'[q].cmd \in Commands
             /\ ~Denied(Settings[call'[q].by], call'[q].cmd)
  <2>1. CASE q = i
      BY <1>1, <1>3, <2>1 DEF Fit
  <2>2. CASE q # i
      BY <1>1, <1>3, <2>2 DEF CallsJudged
  <2> QED
      BY <2>1, <2>2
<1> QED
    BY <1>1, <1>2, <1>3 DEF CallsJudged

\* A call outside of the line that stays outside of it.
LEMMA CallMoves ==
    ASSUME CallsJudged, LineKept, NEW i \in AskedCalls, NEW after, call' = [call EXCEPT ![i] = after],
           Fit(after, live), UNCHANGED <<live, line, mounted>>,
           call[i].at \notin InLine, after.at \notin InLine
    PROVE  CallsJudged' /\ LineKept'
<1>1. CallsJudged' /\ call'[i] = after /\ \A q \in AskedCalls : q # i => call'[q] = call[q]
    BY CallsFit
<1>2. \A q \in AskedCalls : call'[q].at = "shown" => mounted'[call'[q].by] /\ call'[q].current
    BY <1>1 DEF LineKept, InLine
<1>3. \A q \in AskedCalls : call[q].at = "waiting" /\ call'[q].at # "waiting" => line[call[q].by][1] = q
    BY <1>1 DEF InLine
<1>4. \A q \in AskedCalls : call'[q].at = "waiting" => call[q].at = "waiting"
    BY <1>1 DEF InLine
<1>5. call' \in [AskedCalls -> CallType]
    BY <1>1 DEF CallsJudged
<1>6. /\ \A q \in AskedCalls : call'[q].at \in InLine <=> call[q].at \in InLine
      /\ \A q \in AskedCalls : call'[q].at \in InLine => call'[q].by = call[q].by
    BY <1>1
<1>7. mounted' \in [Terminals -> BOOLEAN]
    BY DEF LineKept
<1> QED
    BY <1>1, <1>2, <1>3, <1>4, <1>5, <1>6, <1>7, LinesStay

LEMMA Asking ==
    ASSUME ApprovalInv, NEW i \in AskedCalls, NEW s \in Terminals, NEW posed \in CallType,
           posed.at \in {"new", "judged"}, call[i].at \in {"new", "judged"},
           s \in live, posed.by = s, posed.cmd \in Commands, ~Denied(Settings[s], posed.cmd),
           Question(i, s, posed), RulesUnchanged
    PROVE  ApprovalInv'
<1> USE DEF RulesUnchanged
<1>1. RulesKnown'
    BY RulesStay
<1>2. CallsJudged /\ LineKept /\ call[i].at \notin InLine
    BY DEF ApprovalInv, InLine
<1>3. ASSUME NEW after \in {NotAsked, [posed EXCEPT !.at = "runs"]}, call' = [call EXCEPT ![i] = after],
             UNCHANGED line
      PROVE  ApprovalInv'
  <2>1. /\ [posed EXCEPT !.at = "runs"] \in CallType /\ [posed EXCEPT !.at = "runs"].at = "runs"
        /\ [posed EXCEPT !.at = "runs"].by = s /\ [posed EXCEPT !.at = "runs"].cmd = posed.cmd
      BY DEF CallType
  <2>2. Fit(after, live) /\ after.at \notin InLine
      BY <2>1, FreshCall DEF Fit, InLine
  <2> QED
      BY <1>1, <1>2, <1>3, <2>2, CallMoves DEF ApprovalInv
<1>4. ASSUME NEW at \in {"reading", "shown", "waiting"},
             at = IF ~mounted[s] THEN "reading" ELSE IF line[s] = <<>> THEN "shown" ELSE "waiting",
             call' = [call EXCEPT ![i] = [posed EXCEPT !.at = at, !.current = mounted[s]]],
             line' = [line EXCEPT ![s] = IF mounted[s] THEN Append(@, i) ELSE @]
      PROVE  ApprovalInv'
  <2> DEFINE after == [posed EXCEPT !.at = at, !.current = mounted[s]]
  <2> mounted[s] \in BOOLEAN
      BY <1>2 DEF LineKept
  <2>1. after \in CallType /\ after.at = at /\ after.by = s /\ after.cmd = posed.cmd
      BY <1>4 DEF CallType, InLine
  <2>2. after.current = mounted[s]
      BY DEF CallType
  <2>3. Fit(after, live)
    <3> HIDE DEF after
    <3> QED
        BY <2>1 DEF Fit
  <2> HIDE DEF after
  <2>4. CallsJudged' /\ call'[i] = after /\ \A q \in AskedCalls : q # i => call'[q] = call[q]
      BY <1>2, <1>4, <2>3, CallsFit DEF after
  <2>5. CASE mounted[s]
    <3>1. line' = [line EXCEPT ![s] = Append(@, i)]
        BY <1>4, <2>5
    <3>2. call'[i].by = s /\ call'[i].at = IF line[s] = <<>> THEN "shown" ELSE "waiting"
        BY <1>4, <2>1, <2>4, <2>5
    <3>3. call'[i].current
        BY <2>2, <2>4, <2>5
    <3>4. call' \in [AskedCalls -> CallType]
        BY <2>4 DEF CallsJudged
    <3>5. LineKept'
        BY <1>2, <2>4, <2>5, <3>1, <3>2, <3>3, <3>4, LineGrows
    <3> QED
        BY <1>1, <2>4, <3>5 DEF ApprovalInv
  <2>6. CASE ~mounted[s]
    <3>1. line' = line
        BY <1>2, <1>4, <2>6 DEF LineKept
    <3>2. after.at \notin InLine
        BY <1>4, <2>1, <2>6 DEF InLine
    <3>3. LineKept'
        BY <1>2, <1>4, <2>3, <3>1, <3>2, CallMoves DEF after
    <3> QED
        BY <1>1, <2>4, <3>3 DEF ApprovalInv
  <2> QED
      BY <1>4, <2>5, <2>6
<1>5. CASE \E after \in {NotAsked, [posed EXCEPT !.at = "runs"]} :
              call' = [call EXCEPT ![i] = after] /\ UNCHANGED line
    BY <1>3, <1>5
<1>6. ASSUME NEW at, at = IF ~mounted[s] THEN "reading" ELSE IF line[s] = <<>> THEN "shown" ELSE "waiting"
      PROVE  at \in {"reading", "shown", "waiting"}
    BY <1>6
<1> QED
    BY <1>4, <1>5, <1>6 DEF Question

LEMMA Verdicts ==
    ASSUME NEW s, NEW c \in Commands
    PROVE  Verdict(s, c) \in {"allow", "ask", "deny"}
<1>1. c.verdict \in {"allow", "ask", "deny"}
    BY ApprovalConstants DEF ApprovalConstants, CommandType
<1> QED
    BY <1>1 DEF Verdict

LEMMA CallJudgedStep ==
    ASSUME ApprovalInv, NEW i \in AskedCalls, NEW s \in Terminals, NEW c \in Commands, CallJudged(i, s, c)
    PROVE  ApprovalInv'
<1> DEFINE judged == [NotAsked EXCEPT !.by = s, !.cmd = c, !.asked = (Verdict(s, c) = "ask")]
           to(at) == [judged EXCEPT !.at = at]
<1>1. s \in live /\ call[i].at = "new" /\ RulesUnchanged /\ RulesKnown /\ CallsJudged /\ LineKept
    BY DEF CallJudged, CallAt, ApprovalInv
<1>2. judged \in CallType /\ judged.at = "new" /\ judged.by = s /\ judged.cmd = c
    BY FreshCall DEF CallType, NotAsked
<1>3. \A at \in {"judged", "runs"} :
        to(at) \in CallType /\ to(at).at = at /\ to(at).by = s /\ to(at).cmd = c
  <2> HIDE DEF judged
  <2> QED
      BY <1>2, JudgedPlaced
<1>4. RulesKnown' /\ UNCHANGED <<live, mounted>>
    BY <1>1, RulesStay DEF RulesUnchanged
<1>5. ASSUME NEW at \in {"judged", "runs"}, call' = [call EXCEPT ![i] = to(at)], UNCHANGED line,
             Verdict(s, c) # "deny"
      PROVE  ApprovalInv'
  <2>1. Fit(to(at), live) /\ to(at).at \notin InLine /\ call[i].at \notin InLine
      BY <1>1, <1>3, <1>5, NotDenied DEF Fit, InLine
  <2> HIDE DEF to
  <2> QED
      BY <1>1, <1>4, <1>5, <2>1, CallMoves DEF ApprovalInv
<1>6. CASE Verdict(s, c) = "ask" /\ c.tool # "shell"
  <2>1. Question(i, s, judged)
      BY <1>6 DEF CallJudged
  <2> HIDE DEF judged
  <2> QED
      BY <1>1, <1>2, <1>6, <2>1, NotDenied, Asking
<1>7. CASE Verdict(s, c) = "ask" /\ c.tool = "shell"
    BY <1>5, <1>7 DEF CallJudged
<1>8. CASE Verdict(s, c) = "allow"
    BY <1>5, <1>8 DEF CallJudged
<1>9. CASE Verdict(s, c) = "deny"
  <2>1. UNCHANGED <<call, line>>
      BY <1>9 DEF CallJudged
  <2> QED
      BY <1>4, <2>1, CallsStay DEF ApprovalInv
<1> QED
    BY <1>6, <1>7, <1>8, <1>9, Verdicts

LEMMA ClassifiedStep == ASSUME ApprovalInv, NEW i \in AskedCalls, Classified(i) PROVE ApprovalInv'
<1>1. call[i].at = "judged" /\ RulesUnchanged /\ RulesKnown /\ CallsJudged /\ LineKept
    BY DEF Classified, CallAt, ApprovalInv
<1>2. call[i].by \in live /\ call[i].cmd \in Commands /\ call[i] \in CallType
      /\ ~Denied(Settings[call[i].by], call[i].cmd) /\ live \subseteq Terminals
    BY <1>1 DEF CallsJudged, RulesKnown
<1>3. RulesKnown' /\ UNCHANGED <<live, mounted>>
    BY <1>1, RulesStay DEF RulesUnchanged
<1>4. CASE call' = [call EXCEPT ![i] = NotAsked] /\ UNCHANGED line
  <2>1. Fit(NotAsked, live) /\ call[i].at \notin InLine
      BY <1>1, FreshCall DEF Fit, InLine
  <2> QED
      BY <1>1, <1>3, <1>4, <2>1, FreshCall, CallMoves DEF ApprovalInv
<1>5. CASE Question(i, call[i].by, call[i])
    BY <1>1, <1>2, <1>5, Asking
<1> QED
    BY <1>4, <1>5 DEF Classified

\* Who waits, is on display or has an answer is in the line; all but the first
\* wait.
LEMMA InLineAt ==
    ASSUME LineKept, NEW i \in AskedCalls, call[i].at \in InLine
    PROVE  /\ call[i].by \in Terminals /\ line[call[i].by] \in Seq(AskedCalls) /\ line[call[i].by] # <<>>
           /\ call[i].at # "waiting" => line[call[i].by][1] = i
           /\ Head(line[call[i].by]) = line[call[i].by][1]
           /\ Len(line[call[i].by]) \in Nat \ {0}
<1>1. PICK k \in 1 .. Len(line[call[i].by]) : line[call[i].by][k] = i
    BY DEF LineKept
<1>2. call[i].by \in Terminals /\ line[call[i].by] \in Seq(AskedCalls)
    BY DEF LineKept
<1>3. line[call[i].by] # <<>> /\ Len(line[call[i].by]) \in Nat \ {0}
    BY <1>1, <1>2, EmptySeq
<1>4. call[i].at # "waiting" => line[call[i].by][1] = i
    BY <1>1, <1>2 DEF LineKept
<1> QED
    BY <1>2, <1>3, <1>4, TailIsRest

\* The first of a line leaves it.
LEMMA FirstLeaves ==
    ASSUME CallsJudged, LineKept, NEW i \in AskedCalls, call[i].at \in InLine,
           line[call[i].by][1] = i, NEW after, Fit(after, live), after.at \notin InLine,
           call' = [call EXCEPT ![i] = after],
           line' = [line EXCEPT ![call[i].by] = Tail(@)], UNCHANGED <<live, mounted>>
    PROVE  CallsJudged' /\ LineKept'
<1> DEFINE s == call[i].by
<1>1. CallsJudged' /\ call'[i] = after /\ \A q \in AskedCalls : q # i => call'[q] = call[q]
    BY CallsFit
<1>2. s \in Terminals /\ line[s] \in Seq(AskedCalls) /\ line[s] # <<>> /\ line[s][1] = i
    BY InLineAt
<1> HIDE DEF s
<1>3. Tail(line[s]) \in Seq(AskedCalls) /\ Rest(Tail(line[s]), 1, line[s]) /\ 1 \in 1 .. Len(line[s])
    BY <1>2, TailIsRest
<1>4. line' = [line EXCEPT ![s] = Tail(line[s])] /\ call' \in [AskedCalls -> CallType]
    BY <1>1 DEF s, CallsJudged
<1>5. call'[i].at \notin InLine /\ \A q \in AskedCalls \ {i} : call'[q] = call[q]
    BY <1>1
<1>6. mounted' = mounted
    OBVIOUS
<1>7. LineKept'
    BY <1>2, <1>3, <1>4, <1>5, <1>6, LineShrinks
<1> QED
    BY <1>1, <1>7

LEMMA AcquiresStep == ASSUME ApprovalInv, NEW i \in AskedCalls, Acquires(i) PROVE ApprovalInv'
<1>1. call[i].at = "waiting" /\ Head(line[call[i].by]) = i /\ RulesUnchanged /\ CallsJudged /\ LineKept
    BY DEF Acquires, CallAt, ApprovalInv
<1>2. RulesKnown' /\ UNCHANGED <<live, mounted>>
    BY <1>1, RulesStay DEF RulesUnchanged
<1>3. call[i].at \in InLine /\ line[call[i].by][1] = i
    BY <1>1, InLineAt DEF InLine
<1>4. CASE mounted[call[i].by] /\ call[i].current
  <2> DEFINE shown == [call[i] EXCEPT !.at = "shown"]
  <2>1. call[i] \in CallType /\ call' = [call EXCEPT ![i] = shown] /\ UNCHANGED line
      BY <1>1, <1>4 DEF Acquires, CallsJudged, CallType
  <2>2. /\ shown \in CallType /\ shown.at = "shown" /\ shown.by = call[i].by /\ shown.cmd = call[i].cmd
        /\ shown.current = call[i].current
      BY <2>1 DEF CallType, InLine
  <2> HIDE DEF shown
  <2>3. Fit(shown, live)
      BY <1>1, <2>2 DEF Fit, CallsJudged
  <2>4. CallsJudged' /\ call'[i] = shown /\ \A q \in AskedCalls : q # i => call'[q] = call[q]
      BY <1>1, <1>2, <2>1, <2>3, CallsFit
  <2>5. /\ \A q \in AskedCalls : call'[q].at \in InLine <=> call[q].at \in InLine
        /\ \A q \in AskedCalls : call'[q].at \in InLine => call'[q].by = call[q].by
      BY <1>1, <1>3, <2>2, <2>4 DEF InLine
  <2>6. \A q \in AskedCalls : call[q].at = "waiting" /\ call'[q].at # "waiting" => line[call[q].by][1] = q
      BY <1>3, <2>4
  <2>7. \A q \in AskedCalls : call'[q].at = "waiting" => call[q].at = "waiting"
      BY <1>1, <2>4
  <2>8. \A q \in AskedCalls : call'[q].at = "shown" => mounted'[call'[q].by] /\ call'[q].current
    <3>1. ASSUME NEW q \in AskedCalls, q # i, call'[q].at = "shown"
          PROVE  mounted'[call'[q].by] /\ call'[q].current
        BY <1>1, <1>2, <2>4, <3>1 DEF LineKept
    <3>2. mounted'[call'[i].by]
        BY <1>2, <1>4, <2>2, <2>4
    <3>3. call'[i].current = call[i].current
        BY <2>2, <2>4
    <3>4. call'[i].current
        BY <1>4, <3>3
    <3> QED
        BY <3>1, <3>2, <3>4
  <2>9. call' \in [AskedCalls -> CallType] /\ mounted' \in [Terminals -> BOOLEAN]
      BY <1>1, <1>2, <2>4 DEF CallsJudged, LineKept
  <2>10. LineKept'
      BY <1>1, <2>1, <2>5, <2>6, <2>7, <2>8, <2>9, LinesStay
  <2> QED
      BY <1>2, <2>4, <2>10 DEF ApprovalInv
<1>5. CASE ~(mounted[call[i].by] /\ call[i].current)
  <2>1. Fit(NotAsked, live)
      BY FreshCall DEF Fit
  <2>2. call' = [call EXCEPT ![i] = NotAsked] /\ line' = [line EXCEPT ![call[i].by] = Tail(@)]
      BY <1>5 DEF Acquires
  <2> QED
      BY <1>1, <1>2, <1>3, <2>1, <2>2, FreshCall, FirstLeaves DEF ApprovalInv
<1> QED
    BY <1>4, <1>5

LEMMA AnswersStep ==
    ASSUME ApprovalInv, NEW i \in AskedCalls, NEW said \in Replies, Answers(i, said)
    PROVE  ApprovalInv'
<1> DEFINE answered == [call[i] EXCEPT !.at = "answered", !.said = said]
<1>1. call[i].at = "shown" /\ RulesUnchanged /\ UNCHANGED line /\ CallsJudged /\ LineKept
    BY DEF Answers, CallAt, ApprovalInv
<1>2. RulesKnown' /\ UNCHANGED <<live, mounted>>
    BY <1>1, RulesStay DEF RulesUnchanged
<1>3. call[i].at \in InLine /\ line[call[i].by][1] = i
    BY <1>1, InLineAt DEF InLine
<1>4. call[i] \in CallType /\ call' = [call EXCEPT ![i] = answered]
    BY <1>1 DEF Answers, CallsJudged, CallType
<1>5. /\ answered \in CallType /\ answered.at = "answered" /\ answered.by = call[i].by
      /\ answered.cmd = call[i].cmd
    BY <1>4 DEF CallType, InLine
<1> HIDE DEF answered
<1>6. Fit(answered, live)
    BY <1>1, <1>5 DEF Fit, CallsJudged
<1>7. CallsJudged' /\ call'[i] = answered /\ \A q \in AskedCalls : q # i => call'[q] = call[q]
    BY <1>1, <1>2, <1>4, <1>6, CallsFit
<1>8. /\ \A q \in AskedCalls : call'[q].at \in InLine <=> call[q].at \in InLine
      /\ \A q \in AskedCalls : call'[q].at \in InLine => call'[q].by = call[q].by
    BY <1>1, <1>3, <1>5, <1>7 DEF InLine
<1>9. \A q \in AskedCalls : call[q].at = "waiting" /\ call'[q].at # "waiting" => line[call[q].by][1] = q
    BY <1>3, <1>7
<1>10. \A q \in AskedCalls : call'[q].at = "waiting" => call[q].at = "waiting"
    BY <1>5, <1>7
<1>11. \A q \in AskedCalls : call'[q].at = "shown" => mounted'[call'[q].by] /\ call'[q].current
    BY <1>1, <1>2, <1>5, <1>7 DEF LineKept
<1>12. call' \in [AskedCalls -> CallType] /\ mounted' \in [Terminals -> BOOLEAN]
    BY <1>1, <1>2, <1>7 DEF CallsJudged, LineKept
<1>13. LineKept'
    BY <1>1, <1>8, <1>9, <1>10, <1>11, <1>12, LinesStay
<1> QED
    BY <1>2, <1>7, <1>13 DEF ApprovalInv

LEMMA SavedRules ==
    ASSUME NEW c \in Commands
    PROVE  /\ SavedRule(c) \in RuleType /\ SavedRule(c).behavior = "allow"
           /\ \A w \in Words : w \in SavedRule(c).covers <=> \E v \in Words : c.parts = {v} /\ w \in Family[v]
           /\ SavedRule(c).covers \subseteq Words
<1> DEFINE covered == UNION {Family[w] : w \in {v \in Words : c.parts = {v}}}
<1>1. \A w \in Words : Family[w] \subseteq Words
    BY ApprovalConstants DEF ApprovalConstants
<1>2. covered \subseteq Words
    BY <1>1
<1>3. \A w \in Words : w \in covered <=> \E v \in Words : c.parts = {v} /\ w \in Family[v]
    OBVIOUS
<1>4. SavedRule(c) = [behavior |-> "allow", covers |-> covered]
    BY DEF SavedRule
<1> HIDE DEF covered
<1> QED
    BY <1>2, <1>3, <1>4 DEF RuleType

\* What the user allows for good goes to the session's rules, and to the file if
\* it can be written.
LEMMA AlwaysSaved ==
    ASSUME RulesKnown, NEW s \in live, NEW c \in Commands, SaveAlways(s, c), live' = live
    PROVE  RulesKnown'
<1> DEFINE saved == SavedRule(c)
           more == rules[s] \cup {saved}
<1>1. /\ s \in Terminals /\ rules \in [Terminals -> SUBSET RuleType] /\ saved \in RuleType
      /\ saved.behavior = "allow" /\ saved.covers \subseteq Words
      /\ \A w \in Words : w \in saved.covers <=> \E v \in Words : c.parts = {v} /\ w \in Family[v]
    BY SavedRules DEF RulesKnown
<1> HIDE DEF saved
<1>2. /\ rules' \in [Terminals -> SUBSET RuleType] /\ rules'[s] = more
      /\ \A t \in Terminals \ {s} : rules'[t] = rules[t]
      /\ granted' = granted \cup {c}
    BY <1>1 DEF SaveAlways, saved
<1>3. stored' = more \/ stored' = stored
    BY <1>2 DEF SaveAlways
<1>4. apart' => apart /\ stored' = more
    BY <1>2 DEF SaveAlways
<1>5. \A w \in Words : UserAllows(w)' <=> UserAllows(w) \/ w \in saved.covers
    BY <1>1, <1>2 DEF UserAllows
<1>6. \A r \in RuleType : \A w \in r.covers : w \in Words
    BY DEF RuleType
<1>7. ASSUME NEW known \in SUBSET RuleType, Justified(known)
      PROVE  \A r \in known : r.behavior = "allow" => \A w \in r.covers : UserAllows(w)' \/ SettingsAllow(w)
    BY <1>5, <1>6, <1>7 DEF Justified
<1>8. \A r \in more : r.behavior = "allow" => \A w \in r.covers : UserAllows(w)' \/ SettingsAllow(w)
  <2>1. \A r \in rules[s] : r.behavior = "allow" => \A w \in r.covers : UserAllows(w)' \/ SettingsAllow(w)
      BY <1>1, <1>7 DEF RulesKnown
  <2>2. \A w \in saved.covers : UserAllows(w)'
      BY <1>1, <1>5
  <2> QED
      BY <2>1, <2>2
<1>9. Justified(stored)' /\ \A t \in Terminals : Justified(rules[t])'
  <2>1. Justified(stored)'
    <3>1. CASE stored' = more
        BY <1>8, <3>1 DEF Justified, SettingsAllow
    <3>2. CASE stored' = stored
        BY <1>7, <3>2 DEF RulesKnown, Justified, SettingsAllow
    <3> QED
        BY <1>3, <3>1, <3>2
  <2>2. ASSUME NEW t \in Terminals PROVE Justified(rules[t])'
    <3>1. CASE t = s
        BY <1>2, <1>8, <3>1 DEF Justified, SettingsAllow
    <3>2. CASE t # s
        BY <1>1, <1>2, <1>7, <3>2 DEF RulesKnown, Justified, SettingsAllow
    <3> QED
        BY <3>1, <3>2
  <2> QED
      BY <2>1, <2>2
<1>10. stored' \in SUBSET RuleType /\ granted' \in SUBSET Commands /\ apart' \in BOOLEAN /\ live' \subseteq Terminals
  <2>1. apart' \in BOOLEAN
      BY DEF SaveAlways, RulesKnown
  <2> QED
      BY <1>1, <1>2, <1>3, <2>1 DEF RulesKnown
<1>11. \A t \in live' : Settings[t] \subseteq rules'[t]
    BY <1>2 DEF RulesKnown
<1>12. ASSUME apart'
       PROVE  /\ \A t, u \in live' : t = u
              /\ \A t \in live' : stored' \subseteq rules'[t]
              /\ \A w \in Words : UserAllows(w)' => \E r \in stored' : r.behavior = "allow" /\ w \in r.covers
  <2>1. apart /\ stored' = more
      BY <1>4, <1>12
  <2>2. \A t \in live : t = s
      BY <2>1 DEF RulesKnown
  <2>3. stored \subseteq more
      BY <2>1 DEF RulesKnown
  <2>4. \A w \in Words : UserAllows(w) => \E r \in more : r.behavior = "allow" /\ w \in r.covers
      BY <2>1, <2>3 DEF RulesKnown
  <2>5. \A w \in saved.covers : \E r \in more : r.behavior = "allow" /\ w \in r.covers
      BY <1>1
  <2> QED
      BY <1>2, <1>5, <2>1, <2>2, <2>4, <2>5
<1> HIDE DEF more
<1> QED
    BY <1>2, <1>9, <1>10, <1>11, <1>12 DEF RulesKnown

LEMMA ActedOnKeeps ==
    ASSUME ApprovalInv, NEW i \in AskedCalls, call[i].at # "new", NEW said \in Replies \cup {"none"},
           ActedOn(i, said)
    PROVE  /\ RulesKnown' /\ UNCHANGED <<live, mounted>>
           /\ \E after : /\ call' = [call EXCEPT ![i] = after]
                         /\ Fit(after, live) /\ after.at \notin InLine
<1> DEFINE runs == [call[i] EXCEPT !.at = "runs", !.said = "none", !.current = FALSE]
           after == IF said = "deny" THEN NotAsked ELSE runs
<1>1. CallsJudged /\ RulesKnown /\ UNCHANGED <<live, mounted>>
    BY DEF ApprovalInv, ActedOn
<1>2. call[i] \in CallType /\ call[i].by \in live /\ call[i].cmd \in Commands
      /\ ~Denied(Settings[call[i].by], call[i].cmd)
    BY <1>1 DEF CallsJudged
<1>3. runs \in CallType /\ runs.at = "runs" /\ runs.by = call[i].by /\ runs.cmd = call[i].cmd
    BY <1>2 DEF CallType
<1> HIDE DEF runs
<1>4. Fit(after, live) /\ after.at \notin InLine
    BY <1>2, <1>3, FreshCall DEF Fit, InLine
<1>5. call' = [call EXCEPT ![i] = after]
    BY <1>1 DEF ActedOn, runs, CallsJudged
<1>6. RulesKnown'
  <2>1. CASE said = "always"
    <3>1. SaveAlways(call[i].by, call[i].cmd)
        BY <2>1 DEF ActedOn
    <3> QED
        BY <1>1, <1>2, <3>1, AlwaysSaved
  <2>2. CASE said # "always"
      BY <1>1, <2>2, RulesStay DEF ActedOn
  <2> QED
      BY <2>1, <2>2
<1> HIDE DEF after
<1> QED
    BY <1>1, <1>4, <1>5, <1>6

LEMMA ActsOnAnswerStep == ASSUME ApprovalInv, NEW i \in AskedCalls, ActsOnAnswer(i) PROVE ApprovalInv'
<1>1. call[i].at = "answered" /\ ActedOn(i, call[i].said) /\ CallsJudged /\ LineKept
      /\ line' = [line EXCEPT ![call[i].by] = Tail(@)]
    BY DEF ActsOnAnswer, CallAt, ApprovalInv
<1>2. call[i].said \in Replies \cup {"none"}
    BY <1>1 DEF CallsJudged, CallType
<1>3. call[i].at \in InLine /\ line[call[i].by][1] = i
    BY <1>1, InLineAt DEF InLine
<1>4. RulesKnown' /\ UNCHANGED <<live, mounted>>
    BY <1>1, <1>2, ActedOnKeeps
<1>5. PICK after : call' = [call EXCEPT ![i] = after] /\ Fit(after, live) /\ after.at \notin InLine
    BY <1>1, <1>2, ActedOnKeeps
<1> QED
    BY <1>1, <1>3, <1>4, <1>5, FirstLeaves DEF ApprovalInv

LEMMA ReadsAnswerStep ==
    ASSUME ApprovalInv, NEW i \in AskedCalls, NEW said \in Replies, ReadsAnswer(i, said)
    PROVE  ApprovalInv'
<1>1. call[i].at = "reading" /\ ActedOn(i, said) /\ CallsJudged /\ LineKept /\ line' = line
    BY DEF ReadsAnswer, CallAt, ApprovalInv
<1>2. call[i].at \notin InLine
    BY <1>1 DEF InLine
<1>3. RulesKnown' /\ UNCHANGED <<live, mounted>>
    BY <1>1, ActedOnKeeps
<1>4. PICK after : call' = [call EXCEPT ![i] = after] /\ Fit(after, live) /\ after.at \notin InLine
    BY <1>1, ActedOnKeeps
<1> QED
    BY <1>1, <1>2, <1>3, <1>4, CallMoves DEF ApprovalInv

LEMMA CallOverStep == ASSUME ApprovalInv, NEW i \in AskedCalls, CallOver(i) PROVE ApprovalInv'
<1> DEFINE s == call[i].by
<1>1. call[i].at # "new" /\ call' = [call EXCEPT ![i] = NotAsked] /\ RulesUnchanged /\ CallsJudged /\ LineKept
    BY DEF CallOver, CallAt, ApprovalInv
<1>2. RulesKnown' /\ UNCHANGED <<live, mounted>>
    BY <1>1, RulesStay DEF RulesUnchanged
<1>3. s \in Terminals
    BY <1>1 DEF CallsJudged, ApprovalInv, RulesKnown
<1>4. Fit(NotAsked, live)
    BY FreshCall DEF Fit
<1>5. CallsJudged' /\ call'[i] = NotAsked /\ \A q \in AskedCalls : q # i => call'[q] = call[q]
    BY <1>1, <1>2, <1>4, CallsFit
<1>6. DOMAIN line[s] = 1 .. Len(line[s]) /\ line[s] \in Seq(AskedCalls)
    BY <1>1, <1>3, LenProperties DEF LineKept
<1>7. CASE call[i].at \in InLine
  <2>1. PICK k \in 1 .. Len(line[s]) : line[s][k] = i
      BY <1>1, <1>7 DEF LineKept
  <2>2. PICK m \in DOMAIN line[s] : line[s][m] = i /\ line' = [line EXCEPT ![s] = Without(m, @)]
      BY <1>6, <2>1 DEF CallOver
  <2>3. m \in 1 .. Len(line[s])
      BY <1>6, <2>2
  <2>4. Without(m, line[s]) \in Seq(AskedCalls) /\ Rest(Without(m, line[s]), m, line[s])
      BY <1>6, <2>3, WithoutIsRest
  <2>5. line' = [line EXCEPT ![s] = Without(m, line[s])] /\ call' \in [AskedCalls -> CallType]
      BY <1>5, <2>2 DEF CallsJudged
  <2>6. call'[i].at \notin InLine /\ \A q \in AskedCalls \ {i} : call'[q] = call[q]
      BY <1>5, FreshCall
  <2> HIDE DEF s
  <2>7. LineKept'
      BY <1>1, <1>2, <1>3, <2>2, <2>3, <2>4, <2>5, <2>6, LineShrinks
  <2> QED
      BY <1>2, <1>5, <2>7 DEF ApprovalInv
<1>8. CASE call[i].at \notin InLine
  <2>1. \A k \in DOMAIN line[s] : line[s][k] # i
      BY <1>1, <1>3, <1>6, <1>8 DEF LineKept
  <2>2. line' = line
      BY <2>1 DEF CallOver
  <2>3. LineKept'
      BY <1>1, <1>2, <1>4, <1>8, <2>2, FreshCall, CallMoves
  <2> QED
      BY <1>2, <1>5, <2>3 DEF ApprovalInv
<1> QED
    BY <1>7, <1>8

LEMMA SessionStartsStep == ASSUME ApprovalInv, NEW s \in Terminals, SessionStarts(s) PROVE ApprovalInv'
<1>1. /\ s \notin live /\ live' = live \cup {s} /\ rules' = [rules EXCEPT ![s] = LoadedRules(s)]
      /\ UNCHANGED <<planning, stored, mounted, line, call, granted>>
      /\ CallsJudged /\ LineKept /\ RulesKnown
    BY DEF SessionStarts, ApprovalInv
<1>2. CallsJudged' /\ LineKept'
    BY <1>1 DEF CallsJudged, LineKept
<1>3. apart' => apart /\ live = {}
    BY DEF SessionStarts
<1>4. LoadedRules(s) \in SUBSET RuleType /\ Settings[s] \subseteq LoadedRules(s) /\ stored \subseteq LoadedRules(s)
    BY <1>1, ApprovalConstants DEF LoadedRules, RulesKnown, ApprovalConstants
<1>5. /\ rules' \in [Terminals -> SUBSET RuleType] /\ rules'[s] = LoadedRules(s)
      /\ \A t \in Terminals \ {s} : rules'[t] = rules[t]
    BY <1>1, <1>4 DEF RulesKnown
<1>6. Justified(LoadedRules(s))
    BY <1>1 DEF RulesKnown, Justified, LoadedRules, SettingsAllow
<1>7. Justified(stored)' /\ \A t \in Terminals : Justified(rules[t])'
  <2>1. \A w : UserAllows(w)' <=> UserAllows(w)
      BY <1>1 DEF UserAllows
  <2>2. Justified(stored)'
      BY <1>1, <2>1 DEF RulesKnown, Justified, SettingsAllow
  <2>3. ASSUME NEW t \in Terminals PROVE Justified(rules[t])'
    <3>1. Justified(rules[t]) \/ t = s
        BY <1>1 DEF RulesKnown
    <3>2. PICK known : Justified(known) /\ rules'[t] = known
        BY <1>5, <1>6, <3>1
    <3> QED
        BY <2>1, <3>2 DEF Justified, SettingsAllow
  <2> QED
      BY <2>2, <2>3
<1>8. apart' \in BOOLEAN
    BY DEF SessionStarts
<1>9. \A t \in live' : Settings[t] \subseteq rules'[t]
    BY <1>1, <1>4, <1>5 DEF RulesKnown
<1>10. ASSUME apart'
       PROVE  /\ \A t, u \in live' : t = u
              /\ \A t \in live' : stored' \subseteq rules'[t]
              /\ \A w \in Words : UserAllows(w)' => \E r \in stored' : r.behavior = "allow" /\ w \in r.covers
    BY <1>1, <1>3, <1>4, <1>5, <1>10 DEF RulesKnown, UserAllows
<1>11. RulesKnown'
    BY <1>1, <1>5, <1>7, <1>8, <1>9, <1>10 DEF RulesKnown
<1> QED
    BY <1>2, <1>11 DEF ApprovalInv

LEMMA SessionEndsStep == ASSUME ApprovalInv, NEW s \in Terminals, SessionEnds(s) PROVE ApprovalInv'
<1>1. /\ s \in live /\ live' = live \ {s} /\ rules' = [rules EXCEPT ![s] = {}]
      /\ mounted' = [mounted EXCEPT ![s] = FALSE] /\ line' = [line EXCEPT ![s] = <<>>]
      /\ call' = [i \in AskedCalls |-> IF call[i].by = s THEN NotAsked ELSE call[i]]
      /\ UNCHANGED <<stored, granted, apart>>
      /\ CallsJudged /\ LineKept /\ RulesKnown
    BY DEF SessionEnds, NoSession, ApprovalInv
<1>2. /\ call' \in [AskedCalls -> CallType]
      /\ \A i \in AskedCalls : call'[i].at # "new" => call'[i] = call[i] /\ call[i].by # s
    BY <1>1, FreshCall DEF CallsJudged
<1>3. CallsJudged'
  <2>1. \A i \in AskedCalls : call'[i].at = "new" => call'[i].asked = FALSE
      BY <1>1, FreshCall DEF CallsJudged
  <2> QED
      BY <1>1, <1>2, <2>1 DEF CallsJudged
<1>4. <<>> \in Seq(AskedCalls) /\ Len(<<>>) = 0
    BY EmptySeq
<1>5. /\ line' \in [Terminals -> Seq(AskedCalls)] /\ mounted' \in [Terminals -> BOOLEAN]
      /\ Len(line'[s]) = 0
      /\ \A t \in Terminals \ {s} : line'[t] = line[t] /\ mounted'[t] = mounted[t]
    BY <1>1, <1>4 DEF LineKept
<1>6. LineKept'
  <2>1. ASSUME NEW t \in Terminals, NEW k \in 1 .. Len(line'[t])
        PROVE  /\ call'[line'[t][k]].by = t /\ call'[line'[t][k]].at \in InLine
               /\ k # 1 => call'[line'[t][k]].at = "waiting"
               /\ \A j \in 1 .. Len(line'[t]) : line'[t][j] = line'[t][k] => j = k
    <3>1. t # s /\ line'[t] = line[t]
        BY <1>5, <2>1
    <3>2. line[t][k] \in AskedCalls /\ call[line[t][k]].by = t
        BY <1>1, <2>1, <3>1, ElementOfSeq DEF LineKept
    <3>3. call'[line[t][k]] = call[line[t][k]]
        BY <1>1, <3>1, <3>2
    <3> QED
        BY <1>1, <2>1, <3>1, <3>3 DEF LineKept
  <2>2. ASSUME NEW i \in AskedCalls, call'[i].at \in InLine
        PROVE  /\ call'[i].by \in Terminals
               /\ \E k \in 1 .. Len(line'[call'[i].by]) : line'[call'[i].by][k] = i
               /\ call'[i].at = "shown" => mounted'[call'[i].by] /\ call'[i].current
    <3>1. call'[i] = call[i] /\ call[i].by # s /\ call[i].by \in Terminals
        BY <1>1, <1>2, <2>2 DEF InLine, LineKept
    <3> QED
        BY <1>1, <1>5, <2>2, <3>1 DEF LineKept
  <2> QED
      BY <1>5, <2>1, <2>2 DEF LineKept, InLine
<1>7. /\ rules' \in [Terminals -> SUBSET RuleType] /\ rules'[s] = {}
      /\ \A t \in Terminals \ {s} : rules'[t] = rules[t]
    BY <1>1 DEF RulesKnown
<1>8. Justified(stored)' /\ \A t \in Terminals : Justified(rules[t])'
    BY <1>1, <1>7 DEF RulesKnown, Justified, UserAllows, SettingsAllow
<1>9. RulesKnown'
    BY <1>1, <1>7, <1>8 DEF RulesKnown, UserAllows
<1> QED
    BY <1>3, <1>6, <1>9 DEF ApprovalInv

LEMMA PromptOpensStep == ASSUME ApprovalInv, NEW s \in Terminals, PromptOpens(s) PROVE ApprovalInv'
<1>1. /\ mounted' = [mounted EXCEPT ![s] = TRUE]
      /\ UNCHANGED <<live, mode, planning, rules, stored, line, call, granted, apart>>
      /\ CallsJudged /\ LineKept
    BY DEF PromptOpens, ApprovalInv
<1>2. mounted' \in [Terminals -> BOOLEAN]
    BY <1>1 DEF LineKept
<1>3. \A i \in AskedCalls : call[i].at = "shown" => mounted'[call[i].by] /\ call[i].current
    BY <1>1 DEF LineKept, InLine
<1>4. CallsJudged' /\ LineKept'
    BY <1>1, <1>2, <1>3 DEF CallsJudged, LineKept
<1> QED
    BY <1>1, <1>4, RulesStay DEF ApprovalInv

\* What closing a prompt does to a call.
LEMMA FailsClosed ==
    ASSUME CallsJudged, NEW s \in Terminals, NEW i \in AskedCalls
    PROVE  LET after == FailedClosed(s)[i] IN
           /\ after \in CallType /\ after.by = call[i].by /\ after.cmd = call[i].cmd
           /\ after.asked = call[i].asked
           /\ call[i].by # s => after = call[i]
           /\ call[i].by = s =>
                 after.at = (IF call[i].at = "shown" THEN "answered" ELSE call[i].at)
<1>1. call[i] \in CallType
    BY DEF CallsJudged
<1>2. CASE call[i].by # s
    BY <1>1, <1>2 DEF FailedClosed
<1>3. CASE call[i].by = s /\ call[i].at = "shown"
  <2>1. FailedClosed(s)[i] = [call[i] EXCEPT !.at = "answered", !.said = "deny", !.current = FALSE]
      BY <1>3 DEF FailedClosed, CallAt
  <2>2. "answered" \in InLine /\ "deny" \in Replies
      BY DEF InLine, Replies
  <2> QED
      BY <1>1, <1>3, <2>1, <2>2 DEF CallType
<1>4. CASE call[i].by = s /\ call[i].at # "shown"
  <2>1. FailedClosed(s)[i] = [call[i] EXCEPT !.current = FALSE]
      BY <1>4 DEF FailedClosed, CallAt
  <2> QED
      BY <1>1, <1>4, <2>1 DEF CallType
<1> QED
    BY <1>2, <1>3, <1>4

LEMMA PromptClosesStep == ASSUME ApprovalInv, NEW s \in Terminals, PromptCloses(s) PROVE ApprovalInv'
<1>1. /\ mounted' = [mounted EXCEPT ![s] = FALSE] /\ call' = FailedClosed(s)
      /\ UNCHANGED <<live, mode, planning, rules, stored, line, granted, apart>>
      /\ CallsJudged /\ LineKept
    BY DEF PromptCloses, ApprovalInv
<1>2. /\ call' \in [AskedCalls -> CallType] /\ mounted' \in [Terminals -> BOOLEAN]
      /\ \A t \in Terminals \ {s} : mounted'[t] = mounted[t]
  <2>1. DOMAIN call' = AskedCalls /\ call' = [i \in AskedCalls |-> call'[i]]
      BY <1>1 DEF FailedClosed
  <2>2. \A i \in AskedCalls : call'[i] \in CallType
      BY <1>1, FailsClosed
  <2> QED
      BY <1>1, <2>1, <2>2 DEF LineKept
<1>3. \A i \in AskedCalls :
        /\ call'[i].by = call[i].by /\ call'[i].cmd = call[i].cmd /\ call'[i].asked = call[i].asked
        /\ call[i].by # s => call'[i] = call[i]
        /\ call[i].by = s => call'[i].at = (IF call[i].at = "shown" THEN "answered" ELSE call[i].at)
    BY <1>1, FailsClosed
<1>4. \A i \in AskedCalls : call'[i].at # "new" <=> call[i].at # "new"
    BY <1>3
<1>5. CallsJudged'
    BY <1>1, <1>2, <1>3, <1>4 DEF CallsJudged
<1>6. /\ \A i \in AskedCalls : call'[i].at \in InLine <=> call[i].at \in InLine
      /\ \A i \in AskedCalls : call'[i].at \in InLine => call'[i].by = call[i].by
      /\ \A i \in AskedCalls : call'[i].at = "waiting" <=> call[i].at = "waiting"
    BY <1>3 DEF InLine
<1>7. \A i \in AskedCalls : call'[i].at = "shown" => mounted'[call'[i].by] /\ call'[i].current
  <2> TAKE i \in AskedCalls
  <2> HAVE call'[i].at = "shown"
  <2>1. call[i].by # s /\ call'[i] = call[i] /\ call[i].at = "shown"
      BY <1>3
  <2>2. call[i].by \in Terminals
      BY <1>1, <2>1 DEF LineKept, InLine
  <2> QED
      BY <1>1, <1>2, <2>1, <2>2 DEF LineKept
<1>8. LineKept'
    BY <1>1, <1>2, <1>6, <1>7, LinesStay
<1> QED
    BY <1>1, <1>5, <1>8, RulesStay DEF ApprovalInv

LEMMA ApprovalStep == ApprovalInv /\ [ApprovalNext]_approvalVars => ApprovalInv'
<1> SUFFICES ASSUME ApprovalInv, [ApprovalNext]_approvalVars PROVE ApprovalInv'
    OBVIOUS
<1>1. CASE UNCHANGED approvalVars
  <2>1. UNCHANGED <<live, rules, stored, granted, apart, mounted, line, call>>
      BY <1>1 DEF approvalVars
  <2> QED
      BY <2>1, RulesStay, CallsStay DEF ApprovalInv
<1>2. ASSUME NEW s \in Terminals, PlanToggles(s) PROVE ApprovalInv'
  <2>1. UNCHANGED <<live, rules, stored, granted, apart, mounted, line, call>>
      BY <1>2 DEF PlanToggles
  <2> QED
      BY <2>1, RulesStay, CallsStay DEF ApprovalInv
<1>3. ASSUME NEW s \in Terminals, SessionStarts(s) \/ SessionEnds(s) \/ PromptOpens(s) \/ PromptCloses(s)
      PROVE  ApprovalInv'
    BY <1>3, SessionStartsStep, SessionEndsStep, PromptOpensStep, PromptClosesStep
<1>4. ASSUME NEW i \in AskedCalls, NEW said \in Replies, Answers(i, said) \/ ReadsAnswer(i, said)
      PROVE  ApprovalInv'
    BY <1>4, AnswersStep, ReadsAnswerStep
<1>5. ASSUME NEW i \in AskedCalls, Classified(i) \/ Acquires(i) \/ ActsOnAnswer(i) \/ CallOver(i)
      PROVE  ApprovalInv'
    BY <1>5, ClassifiedStep, AcquiresStep, ActsOnAnswerStep, CallOverStep
<1> QED
    BY <1>1, <1>2, <1>3, <1>4, <1>5, CallJudgedStep DEF ApprovalNext

LEMMA SettingsObeyed == ApprovalInv => DenyWins /\ ShownIsCurrent
<1> SUFFICES ASSUME ApprovalInv PROVE DenyWins /\ ShownIsCurrent
    OBVIOUS
<1>1. DenyWins
    BY DEF DenyWins, CallAt, ApprovalInv, CallsJudged, Denied
<1>2. ShownIsCurrent
    BY InLineAt DEF ShownIsCurrent, CallAt, ApprovalInv, LineKept, InLine
<1> QED
    BY <1>1, <1>2

\* Only judging it brings a call from nowhere.
LEMMA OnlyJudged ==
    ASSUME ApprovalInv, [ApprovalNext]_approvalVars, NEW i \in AskedCalls,
           call[i].at = "new", call'[i].at # "new"
    PROVE  \E s \in Terminals, c \in Commands : CallJudged(i, s, c)
<1> SUFFICES ASSUME ~\E s \in Terminals, c \in Commands : CallJudged(i, s, c)
             PROVE  FALSE
    OBVIOUS
<1> USE DEF CallAt
<1>1. call \in [AskedCalls -> CallType] /\ CallsJudged
    BY DEF ApprovalInv, CallsJudged
<1>2. ASSUME NEW j \in AskedCalls, NEW after, call' = [call EXCEPT ![j] = after], j # i PROVE FALSE
    BY <1>1, <1>2
<1>3. ASSUME call' = call PROVE FALSE
    BY <1>3
<1>4. ASSUME NEW j \in AskedCalls, j # i, NEW s, NEW posed, Question(j, s, posed) PROVE FALSE
    BY <1>2, <1>4 DEF Question
<1>5. ASSUME NEW j \in AskedCalls, NEW s \in Terminals, NEW c \in Commands, CallJudged(j, s, c) PROVE FALSE
  <2>1. j # i
      BY <1>5
  <2> DEFINE judged == [NotAsked EXCEPT !.by = s, !.cmd = c, !.asked = Verdict(s, c) = "ask"]
  <2>2. CASE Verdict(s, c) = "ask" /\ c.tool # "shell"
    <3>1. Question(j, s, judged)
        BY <1>5, <2>2 DEF CallJudged
    <3> HIDE DEF judged
    <3> QED
        BY <1>4, <2>1, <3>1
  <2>3. CASE Verdict(s, c) = "ask" /\ c.tool = "shell"
    <3>1. call' = [call EXCEPT ![j] = [judged EXCEPT !.at = "judged"]]
        BY <1>5, <2>3 DEF CallJudged
    <3> HIDE DEF judged
    <3> QED
        BY <1>2, <2>1, <3>1
  <2>4. CASE Verdict(s, c) = "allow"
    <3>1. call' = [call EXCEPT ![j] = [judged EXCEPT !.at = "runs"]]
        BY <1>5, <2>4 DEF CallJudged
    <3> HIDE DEF judged
    <3> QED
        BY <1>2, <2>1, <3>1
  <2>5. CASE Verdict(s, c) = "deny"
    <3>1. call' = call
        BY <1>5, <2>5 DEF CallJudged
    <3> QED
        BY <1>3, <3>1
  <2> QED
      BY <2>2, <2>3, <2>4, <2>5, Verdicts
<1>6. ASSUME NEW j \in AskedCalls, Classified(j) \/ Acquires(j) \/ ActsOnAnswer(j) \/ CallOver(j) PROVE FALSE
  <2>1. j # i
      BY <1>6 DEF Classified, Acquires, ActsOnAnswer, CallOver
  <2>2. CASE Classified(j)
      BY <1>2, <1>4, <2>1, <2>2 DEF Classified
  <2>3. CASE Acquires(j)
      BY <1>1, <2>1, <2>3 DEF Acquires
  <2>4. CASE ActsOnAnswer(j)
      BY <1>1, <2>1, <2>4 DEF ActsOnAnswer, ActedOn
  <2>5. CASE CallOver(j)
      BY <1>2, <2>1, <2>5 DEF CallOver
  <2> QED
      BY <1>6, <2>2, <2>3, <2>4, <2>5
<1>7. ASSUME NEW j \in AskedCalls, NEW said \in Replies, Answers(j, said) \/ ReadsAnswer(j, said) PROVE FALSE
  <2>1. j # i
      BY <1>7 DEF Answers, ReadsAnswer
  <2> QED
      BY <1>1, <1>7, <2>1 DEF Answers, ReadsAnswer, ActedOn
<1>8. ASSUME NEW s \in Terminals, SessionEnds(s) PROVE FALSE
    BY <1>8, FreshCall DEF SessionEnds
<1>9. ASSUME NEW s \in Terminals, PromptCloses(s) PROVE FALSE
    BY <1>1, <1>9, FailsClosed DEF PromptCloses
<1>10. ASSUME NEW s \in Terminals, SessionStarts(s) \/ PlanToggles(s) \/ PromptOpens(s) PROVE FALSE
    BY <1>3, <1>10 DEF SessionStarts, PlanToggles, PromptOpens
<1>11. CASE UNCHANGED approvalVars
    BY <1>3, <1>11 DEF approvalVars
<1> QED
    BY <1>5, <1>6, <1>7, <1>8, <1>9, <1>10, <1>11 DEF ApprovalNext

\* What the judgement records of the call it brings.
LEMMA JudgedAs ==
    ASSUME ApprovalInv, NEW i \in AskedCalls, NEW s \in Terminals, NEW c \in Commands,
           CallJudged(i, s, c), call'[i].at # "new"
    PROVE  /\ s \in live /\ call'[i].by = s /\ call'[i].cmd = c /\ Verdict(s, c) # "deny"
           /\ call'[i].asked = (Verdict(s, c) = "ask")
<1> DEFINE judged == [NotAsked EXCEPT !.by = s, !.cmd = c, !.asked = (Verdict(s, c) = "ask")]
           to(at) == [judged EXCEPT !.at = at]
           Good(after) == after.by = s /\ after.cmd = c /\ after.asked = (Verdict(s, c) = "ask")
<1>1. s \in live /\ call[i].at = "new" /\ call \in [AskedCalls -> CallType]
    BY DEF CallJudged, CallAt, ApprovalInv, CallsJudged
<1>2. judged \in CallType /\ Good(judged)
    BY FreshCall DEF CallType, NotAsked
<1>3. \A at : Good(to(at))
    BY <1>2 DEF CallType
<1>4. \A at, now : Good([judged EXCEPT !.at = at, !.current = now])
    BY <1>2 DEF CallType
<1>5. ASSUME Good(call'[i]), Verdict(s, c) # "deny"
      PROVE  /\ call'[i].by = s /\ call'[i].cmd = c /\ Verdict(s, c) # "deny"
             /\ call'[i].asked = (Verdict(s, c) = "ask")
    BY <1>5
<1> HIDE DEF judged, Good
<1>6. CASE Verdict(s, c) = "ask" /\ c.tool # "shell"
  <2>1. Question(i, s, judged)
      BY <1>6 DEF CallJudged, judged
  <2>2. PICK after : /\ call' = [call EXCEPT ![i] = after]
                     /\ \/ after = NotAsked
                        \/ after = to("runs")
                        \/ \E at : after = [judged EXCEPT !.at = at, !.current = mounted[s]]
    <3>1. \/ \E after \in {NotAsked, to("runs")} : call' = [call EXCEPT ![i] = after]
          \/ \E at : call' = [call EXCEPT ![i] = [judged EXCEPT !.at = at, !.current = mounted[s]]]
        BY <2>1 DEF Question
    <3> QED
        BY <3>1
  <2>3. after # NotAsked /\ call'[i] = after
      BY <1>1, <2>2, FreshCall
  <2>4. Good(after)
    <3>1. CASE after = to("runs")
        BY <1>3, <3>1
    <3>2. CASE \E at : after = [judged EXCEPT !.at = at, !.current = mounted[s]]
      <4>1. PICK at : after = [judged EXCEPT !.at = at, !.current = mounted[s]]
          BY <3>2
      <4>2. Good([judged EXCEPT !.at = at, !.current = mounted[s]])
          BY <1>4
      <4> QED
          BY <4>1, <4>2
    <3> QED
        BY <2>2, <2>3, <3>1, <3>2
  <2> QED
      BY <1>1, <1>5, <1>6, <2>3, <2>4
<1>7. CASE (Verdict(s, c) = "ask" /\ c.tool = "shell") \/ Verdict(s, c) = "allow"
  <2>1. call' = [call EXCEPT ![i] = to("judged")] \/ call' = [call EXCEPT ![i] = to("runs")]
      BY <1>7 DEF CallJudged, judged
  <2>2. Good(call'[i])
      BY <1>1, <1>3, <2>1
  <2> QED
      BY <1>1, <1>5, <1>7, <2>2
<1>8. CASE Verdict(s, c) = "deny"
  <2>1. call' = call
      BY <1>8 DEF CallJudged
  <2> QED
      BY <1>1, <2>1
<1> QED
    BY <1>6, <1>7, <1>8, Verdicts

\* Where nobody is asked, rules that somebody made let every word pass; where the
\* user is asked, some word is in nothing that was allowed for good.
LEMMA JudgementStep ==
    ASSUME ApprovalInv, [ApprovalNext]_approvalVars, NEW i \in AskedCalls, call[i].at = "new"
    PROVE  /\ /\ CallAt(i, "runs")' /\ ~call'[i].asked /\ call'[i].cmd.verdict = "ask"
              /\ ~ModeAllows(call'[i].by, call'[i].cmd)
              => \A w \in call'[i].cmd.parts : UserAllows(w) \/ SettingsAllow(w)
           /\ call'[i].asked /\ apart /\ call'[i].cmd.plain =>
                \E w \in call'[i].cmd.parts : ~UserAllows(w)
<1>1. CASE call'[i].at = "new"
  <2>1. CallsJudged'
      BY ApprovalStep DEF ApprovalInv
  <2>2. call'[i].asked = FALSE
      BY <1>1, <2>1 DEF CallsJudged
  <2> QED
      BY <1>1, <2>2 DEF CallAt
<1>2. CASE call'[i].at # "new"
  <2>1. PICK s \in Terminals, c \in Commands : CallJudged(i, s, c)
      BY <1>2, OnlyJudged
  <2>2. /\ s \in live /\ call'[i].by = s /\ call'[i].cmd = c /\ Verdict(s, c) # "deny"
        /\ call'[i].asked = (Verdict(s, c) = "ask")
      BY <1>2, <2>1, JudgedAs
  <2>3. c.parts \subseteq Words /\ RulesKnown
      BY ApprovalConstants DEF ApprovalConstants, CommandType, ApprovalInv
  <2>4. ASSUME ~call'[i].asked, c.verdict = "ask", ~ModeAllows(s, c), NEW w \in c.parts
        PROVE  UserAllows(w) \/ SettingsAllow(w)
    <3>1. Verdict(s, c) = "allow"
        BY <2>2, <2>4, Verdicts
    <3>2. Allowed(rules[s], c)
        BY <2>4, <3>1 DEF Verdict, ModeAllows
    <3>3. PICK r \in rules[s] : r.behavior = "allow" /\ w \in r.covers
        BY <2>4, <3>2 DEF Allowed
    <3> QED
        BY <2>3, <3>3 DEF RulesKnown, Justified
  <2>5. ASSUME call'[i].asked, apart, c.plain PROVE \E w \in c.parts : ~UserAllows(w)
    <3>1. Verdict(s, c) = "ask"
        BY <2>2, <2>5
    <3>2. ~Allowed(rules[s], c)
        BY <3>1 DEF Verdict
    <3>3. PICK w \in c.parts : ~\E r \in rules[s] : r.behavior = "allow" /\ w \in r.covers
        BY <2>5, <3>2 DEF Allowed
    <3>4. stored \subseteq rules[s]
        BY <2>2, <2>3, <2>5 DEF RulesKnown
    <3>5. ~UserAllows(w)
        BY <2>3, <2>5, <3>3, <3>4 DEF RulesKnown
    <3> QED
        BY <3>5
  <2> QED
      BY <2>2, <2>4, <2>5
<1> QED
    BY <1>1, <1>2

\* Whatever sessions of one user and their prompts do at the same time: a call
\* that runs matches no deny rule of its project's settings; the question on
\* display is the oldest, put to the prompt that is open; where the mode asks,
\* nothing that needs approval runs unasked unless rules that the user or a
\* project made cover all of it; and what was allowed for good is not asked again
\* while sessions stay apart and saves succeed (harness/permissions/service.py,
\* tools/permission_context.py, core/queued_input.py).
THEOREM ApprovalsStaySound == ApprovalSpec => ApprovalsAreSound
<1>1. ApprovalSpec => []ApprovalInv /\ [][ApprovalNext]_approvalVars
    BY ApprovalStart, ApprovalStep, PTL DEF ApprovalSpec
<1>2. ApprovalInv /\ [ApprovalNext]_approvalVars =>
        [\A i \in AskedCalls :
            /\ CallAt(i, "new") /\ CallAt(i, "runs")' /\ ~call'[i].asked
            /\ call'[i].cmd.verdict = "ask" /\ ~ModeAllows(call'[i].by, call'[i].cmd)
            => \A w \in call'[i].cmd.parts :
                    \/ \E c \in granted, v \in Words : c.parts = {v} /\ w \in Family[v]
                    \/ \E s \in Terminals : \E r \in Settings[s] :
                            r.behavior = "allow" /\ w \in r.covers]_approvalVars
  <2> SUFFICES ASSUME ApprovalInv, [ApprovalNext]_approvalVars, NEW i \in AskedCalls,
                      CallAt(i, "new"), CallAt(i, "runs")', ~call'[i].asked,
                      call'[i].cmd.verdict = "ask", ~ModeAllows(call'[i].by, call'[i].cmd),
                      NEW w \in call'[i].cmd.parts
               PROVE  UserAllows(w) \/ SettingsAllow(w)
      BY DEF UserAllows, SettingsAllow
  <2> QED
      BY JudgementStep DEF CallAt
<1>3. ApprovalInv /\ [ApprovalNext]_approvalVars =>
        [\A i \in AskedCalls :
            CallAt(i, "new") /\ call'[i].asked /\ apart /\ call'[i].cmd.plain =>
                \E w \in call'[i].cmd.parts :
                    \A c \in granted, v \in Words : c.parts = {v} => w \notin Family[v]]_approvalVars
  <2> SUFFICES ASSUME ApprovalInv, [ApprovalNext]_approvalVars, NEW i \in AskedCalls,
                      CallAt(i, "new"), call'[i].asked, apart, call'[i].cmd.plain
               PROVE  \E w \in call'[i].cmd.parts : ~UserAllows(w)
      BY DEF UserAllows
  <2> QED
      BY JudgementStep DEF CallAt
<1> QED
    BY <1>1, <1>2, <1>3, SettingsObeyed, PTL DEF ApprovalsAreSound, NothingSlipsThrough, AlwaysHonoured

-----------------------------------------------------------------------------
(* The history: who may rewrite it, into what, and what is known of the    *)
(* tools in it while a run reads it.                                       *)

\* Calls and outputs come in pairs.
Balanced(items) == Paired(Range(items)) = Range(items)

\* So they do, but for the call that is open.
BalancedBut(items, open) ==
    /\ \A i \in Range(items) :
          IsTool(i) => \/ {Item("call", i.n), Item("output", i.n)} \subseteq Range(items)
                       \/ open # 0 /\ i.n = open
    /\ open # 0 => Item("call", open) \in Range(items)

FrontPlaces ==
    {"idle", "settle", "repair", "preflight", "run", "capture", "compact", "summarize", "replace"}
CompactJobs == {"preflight", "overflow", "capture", "compact"}
FrontRecords ==
    [at : FrontPlaces, job : Jobs, seen : Seq(Items), next : Seq(Items), cancelled : BOOLEAN]

\* The rewrites no run crosses.
QuietJobs == {"repair", "preflight", "overflow"}

TranscriptTyped ==
    /\ history \in Seq(Items) /\ written \subseteq Items \ {FileItem} /\ accounted \subseteq Items
    /\ sdk \in {"none", "started", "running", "late"} /\ calling \in 0 .. MaxToolCalls
    /\ worker \in {"none", "writing", "committing", "committed", "rolledBack", "failed"}
    /\ front \in FrontRecords
    /\ asked \in 0 .. MaxAsked /\ called \in 0 .. MaxToolCalls
    /\ unrepaired \in BOOLEAN /\ crossed \in BOOLEAN

\* Who is where, and with whom.
FrontPlaced ==
    /\ front.at = "idle" => front = IdleFront
    /\ front.at \in {"settle", "repair"} => front.job = "turn"
    /\ front.at = "preflight" => front.job \in {"turn", "preflight"}
    /\ front.at \in {"run", "capture"} => front.job \in {"turn", "preflight", "overflow"}
    /\ front.at \in {"compact", "summarize"} => front.job \in CompactJobs
    /\ front.at = "replace" => front.job \in CompactJobs \cup {"repair", "rewind"}
    /\ front.at = "replace" <=> worker # "none"
    /\ front.job \notin {"none", "compact", "rewind"} => asked > 0

SdkPlaced ==
    /\ front.at = "run" <=> sdk \in {"started", "running"}
    /\ sdk = "late" => \/ front.at \in {"idle", "settle", "capture"}
                       \/ front.job \in {"capture", "compact", "rewind"}
    /\ sdk \in {"none", "started"} => calling = 0

\* What is rewritten into what.
RewritesKnown ==
    /\ front.at \in {"summarize", "replace"} /\ front.job \in QuietJobs =>
          history = IF worker = "committed" THEN front.next ELSE front.seen
    /\ front.at = "replace" /\ front.job \in CompactJobs =>
          front.next = Compacted(Compactable(front.seen))
    /\ front.at = "replace" /\ front.job = "repair" => front.next = Replayable(front.seen)

\* What is known of the tools in the history, unless their repair failed.
ToolsKnown ==
    /\ (\/ front.at = "preflight"
        \/ front.at \in {"compact", "summarize", "replace"} /\ front.job \in {"preflight", "overflow"})
          => Balanced(history)
    /\ sdk \in {"started", "running"} => BalancedBut(history, calling)
    /\ (front.at = "preflight" \/ sdk = "started") /\ front.job = "turn" => ~EndsWithPair(history)

TranscriptInv ==
    /\ TranscriptTyped /\ FrontPlaced /\ SdkPlaced /\ RewritesKnown
    /\ unrepaired \/ ToolsKnown
    /\ TranscriptKept

\* Induction on the naturals up to a bound, for the members of a set.
LEMMA CountUp ==
    ASSUME NEW N \in Nat, NEW H, 0 \in H, \A n \in 0 .. N - 1 : n \in H => n + 1 \in H
    PROVE  \A n \in 0 .. N : n \in H
<1> DEFINE T == {n \in 0 .. N : n \notin H}
<1> SUFFICES ASSUME T # {} PROVE FALSE
  OBVIOUS
<1>1. T \subseteq Nat /\ T # {}
  OBVIOUS
<1>2. \E x \in T : \A y \in T : <<y, x>> \notin OpToRel(<, Nat)
  <2> HIDE DEF T
  <2> QED
    BY <1>1, WFMin, NatLessThanWellFounded, Zenon
<1>3. PICK x \in T : \A y \in T : <<y, x>> \notin OpToRel(<, Nat)
  BY ONLY <1>2, Zenon
<1>4. \A y \in T : ~(y < x)
  <2> HIDE DEF T
  <2>1. \A y \in T : y \in Nat /\ x \in Nat
    BY <1>1
  <2> QED
    BY ONLY <1>3, <2>1, Zenon DEF OpToRel
<1>5. x # 0 /\ x \in 0 .. N /\ x \notin H
  OBVIOUS
<1>6. x - 1 \in 0 .. N - 1 /\ x - 1 + 1 = x
  BY <1>5
<1>7. x - 1 \notin H
  BY <1>5, <1>6
<1>8. x - 1 \in T
  BY <1>6, <1>7
<1> QED
  BY <1>4, <1>8, <1>5

OnlyStep(s, kept, f, n) ==
    IF n = 0 THEN <<>> ELSE IF s[n] \in kept THEN Append(f[n - 1], s[n]) ELSE f[n - 1]

\* The function by which Only is defined exists.
LEMMA OnlyUnfolds ==
    ASSUME NEW s, NEW kept, Len(s) \in Nat
    PROVE  \E f : /\ f = [n \in 0 .. Len(s) |-> OnlyStep(s, kept, f, n)]
                  /\ Only(s, kept) = f[Len(s)]
<1> DEFINE H == {m \in 0 .. Len(s) : \E f : f = [n \in 0 .. m |-> OnlyStep(s, kept, f, n)]}
<1>1. 0 \in H
  <2> DEFINE g == [n \in 0 .. 0 |-> <<>>]
  <2>1. g = [n \in 0 .. 0 |-> OnlyStep(s, kept, g, n)]
    BY DEF OnlyStep
  <2> QED
    BY <2>1
<1>2. ASSUME NEW m \in 0 .. Len(s) - 1, m \in H
      PROVE  m + 1 \in H
  <2>1. PICK f : f = [n \in 0 .. m |-> OnlyStep(s, kept, f, n)]
    BY <1>2
  <2> DEFINE g == [n \in 0 .. m + 1 |-> IF n = m + 1 THEN OnlyStep(s, kept, f, n) ELSE f[n]]
  <2>2. \A n \in 0 .. m + 1 : g[n] = OnlyStep(s, kept, g, n)
    <3> SUFFICES ASSUME NEW n \in 0 .. m + 1 PROVE g[n] = OnlyStep(s, kept, g, n)
      OBVIOUS
    <3>1. CASE n = 0
      BY <2>1, <3>1 DEF OnlyStep
    <3>2. CASE n # 0
      <4>1. n - 1 \in 0 .. m /\ n - 1 \in 0 .. m + 1 /\ n - 1 # m + 1
        BY <3>2
      <4>2. g[n - 1] = f[n - 1]
        BY <4>1
      <4>3. OnlyStep(s, kept, g, n) = OnlyStep(s, kept, f, n)
        BY <4>2 DEF OnlyStep
      <4>4. g[n] = OnlyStep(s, kept, f, n)
        BY <2>1
      <4> QED
        BY <4>3, <4>4
    <3> QED
      BY <3>1, <3>2
  <2>3. g = [n \in 0 .. m + 1 |-> OnlyStep(s, kept, g, n)]
    BY <2>2
  <2>4. m + 1 \in 0 .. Len(s)
    OBVIOUS
  <2> QED
    BY <2>3, <2>4
<1>3. Len(s) \in H
  <2> HIDE DEF H
  <2>1. \A m \in 0 .. Len(s) : m \in H
    BY ONLY <1>1, <1>2, CountUp, Len(s) \in Nat
  <2> QED
    BY <2>1
<1>4. PICK f : f = [n \in 0 .. Len(s) |-> OnlyStep(s, kept, f, n)]
  BY <1>3
<1> DEFINE h == CHOOSE g : g = [n \in 0 .. Len(s) |-> OnlyStep(s, kept, g, n)]
<1>5. h = [n \in 0 .. Len(s) |-> OnlyStep(s, kept, h, n)]
  BY <1>4
<1>6. Only(s, kept) = h[Len(s)]
  BY DEF Only, OnlyStep
<1> QED
  BY <1>5, <1>6

\* The items of a sequence are what stands at its positions.
LEMMA ItemsOfSeq ==
    ASSUME NEW S, NEW s \in Seq(S)
    PROVE  /\ \A x : x \in Range(s) <=> \E i \in 1 .. Len(s) : x = s[i]
           /\ Range(s) \subseteq S
<1>1. DOMAIN s = 1 .. Len(s) /\ \A i \in 1 .. Len(s) : s[i] \in S
  BY LenProperties
<1>2. Range(s) = {s[i] : i \in 1 .. Len(s)}
  BY RangeEquality
<1> QED
  BY <1>1, <1>2

\* What an append makes of the items.
LEMMA AppendRange ==
    ASSUME NEW S, NEW s \in Seq(S), NEW e \in S
    PROVE  Range(Append(s, e)) = Range(s) \cup {e}
<1>1. PICK t : t = Append(s, e)
  OBVIOUS
<1>2. /\ t \in Seq(S) /\ Len(t) = Len(s) + 1 /\ Len(s) \in Nat
      /\ \A i \in 1 .. Len(s) : t[i] = s[i]
      /\ t[Len(s) + 1] = e
  BY <1>1, AppendProperties, LenProperties
<1>3. /\ \A x : x \in Range(t) <=> \E i \in 1 .. Len(t) : x = t[i]
      /\ \A x : x \in Range(s) <=> \E i \in 1 .. Len(s) : x = s[i]
  BY <1>2, ItemsOfSeq
<1>4. Range(t) = Range(s) \cup {e}
  <2>1. \A i \in 1 .. Len(t) : i \in 1 .. Len(s) \/ i = Len(s) + 1
    BY ONLY <1>2
  <2>2. /\ Len(s) + 1 \in 1 .. Len(t)
        /\ \A i \in 1 .. Len(s) : i \in 1 .. Len(t)
    BY ONLY <1>2
  <2> QED
    BY ONLY <1>2, <1>3, <2>1, <2>2
<1> QED
  BY <1>1, <1>4

\* A part of a sequence has items of the whole only.
LEMMA SubSeqRange ==
    ASSUME NEW S, NEW s \in Seq(S), NEW m \in Nat \ {0}, NEW n \in 0 .. Len(s)
    PROVE  /\ SubSeq(s, m, n) \in Seq(S)
           /\ \A x : x \in Range(SubSeq(s, m, n)) <=> \E i \in m .. n : x = s[i]
           /\ Range(SubSeq(s, m, n)) \subseteq Range(s)
<1>1. PICK t : t = SubSeq(s, m, n)
  OBVIOUS
<1>2. /\ Len(s) \in Nat /\ n \in Nat /\ \A i \in m .. n : i \in 1 .. Len(s) /\ s[i] \in S
  BY LenProperties
<1>3. /\ t \in Seq(S) /\ Len(t) = IF m <= n THEN n - m + 1 ELSE 0
      /\ \A i \in 1 .. n - m + 1 : t[i] = s[m + i - 1]
  BY <1>1, <1>2, SubSeqProperties
<1>4. /\ \A x : x \in Range(t) <=> \E i \in 1 .. Len(t) : x = t[i]
      /\ \A x : x \in Range(s) <=> \E i \in 1 .. Len(s) : x = s[i]
  BY <1>3, ItemsOfSeq
<1>5. \A i \in 1 .. Len(t) : m + i - 1 \in m .. n /\ t[i] = s[m + i - 1]
  BY ONLY <1>3, <1>2, m \in Nat
<1>6. \A i \in m .. n : i - m + 1 \in 1 .. Len(t) /\ t[i - m + 1] = s[i]
  BY ONLY <1>3, <1>2, m \in Nat
<1>7. \A x : x \in Range(t) <=> \E i \in m .. n : x = s[i]
  <2>1. ASSUME NEW x \in Range(t) PROVE \E i \in m .. n : x = s[i]
    BY ONLY x \in Range(t), <1>4, <1>5
  <2>2. ASSUME NEW i \in m .. n PROVE s[i] \in Range(t)
    BY ONLY i \in m .. n, <1>4, <1>6
  <2> QED
    BY <2>1, <2>2
<1>8. Range(t) \subseteq Range(s)
  BY ONLY <1>7, <1>4, <1>2
<1> QED
  BY <1>1, <1>3, <1>7, <1>8

\* The sequence that Only returns has the items of the set and no others, and is
\* the whole where the set holds them all.
LEMMA OnlyFacts ==
    ASSUME NEW S, NEW s \in Seq(S), NEW kept
    PROVE  /\ Only(s, kept) \in Seq(S)
           /\ Range(Only(s, kept)) = Range(s) \cap kept
           /\ Only(s, kept) = s <=> Range(s) \subseteq kept
<1> Len(s) \in Nat
  BY LenProperties
<1>1. PICK f : /\ f = [n \in 0 .. Len(s) |-> OnlyStep(s, kept, f, n)]
               /\ Only(s, kept) = f[Len(s)]
  BY OnlyUnfolds
<1> DEFINE Seen(n) == {s[i] : i \in 1 .. n}
           H == {n \in 0 .. Len(s) : /\ f[n] \in Seq(S) /\ Len(f[n]) <= n
                                     /\ Range(f[n]) = Seen(n) \cap kept
                                     /\ Seen(n) \subseteq kept =>
                                          Len(f[n]) = n /\ \A i \in 1 .. n : f[n][i] = s[i]}
<1>2. 0 \in H
  <2>1. f[0] = <<>>
    BY <1>1 DEF OnlyStep
  <2>2. Range(<<>>) = {} /\ Seen(0) = {} /\ <<>> \in Seq(S) /\ Len(<<>>) = 0 /\ 1 .. 0 = {}
    BY DEF Range
  <2>3. /\ f[0] \in Seq(S) /\ Len(f[0]) <= 0 /\ Range(f[0]) = Seen(0) \cap kept
        /\ Len(f[0]) = 0
    <3> HIDE DEF Seen
    <3> QED
      BY ONLY <2>1, <2>2
  <2>4. 0 \in 0 .. Len(s) /\ \A i \in 1 .. 0 : f[0][i] = s[i]
    BY <2>2
  <2> HIDE DEF Seen
  <2> QED
    BY <2>3, <2>4
<1>3. ASSUME NEW n \in 0 .. Len(s) - 1, n \in H
      PROVE  n + 1 \in H
  <2>1. /\ n + 1 \in 0 .. Len(s) /\ n + 1 # 0 /\ n + 1 - 1 = n /\ n + 1 \in 1 .. Len(s)
        /\ n \in Nat
    OBVIOUS
  <2>2. f[n + 1] = IF s[n + 1] \in kept THEN Append(f[n], s[n + 1]) ELSE f[n]
    <3>1. f[n + 1] = OnlyStep(s, kept, f, n + 1)
      BY <1>1, <2>1
    <3> QED
      BY <3>1, <2>1 DEF OnlyStep
  <2>3. s[n + 1] \in S
    BY <2>1
  <2>4. Seen(n + 1) = Seen(n) \cup {s[n + 1]}
    BY <2>1
  <2>5. CASE s[n + 1] \in kept
    <3>1. /\ f[n + 1] = Append(f[n], s[n + 1]) /\ f[n] \in Seq(S) /\ Len(f[n]) <= n
          /\ Range(f[n]) = Seen(n) \cap kept
          /\ Seen(n) \subseteq kept => Len(f[n]) = n /\ \A i \in 1 .. n : f[n][i] = s[i]
      BY <1>3, <2>2, <2>5
    <3>2. /\ f[n + 1] \in Seq(S) /\ Len(f[n + 1]) = Len(f[n]) + 1
          /\ \A i \in 1 .. Len(f[n]) : f[n + 1][i] = f[n][i]
          /\ f[n + 1][Len(f[n]) + 1] = s[n + 1]
      BY <3>1, <2>3, AppendProperties
    <3>3. Range(f[n + 1]) = Range(f[n]) \cup {s[n + 1]}
      BY <3>1, <2>3, AppendRange
    <3>4. Seen(n + 1) \subseteq kept =>
             Len(f[n + 1]) = n + 1 /\ \A i \in 1 .. n + 1 : f[n + 1][i] = s[i]
      <4> SUFFICES ASSUME Seen(n + 1) \subseteq kept
                   PROVE  Len(f[n + 1]) = n + 1 /\ \A i \in 1 .. n + 1 : f[n + 1][i] = s[i]
        OBVIOUS
      <4>1. Len(f[n]) = n /\ \A i \in 1 .. n : f[n][i] = s[i]
        BY <2>4, <3>1
      <4> QED
        BY ONLY <4>1, <3>2, <2>1
    <3>5. Len(f[n + 1]) <= n + 1
      BY <3>1, <3>2, <2>1, LenProperties
    <3>6. Range(f[n + 1]) = Seen(n + 1) \cap kept
      <4> HIDE DEF Seen
      <4> QED
        BY ONLY <3>3, <3>1, <2>4, <2>5
    <3> QED
      BY <2>1, <3>2, <3>4, <3>5, <3>6
  <2>6. CASE s[n + 1] \notin kept
    <3>1. /\ f[n + 1] = f[n] /\ f[n] \in Seq(S) /\ Len(f[n]) <= n
          /\ Range(f[n]) = Seen(n) \cap kept
      BY <1>3, <2>2, <2>6
    <3>2. Range(f[n + 1]) = Seen(n + 1) \cap kept /\ ~(Seen(n + 1) \subseteq kept)
      <4> HIDE DEF Seen
      <4> QED
        BY ONLY <3>1, <2>4, <2>6
    <3>3. Len(f[n + 1]) <= n + 1
      BY <3>1, <2>1, LenProperties
    <3> QED
      BY <2>1, <3>1, <3>2, <3>3
  <2> QED
    BY <2>5, <2>6
<1>4. Len(s) \in H
  <2> HIDE DEF H
  <2>1. Len(s) \in Nat
    BY LenProperties
  <2>2. \A n \in 0 .. Len(s) : n \in H
    BY ONLY <1>2, <1>3, <2>1, CountUp
  <2> QED
    BY <2>1, <2>2
<1>5. /\ Only(s, kept) \in Seq(S) /\ Range(Only(s, kept)) = Seen(Len(s)) \cap kept
      /\ Seen(Len(s)) \subseteq kept =>
           Len(Only(s, kept)) = Len(s) /\ \A i \in 1 .. Len(s) : Only(s, kept)[i] = s[i]
  BY <1>1, <1>4
<1>6. Seen(Len(s)) = Range(s)
  BY DEF Range
<1>7. Range(s) \subseteq kept => Only(s, kept) = s
  <2> HIDE DEF Seen
  <2> QED
    BY <1>5, <1>6, SeqEqual
<1>8. Only(s, kept) = s => Range(s) \subseteq kept
  <2> HIDE DEF Seen
  <2> QED
    BY <1>5, <1>6
<1> QED
  <2> HIDE DEF Seen
  <2> QED
    BY <1>5, <1>6, <1>7, <1>8

-----------------------------------------------------------------------------
(* What the rewrites make of the items.                                    *)

\* Pairs are kept where every item of a set that belongs to a pair is.
LEMMA PairedFacts ==
    ASSUME NEW X
    PROVE  Paired(X) \subseteq X /\ Paired(Paired(X)) = Paired(X)
<1>1. ASSUME NEW i \in Paired(X), IsTool(i)
      PROVE  Item("call", i.n) \in Paired(X) /\ Item("output", i.n) \in Paired(X)
  <2>1. Item("call", i.n) \in X /\ Item("output", i.n) \in X
    BY <1>1 DEF Paired
  <2>2. Item("call", i.n).n = i.n /\ Item("output", i.n).n = i.n
    BY DEF Item
  <2> QED
    BY <2>1, <2>2 DEF Paired
<1> QED
  BY <1>1 DEF Paired

\* A repair leaves pairs only, and leaves pairs alone.
LEMMA ReplayableFacts ==
    ASSUME NEW s \in Seq(Items)
    PROVE  /\ Replayable(s) \in Seq(Items)
           /\ Range(Replayable(s)) = Paired(Range(s))
           /\ Balanced(Replayable(s))
           /\ Replayable(s) = s <=> Balanced(s)
<1> DEFINE kept == Paired(Range(s))
<1>1. kept \subseteq Range(s) /\ Paired(kept) = kept
  BY PairedFacts
<1> HIDE DEF kept
<1>2. /\ Only(s, kept) \in Seq(Items) /\ Range(Only(s, kept)) = Range(s) \cap kept
      /\ Only(s, kept) = s <=> Range(s) \subseteq kept
  BY OnlyFacts
<1>3. Range(Only(s, kept)) = kept
  BY <1>1, <1>2
<1>4. Replayable(s) = Only(s, kept)
  BY DEF Replayable, kept
<1>5. kept = Paired(Range(s))
  BY DEF kept
<1>6. Balanced(s) <=> kept = Range(s)
  BY <1>5 DEF Balanced
<1>7. Balanced(Replayable(s))
  BY <1>1, <1>3, <1>4 DEF Balanced
<1> QED
  BY <1>1, <1>2, <1>3, <1>4, <1>5, <1>6, <1>7

\* The kinds of items there are.
LEMMA ItemKinds ==
    /\ Marker \in Items /\ Summary \in Items /\ FileItem \in Items
    /\ ~IsTool(Marker) /\ ~IsTool(Summary) /\ ~IsTool(FileItem)
    /\ Marker # FileItem
    /\ \A i : IsPlain(i) => ~IsTool(i)
    /\ \A n : /\ Item("call", n) # FileItem /\ Item("output", n) # FileItem
              /\ Item("user", n) # FileItem /\ Item("text", n) # FileItem
              /\ IsTool(Item("call", n)) /\ IsTool(Item("output", n))
              /\ ~IsTool(Item("user", n)) /\ ~IsTool(Item("text", n))
              /\ Item("call", n).n = n /\ Item("output", n).n = n
  BY DEF Items, Marker, Summary, FileItem, Item, IsTool, IsPlain

\* What a compaction starts from lacks restored files, and no pair.
LEMMA CompactableFacts ==
    ASSUME NEW s \in Seq(Items)
    PROVE  /\ Compactable(s) \in Seq(Items)
           /\ Range(Compactable(s)) = Range(s) \ {FileItem}
           /\ Balanced(s) => Balanced(Compactable(s))
<1> DEFINE kept == Range(s) \ {FileItem}
<1>1. Compactable(s) = Only(s, kept)
  BY DEF Compactable
<1>2. Only(s, kept) \in Seq(Items) /\ Range(Only(s, kept)) = Range(s) \cap kept
  BY OnlyFacts
<1>3. Range(Compactable(s)) = Range(s) \ {FileItem}
  BY <1>1, <1>2
<1>4. ASSUME Balanced(s) PROVE Balanced(Compactable(s))
  <2>1. Paired(Range(s)) = Range(s)
    BY <1>4 DEF Balanced
  <2>2. Paired(kept) = kept
    BY <2>1, ItemKinds DEF Paired
  <2> QED
    BY <2>2, <1>3 DEF Balanced
<1> QED
  BY <1>1, <1>2, <1>3, <1>4

\* Where the trailing tools start.
StartsTail(s, n) ==
    /\ \A i \in n .. Len(s) : IsTool(s[i])
    /\ n > 1 => ~IsTool(s[n - 1])

\* A sequence has one longest end of tool items.
LEMMA TailStarts ==
    ASSUME NEW s, Len(s) \in Nat
    PROVE  \E n \in 1 .. Len(s) + 1 : StartsTail(s, n)
<1> DEFINE H == {k \in 0 .. Len(s) : \A i \in Len(s) + 1 - k .. Len(s) : IsTool(s[i])}
<1> SUFFICES ASSUME \A n \in 1 .. Len(s) + 1 : ~StartsTail(s, n) PROVE FALSE
  OBVIOUS
<1>1. 0 \in H
  OBVIOUS
<1>2. ASSUME NEW k \in 0 .. Len(s) - 1, k \in H PROVE k + 1 \in H
  <2> DEFINE n == Len(s) + 1 - k
  <2>1. n \in 1 .. Len(s) + 1 /\ n > 1 /\ \A i \in n .. Len(s) : IsTool(s[i])
    BY <1>2
  <2>2. IsTool(s[n - 1])
    BY <2>1 DEF StartsTail
  <2>3. /\ k + 1 \in 0 .. Len(s) /\ Len(s) + 1 - (k + 1) = n - 1
        /\ \A i \in n - 1 .. Len(s) : i = n - 1 \/ i \in n .. Len(s)
    BY <2>1
  <2>4. \A i \in n - 1 .. Len(s) : IsTool(s[i])
    BY <2>1, <2>2, <2>3
  <2> HIDE DEF n
  <2> QED
    BY <2>3, <2>4
<1>3. Len(s) \in H
  <2> HIDE DEF H
  <2>1. \A k \in 0 .. Len(s) : k \in H
    BY ONLY <1>1, <1>2, CountUp, Len(s) \in Nat
  <2> QED
    BY <2>1
<1>4. \A i \in 1 .. Len(s) : IsTool(s[i])
  BY <1>3
<1>5. StartsTail(s, 1) /\ 1 \in 1 .. Len(s) + 1
  BY <1>4 DEF StartsTail
<1> QED
  BY <1>5

\* The tool items at the end are items of the whole.
LEMMA TrailingFacts ==
    ASSUME NEW s \in Seq(Items)
    PROVE  TrailingTools(s) \in Seq(Items) /\ Range(TrailingTools(s)) \subseteq Range(s)
<1>1. Len(s) \in Nat
  BY LenProperties
<1> DEFINE start == CHOOSE n \in 1 .. Len(s) + 1 : StartsTail(s, n)
<1>2. TrailingTools(s) = SubSeq(s, start, Len(s))
  BY DEF TrailingTools, StartsTail
<1>3. start \in 1 .. Len(s) + 1
  BY <1>1, TailStarts
<1> HIDE DEF start
<1>4. start \in Nat \ {0} /\ Len(s) \in 0 .. Len(s)
  BY <1>1, <1>3
<1> QED
  BY <1>2, <1>4, SubSeqRange

\* Where something else than a tool item stands last, no pair does.
LEMMA TrailingNothing ==
    ASSUME NEW s \in Seq(Items)
    PROVE  TrailingTools(Append(s, Marker)) = <<>>
<1>1. PICK t : t = Append(s, Marker)
  OBVIOUS
<1>2. /\ t \in Seq(Items) /\ Len(t) = Len(s) + 1 /\ Len(s) \in Nat
      /\ t[Len(s) + 1] = Marker
  BY <1>1, AppendProperties, LenProperties, ItemKinds
<1> DEFINE start == CHOOSE n \in 1 .. Len(t) + 1 : StartsTail(t, n)
<1>3. TrailingTools(t) = SubSeq(t, start, Len(t))
  BY DEF TrailingTools, StartsTail
<1>4. start \in 1 .. Len(t) + 1 /\ StartsTail(t, start)
  BY <1>2, TailStarts
<1> HIDE DEF start
<1>5. ~(start <= Len(t))
  <2> SUFFICES ASSUME start <= Len(t) PROVE FALSE
    OBVIOUS
  <2>1. Len(t) \in start .. Len(t)
    BY <1>2, <1>4
  <2>2. IsTool(t[Len(t)])
    BY <1>4, <2>1 DEF StartsTail
  <2> QED
    BY <2>2, <1>2, ItemKinds
<1>6. start \in Int /\ Len(t) \in Int /\ Len(t) < start
  BY <1>2, <1>4, <1>5
<1>7. SubSeq(t, start, Len(t)) = <<>>
  BY <1>6, SubSeqEmpty
<1> QED
  BY <1>1, <1>3, <1>7

\* A history that is closed ends with no pair.
LEMMA ClosedFacts ==
    ASSUME NEW s \in Seq(Items)
    PROVE  /\ Closed(s) \in Seq(Items)
           /\ Range(s) \subseteq Range(Closed(s))
           /\ ~EndsWithPair(Closed(s))
           /\ Balanced(s) => Balanced(Closed(s))
<1>1. CASE ~EndsWithPair(s)
  BY <1>1 DEF Closed
<1>2. CASE EndsWithPair(s)
  <2>1. PICK t : t = Append(s, Marker)
    OBVIOUS
  <2>2. /\ t \in Seq(Items) /\ Range(t) = Range(s) \cup {Marker}
    BY <2>1, AppendProperties, AppendRange, ItemKinds
  <2>3. ~EndsWithPair(t)
    BY <2>1, TrailingNothing DEF EndsWithPair
  <2>4. ASSUME Balanced(s) PROVE Balanced(t)
    BY <2>2, <2>4, ItemKinds DEF Balanced, Paired
  <2>5. Closed(s) = t
    BY <1>2, <2>1 DEF Closed
  <2> QED
    BY <2>2, <2>3, <2>4, <2>5
<1> QED
  BY <1>1, <1>2

\* What a compaction keeps are items of what it started from.
LEMMA KeptFacts ==
    ASSUME NEW m \in Seq(Items)
    PROVE  /\ Kept(m) \in Seq(Items) /\ Range(Kept(m)) \subseteq Range(m)
           /\ Balanced(Kept(m))
<1> DEFINE plain == Only(m, {i \in Range(m) : IsPlain(i)})
           first == 1 + (IF Len(plain) > KeepRecent THEN Len(plain) - KeepRecent ELSE 0)
           recent == SubSeq(plain, first, Len(plain))
           tools == TrailingPairs(m)
<1>1. /\ plain \in Seq(Items) /\ Range(plain) = Range(m) \cap {i \in Range(m) : IsPlain(i)}
  BY OnlyFacts
<1>2. Kept(m) = recent \o tools
  BY DEF Kept
<1>3. /\ tools \in Seq(Items) /\ Range(tools) \subseteq Range(m)
      /\ Paired(Range(tools)) = Range(tools)
  <2>1. PICK t : t = TrailingTools(m)
    OBVIOUS
  <2>2. t \in Seq(Items) /\ Range(t) \subseteq Range(m)
    BY <2>1, TrailingFacts
  <2>3. /\ Replayable(t) \in Seq(Items) /\ Range(Replayable(t)) = Paired(Range(t))
        /\ Balanced(Replayable(t))
    BY <2>2, ReplayableFacts
  <2>4. tools = Replayable(t)
    BY <2>1 DEF TrailingPairs
  <2> QED
    BY <2>2, <2>3, <2>4, PairedFacts DEF Balanced
<1> HIDE DEF plain, tools
<1>4. first \in Nat \ {0} /\ Len(plain) \in 0 .. Len(plain)
  BY <1>1, LenProperties, TranscriptConstants
<1> HIDE DEF first
<1>5. recent \in Seq(Items) /\ Range(recent) \subseteq Range(plain)
  BY <1>1, <1>4, SubSeqRange
<1> HIDE DEF recent
<1>6. Kept(m) \in Seq(Items) /\ Range(Kept(m)) = Range(recent) \cup Range(tools)
  BY <1>2, <1>3, <1>5, ConcatProperties, RangeConcatenation
<1>7. \A i \in Range(recent) : ~IsTool(i) /\ i \in Range(m)
  BY <1>1, <1>5, ItemKinds
<1>8. Paired(Range(Kept(m))) = Range(Kept(m))
  BY <1>3, <1>6, <1>7 DEF Paired
<1> QED
  BY <1>3, <1>6, <1>7, <1>8 DEF Balanced

\* What a compaction writes: paired items, and the summary of what it did not keep.
LEMMA CompactedFacts ==
    ASSUME NEW m \in Seq(Items)
    PROVE  /\ Compacted(m) \in Seq(Items)
           /\ Balanced(m) => Balanced(Compacted(m))
           /\ Range(m) \ Range(Compacted(m)) \subseteq Summarized(m)
           /\ Summarized(m) \subseteq Range(m)
<1>1. CASE AlreadyCompacted(m)
  BY <1>1 DEF Compacted, Summarized
<1>2. CASE ~AlreadyCompacted(m)
  <2> DEFINE first == IF Len(Kept(m)) < Len(m) THEN <<Summary>> ELSE <<>>
  <2>1. Compacted(m) = first \o Kept(m) /\ Summarized(m) = Range(m) \ Range(Kept(m))
    BY <1>2 DEF Compacted, Summarized
  <2>2. first \in Seq(Items) /\ Range(first) \subseteq {Summary}
    <3>1. <<>> \in Seq(Items) /\ <<Summary>> \in Seq(Items)
      BY ItemKinds
    <3>2. Range(<<>>) = {} /\ Range(<<Summary>>) = {Summary}
      BY DEF Range
    <3> QED
      BY <3>1, <3>2
  <2> HIDE DEF first
  <2>3. Kept(m) \in Seq(Items) /\ Range(Kept(m)) \subseteq Range(m) /\ Balanced(Kept(m))
    BY KeptFacts
  <2>4. Compacted(m) \in Seq(Items) /\ Range(Compacted(m)) = Range(first) \cup Range(Kept(m))
    BY <2>1, <2>2, <2>3, ConcatProperties, RangeConcatenation
  <2>5. Balanced(Compacted(m))
    BY <2>2, <2>3, <2>4, ItemKinds DEF Balanced, Paired
  <2> QED
    BY <2>1, <2>3, <2>4, <2>5
<1> QED
  BY <1>1, <1>2

-----------------------------------------------------------------------------
(* Who is where.                                                           *)

\* The items of the short sequences that are appended.
LEMMA ShortSeqs ==
    ASSUME NEW S
    PROVE  /\ <<>> \in Seq(S) /\ Range(<<>>) = {}
           /\ \A a \in S : <<a>> \in Seq(S) /\ Range(<<a>>) = {a}
           /\ \A a, b \in S : <<a, b>> \in Seq(S) /\ Range(<<a, b>>) = {a, b}
<1>1. Range(<<>>) = {}
  BY DEF Range
<1>2. \A a \in S : <<a>> \in Seq(S) /\ Range(<<a>>) = {a}
  BY DEF Range
<1>3. ASSUME NEW a \in S, NEW b \in S
      PROVE  <<a, b>> \in Seq(S) /\ Range(<<a, b>>) = {a, b}
  <2>1. <<a, b>> \in Seq(S) /\ Len(<<a, b>>) = 2
    OBVIOUS
  <2>2. PICK t : t = <<a, b>>
    OBVIOUS
  <2>3. t \in Seq(S) /\ Len(t) = 2 /\ t[1] = a /\ t[2] = b
    BY <2>1, <2>2
  <2>4. \A x : x \in Range(t) <=> \E i \in 1 .. Len(t) : x = t[i]
    BY <2>3, ItemsOfSeq
  <2>5. Range(t) = {a, b}
    BY ONLY <2>3, <2>4
  <2> QED
    BY <2>2, <2>3, <2>5
<1> QED
  BY <1>1, <1>2, <1>3

\* The items that are made are items.
LEMMA ItemsSent ==
    /\ \A n \in 1 .. MaxAsked : Item("user", n) \in Items /\ Item("text", n) \in Items
    /\ \A n \in 1 .. MaxToolCalls : Item("call", n) \in Items /\ Item("output", n) \in Items
    /\ \A i \in Items : IsTool(i) => i.n \in 1 .. MaxToolCalls
                                   /\ (i = Item("call", i.n) \/ i = Item("output", i.n))
  BY DEF Items, Item, IsTool, Marker, Summary, FileItem

\* What the SDK saves is in the history, and known to be written.
LEMMA SdkAdds ==
    ASSUME TranscriptTyped, NEW items \in Seq(Items), FileItem \notin Range(items),
           SdkWrites(items)
    PROVE  /\ history' \in Seq(Items) /\ Range(history') = Range(history) \cup Range(items)
           /\ written' = written \cup Range(items) /\ written' \subseteq Items \ {FileItem}
<1>1. history \in Seq(Items) /\ written \subseteq Items \ {FileItem}
  BY DEF TranscriptTyped
<1>2. history' = history \o items /\ written' = written \cup Range(items)
  BY DEF SdkWrites
<1>3. Range(items) \subseteq Items
  BY ItemsOfSeq
<1> QED
  BY <1>1, <1>2, <1>3, ConcatProperties, RangeConcatenation

LEMMA OneSaved ==
    ASSUME TranscriptTyped, NEW x \in Items, x # FileItem, SdkWrites(<<x>>)
    PROVE  /\ history' \in Seq(Items) /\ Range(history') = Range(history) \cup {x}
           /\ written' = written \cup {x} /\ written' \subseteq Items \ {FileItem}
<1>1. <<x>> \in Seq(Items) /\ Range(<<x>>) = {x}
  BY ShortSeqs
<1> QED
  BY <1>1, SdkAdds

\* What a compaction attaches to a transcript.
LEMMA AttachedItems ==
    ASSUME NEW files \in Attached
    PROVE  files \in Seq(Items) /\ Range(files) \subseteq {FileItem}
<1>1. PICK x : x = FileItem
  OBVIOUS
<1>2. x \in Items
  BY <1>1, ItemKinds
<1>3. <<>> \in Seq(Items) /\ Range(<<>>) = {} /\ <<x>> \in Seq(Items) /\ Range(<<x>>) = {x}
  BY <1>2, ShortSeqs
<1>4. files = <<>> \/ files = <<x>>
  BY <1>1 DEF Attached
<1> QED
  BY <1>1, <1>3, <1>4

LEMMA FrontPut ==
    ASSUME NEW r \in FrontRecords, NEW at \in FrontPlaces, NEW job \in Jobs
    PROVE  [r EXCEPT !.at = at, !.job = job] \in FrontRecords
  BY DEF FrontRecords

LEMMA IdleTyped == IdleFront \in FrontRecords
  BY ShortSeqs DEF IdleFront, FrontRecords, FrontPlaces, Jobs

\* Where a run goes on after a repair or a compaction that failed or succeeded.
LEMMA Resumed ==
    ASSUME NEW job, Resumes(job)
    PROVE  /\ job = "repair" => front'.at = "preflight" /\ front'.job = "turn"
           /\ job = "preflight" => front'.at = "preflight" /\ front'.job = "preflight"
           /\ job \notin {"repair", "preflight"} =>
                 front' = IdleFront /\ front'.at = "idle" /\ front'.job = "none"
           /\ front' \in FrontRecords
<1>1. CASE job = "repair"
  BY <1>1, ShortSeqs DEF Resumes, IdleFront, FrontRecords, FrontPlaces, Jobs
<1>2. CASE job = "preflight"
  BY <1>2, ShortSeqs DEF Resumes, IdleFront, FrontRecords, FrontPlaces, Jobs
<1>3. CASE job \notin {"repair", "preflight"}
  <2>1. front' = IdleFront
    BY <1>3 DEF Resumes, FrontEnds
  <2> QED
    BY <1>3, <2>1, IdleTyped DEF IdleFront
<1> QED
  BY <1>1, <1>2, <1>3

\* A compaction for an overflow resumes the run.
LEMMA ResumedOverflow ==
    ASSUME ResumesOverflow
    PROVE  /\ front'.at = "run" /\ front'.job = "overflow" /\ sdk' = "started"
           /\ front' \in FrontRecords /\ UNCHANGED <<calling, called, written>>
  BY ShortSeqs DEF ResumesOverflow, IdleFront, FrontRecords, FrontPlaces, Jobs

\* Every step keeps the types.
LEMMA TypedKept ==
    TranscriptTyped /\ FrontPlaced /\ SdkPlaced /\ [TranscriptNext]_transcriptVars
        => TranscriptTyped'
<1> SUFFICES ASSUME TranscriptTyped, FrontPlaced, SdkPlaced, [TranscriptNext]_transcriptVars
             PROVE  TranscriptTyped'
  OBVIOUS
<1>1. /\ history \in Seq(Items) /\ front.seen \in Seq(Items) /\ front.next \in Seq(Items)
      /\ <<>> \in Seq(Items)
  BY ShortSeqs DEF TranscriptTyped, FrontRecords
<1>2. CASE SdkSavesInput
  <2>1. asked \in 1 .. MaxAsked
    BY <1>2, TranscriptConstants DEF SdkSavesInput, TranscriptTyped, FrontPlaced, SdkPlaced
  <2>2. Item("user", asked) \in Items /\ Item("user", asked) # FileItem
    BY <2>1, ItemsSent, ItemKinds
  <2>3. history' \in Seq(Items) /\ written' \subseteq Items \ {FileItem}
    <3>1. PICK x : x = Item("user", asked)
      OBVIOUS
    <3>2. SdkWrites(<<x>>)
      BY <1>2, <3>1 DEF SdkSavesInput
    <3> QED
      BY <2>2, <3>1, <3>2, OneSaved
  <2> QED
    BY <1>2, <2>3 DEF SdkSavesInput, TranscriptTyped, FrontRecords, FrontPlaces, Jobs, Foreground
<1>3. CASE SdkSavesCall
  <2> DEFINE n == called + 1
  <2>1. n \in 1 .. MaxToolCalls
    BY <1>3, TranscriptConstants DEF SdkSavesCall, TranscriptTyped
  <2>2. PICK c : c = Item("call", n)
    OBVIOUS
  <2>3. PICK o : o = Item("output", n)
    OBVIOUS
  <2>4. c \in Items /\ o \in Items /\ c # FileItem /\ o # FileItem
    BY <2>1, <2>2, <2>3, ItemsSent, ItemKinds
  <2>5. /\ <<c, o>> \in Seq(Items) /\ Range(<<c, o>>) = {c, o}
        /\ <<c>> \in Seq(Items) /\ Range(<<c>>) = {c}
    BY <2>4, ShortSeqs
  <2>6. SdkWrites(<<c, o>>) \/ SdkWrites(<<c>>)
    BY <1>3, <2>2, <2>3 DEF SdkSavesCall
  <2>7. history' \in Seq(Items) /\ written' \subseteq Items \ {FileItem}
    BY <2>4, <2>5, <2>6, SdkAdds
  <2>8. calling' \in 0 .. MaxToolCalls /\ called' \in 0 .. MaxToolCalls
    BY <1>3, <2>1, TranscriptConstants DEF SdkSavesCall, TranscriptTyped
  <2> QED
    BY <1>3, <2>7, <2>8
    DEF SdkSavesCall, TranscriptTyped, FrontRecords, FrontPlaces, Jobs, Foreground
<1>4. CASE SdkSavesOutput
  <2>1. calling \in 1 .. MaxToolCalls
    BY <1>4, TranscriptConstants DEF SdkSavesOutput, TranscriptTyped
  <2>2. Item("output", calling) \in Items /\ Item("output", calling) # FileItem
    BY <2>1, ItemsSent, ItemKinds
  <2>3. history' \in Seq(Items) /\ written' \subseteq Items \ {FileItem}
    <3>1. PICK x : x = Item("output", calling)
      OBVIOUS
    <3>2. SdkWrites(<<x>>)
      BY <1>4, <3>1 DEF SdkSavesOutput
    <3> QED
      BY <2>2, <3>1, <3>2, OneSaved
  <2>4. calling' \in 0 .. MaxToolCalls
    BY <1>4, TranscriptConstants DEF SdkSavesOutput
  <2> QED
    BY <1>4, <2>3, <2>4
    DEF SdkSavesOutput, TranscriptTyped, FrontRecords, FrontPlaces, Jobs, Foreground
<1>5. CASE SdkSettles
  BY <1>5, <1>1, TranscriptConstants, IdleTyped
  DEF SdkSettles, TranscriptTyped, FrontRecords, FrontPlaces, Jobs, Foreground
<1>6. CASE TurnAsked
  <2>1. front' \in FrontRecords
    BY <1>6, IdleTyped DEF TurnAsked, FrontRecords, FrontPlaces, Jobs
  <2>2. asked' \in 0 .. MaxAsked
    BY <1>6, TranscriptConstants DEF TurnAsked, TranscriptTyped
  <2> QED
    BY <1>6, <2>1, <2>2 DEF TurnAsked, Sdk, TranscriptTyped
<1>7. CASE TurnSettles
  <2>1. front' \in FrontRecords
    BY <1>7, IdleTyped
    DEF TurnSettles, FrontGoes, FrontEnds, FrontRecords, FrontPlaces, TranscriptTyped
  <2> QED
    BY <1>7, <2>1 DEF TurnSettles, Sdk, Counters, TranscriptTyped
<1>8. CASE TurnRepairs
  <2>1. Closed(history) \in Seq(Items) /\ Replayable(history) \in Seq(Items)
    BY <1>1, ClosedFacts, ReplayableFacts
  <2> QED
    BY <1>8, <1>1, <2>1
    DEF TurnRepairs, Replaces, TranscriptTyped, FrontRecords, FrontPlaces, Jobs, Sdk, FrontAt,
        FrontGoes, Fault
<1>9. CASE TurnRuns
  BY <1>9, <1>1, TranscriptConstants, IdleTyped
  DEF TurnRuns, TranscriptTyped, FrontRecords, FrontPlaces, Jobs, Counters, FrontAt, FrontGoes
<1>10. CASE TurnRejected
  BY <1>10, <1>1, TranscriptConstants, IdleTyped
  DEF TurnRejected, TranscriptTyped, FrontRecords, FrontPlaces, Jobs, IdleFront, Sdk, Counters,
      FrontAt, FrontEnds
<1>11. CASE TurnAnswered
  <2>1. asked \in 1 .. MaxAsked
    BY <1>11, TranscriptConstants
    DEF TurnAnswered, Running, TranscriptTyped, FrontPlaced, SdkPlaced, FrontAt
  <2>2. Item("text", asked) \in Items /\ Item("text", asked) # FileItem
    BY <2>1, ItemsSent, ItemKinds
  <2>3. <<Item("text", asked)>> \in Seq(Items) /\ FileItem \notin Range(<<Item("text", asked)>>)
    BY <2>2, ShortSeqs
  <2>4. history' \in Seq(Items) /\ written' \subseteq Items \ {FileItem}
    <3>1. CASE SdkWrites(<<Item("text", asked)>>)
      BY <3>1, <2>3, SdkAdds
    <3>2. CASE UNCHANGED <<history, written>>
      BY <3>2 DEF TranscriptTyped
    <3> QED
      BY <1>11, <3>1, <3>2 DEF TurnAnswered
  <2>5. calling' \in 0 .. MaxToolCalls /\ sdk' \in {"none", "late"}
    BY <1>11, TranscriptConstants DEF TurnAnswered, TranscriptTyped
  <2> QED
    BY <1>11, <2>4, <2>5
    DEF TurnAnswered, TranscriptTyped, FrontRecords, FrontPlaces, Jobs, Counters, FrontAt,
        FrontGoes
<1>12. CASE TurnOverflows
  BY <1>12, <1>1, TranscriptConstants, IdleTyped
  DEF TurnOverflows, TranscriptTyped, FrontRecords, FrontPlaces, Jobs, Counters, FrontAt
<1>13. CASE TurnOver
  BY <1>13, <1>1, TranscriptConstants, IdleTyped
  DEF TurnOver, TranscriptTyped, FrontRecords, FrontPlaces, Jobs, IdleFront, Sdk, Counters,
      FrontAt, FrontEnds
<1>14. CASE TurnCompacts
  <2>1. "compact" \in FrontPlaces /\ "preflight" \in Jobs /\ "capture" \in Jobs
    BY DEF FrontPlaces, Jobs
  <2>2. front' \in FrontRecords
    <3>1. front \in FrontRecords
      BY DEF TranscriptTyped
    <3>2. \/ front' = [front EXCEPT !.at = "compact", !.job = "preflight"]
          \/ front' = [front EXCEPT !.at = "compact", !.job = "capture"]
      BY <1>14 DEF TurnCompacts
    <3>3. [front EXCEPT !.at = "compact", !.job = "preflight"] \in FrontRecords
      BY <2>1, <3>1, FrontPut
    <3>4. [front EXCEPT !.at = "compact", !.job = "capture"] \in FrontRecords
      BY <2>1, <3>1, FrontPut
    <3> QED
      BY <3>2, <3>3, <3>4
  <2> QED
    BY <1>14, <2>2 DEF TurnCompacts, TranscriptTyped, Sdk, Counters
<1>15. CASE CompactCommand
  BY <1>15, <1>1, TranscriptConstants, IdleTyped
  DEF CompactCommand, TranscriptTyped, FrontRecords, FrontPlaces, Jobs, IdleFront, Sdk, Counters,
      FrontAt
<1>16. CASE CompactReads
  BY <1>16, <1>1, TranscriptConstants, IdleTyped
  DEF CompactReads, TranscriptTyped, FrontRecords, FrontPlaces, Jobs, Sdk, Counters, FrontAt
<1>17. CASE CompactSummarized
  <2>1. Compacted(Compactable(front.seen)) \in Seq(Items)
    BY <1>1, CompactableFacts, CompactedFacts
  <2>2. /\ front' \in FrontRecords /\ sdk' \in {"none", "started", "running", "late"}
        /\ UNCHANGED <<calling, called, written>> /\ worker' \in {worker, "writing"}
    <3>1. CASE Replaces(front.job, front.seen, Compacted(Compactable(front.seen))) /\ Sdk
      <4>1. front \in FrontRecords
        BY DEF TranscriptTyped
      <4>2. front' \in FrontRecords
        BY <3>1, <4>1, <1>1, <2>1 DEF Replaces, FrontRecords, FrontPlaces, Jobs
      <4> QED
        BY <3>1, <4>2 DEF Replaces, Sdk, TranscriptTyped
    <3>2. CASE UNCHANGED worker /\ Resumes(front.job) /\ Sdk
      BY <3>2, Resumed DEF Sdk, TranscriptTyped
    <3>3. CASE UNCHANGED worker /\ ResumesOverflow
      BY <3>3, ResumedOverflow
    <3> QED
      BY <1>17, <3>1, <3>2, <3>3 DEF CompactSummarized
  <2>3. UNCHANGED <<asked, history, unrepaired, accounted, crossed>>
    BY <1>17 DEF CompactSummarized, Counters
  <2> QED
    BY <2>2, <2>3 DEF TranscriptTyped
<1>18. CASE RewindCommand
  <2>1. PICK i \in DOMAIN history : Replaces("rewind", history, SubSeq(history, 1, i - 1))
    BY <1>18 DEF RewindCommand
  <2>2. i \in 1 .. Len(history) /\ Len(history) \in Nat
    BY <1>1, LenProperties
  <2>3. i - 1 \in 0 .. Len(history)
    BY <2>2
  <2>4. SubSeq(history, 1, i - 1) \in Seq(Items)
    BY <1>1, <2>3, SubSeqRange
  <2> QED
    BY <1>18, <1>1, <2>1, <2>4
    DEF RewindCommand, Replaces, TranscriptTyped, FrontRecords, FrontPlaces, Jobs, Sdk, Counters,
        FrontAt
<1>19. CASE SummaryCancelled
  BY <1>19, <1>1, TranscriptConstants, IdleTyped
  DEF SummaryCancelled, TranscriptTyped, FrontRecords, FrontPlaces, Jobs, IdleFront, Sdk,
      Counters, FrontAt, FrontEnds
<1>20. CASE WorkerDecides
  BY <1>20, <1>1, TranscriptConstants, IdleTyped
  DEF WorkerDecides, TranscriptTyped, FrontRecords, FrontPlaces, Jobs, Sdk, Counters
<1>21. CASE WorkerCommits
  <2>1. Range(front.seen) \subseteq Items
    BY <1>1, ItemsOfSeq
  <2>2. Summarized(Compactable(front.seen)) \subseteq Items
    BY <1>1, <2>1, CompactableFacts, CompactedFacts
  <2>3. accounted' \subseteq Items
    BY <1>21, <2>1, <2>2 DEF WorkerCommits, TranscriptTyped
  <2>4. crossed' \in BOOLEAN
    BY <1>21 DEF WorkerCommits, TranscriptTyped
  <2> QED
    BY <1>21, <1>1, <2>3, <2>4
    DEF WorkerCommits, TranscriptTyped, FrontRecords, FrontPlaces, Jobs, Sdk, Counters
<1>22. CASE WorkerFails
  BY <1>22, <1>1, TranscriptConstants, IdleTyped
  DEF WorkerFails, TranscriptTyped, FrontRecords, FrontPlaces, Jobs, Sdk, Fault
<1>23. CASE ReplaceSucceeds
  <2>1. Closed(history) \in Seq(Items)
    BY <1>1, ClosedFacts
  <2>2. \A files \in Attached : history \o files \in Seq(Items)
    <3>1. \A files \in Attached : files \in Seq(Items)
      BY AttachedItems
    <3> QED
      BY <3>1, <1>1, ConcatProperties
  <2>3. history' \in Seq(Items)
    BY <1>23, <1>1, <2>1, <2>2 DEF ReplaceSucceeds
  <2>4. unrepaired' \in BOOLEAN
    BY <1>23 DEF ReplaceSucceeds, TranscriptTyped
  <2>5. /\ front' \in FrontRecords /\ sdk' \in {"none", "started", "running", "late"}
        /\ UNCHANGED <<calling, called, written>>
    BY <1>23, Resumed, ResumedOverflow DEF ReplaceSucceeds, Sdk, TranscriptTyped
  <2>6. worker' = "none" /\ UNCHANGED <<asked, accounted, crossed>>
    BY <1>23 DEF ReplaceSucceeds
  <2> QED
    BY <2>3, <2>4, <2>5, <2>6 DEF TranscriptTyped
<1>24. CASE ReplaceCancelled
  BY <1>24, <1>1, TranscriptConstants, IdleTyped
  DEF ReplaceCancelled, TranscriptTyped, FrontRecords, FrontPlaces, Jobs, IdleFront, Sdk,
      Counters, FrontEnds
<1>25. CASE ReplaceFails
  <2>1. /\ front' \in FrontRecords /\ sdk' \in {"none", "started", "running", "late"}
        /\ UNCHANGED <<calling, called, written>>
    BY <1>25, Resumed, ResumedOverflow DEF ReplaceFails, Sdk, TranscriptTyped
  <2>2. /\ unrepaired' \in BOOLEAN /\ worker' = "none"
        /\ UNCHANGED <<asked, history, accounted, crossed>>
    BY <1>25 DEF ReplaceFails, TranscriptTyped, Counters
  <2> QED
    BY <2>1, <2>2 DEF TranscriptTyped
<1>26. CASE FrontCancelled
  BY <1>26, <1>1, TranscriptConstants, IdleTyped
  DEF FrontCancelled, TranscriptTyped, FrontRecords, FrontPlaces, Jobs, Sdk, Counters, FrontAt
<1>27. CASE UNCHANGED transcriptVars
  BY <1>27 DEF transcriptVars, TranscriptTyped
<1> QED
  BY <1>2, <1>3, <1>4, <1>5, <1>6, <1>7, <1>8, <1>9, <1>10, <1>11, <1>12, <1>13, <1>14, <1>15,
     <1>16, <1>17, <1>18, <1>19, <1>20, <1>21, <1>22, <1>23, <1>24, <1>25, <1>26, <1>27
  DEF TranscriptNext, SdkNext, FrontNext, WorkerNext, ReplaceNext

\* Every step keeps to who may be where, and with whom.
LEMMA PlacedKept ==
    TranscriptTyped /\ FrontPlaced /\ SdkPlaced /\ [TranscriptNext]_transcriptVars
        => FrontPlaced' /\ SdkPlaced'
<1> SUFFICES ASSUME TranscriptTyped, FrontPlaced, SdkPlaced, [TranscriptNext]_transcriptVars
             PROVE  FrontPlaced' /\ SdkPlaced'
  OBVIOUS
<1>1. front \in FrontRecords /\ asked \in Nat
  BY TranscriptConstants DEF TranscriptTyped
<1>2. CASE SdkSavesInput
  BY <1>2, <1>1 DEF SdkSavesInput, FrontPlaced, SdkPlaced, CompactJobs, FrontRecords, Foreground
<1>3. CASE SdkSavesCall
  BY <1>3, <1>1 DEF SdkSavesCall, FrontPlaced, SdkPlaced, CompactJobs, FrontRecords, Foreground
<1>4. CASE SdkSavesOutput
  BY <1>4, <1>1 DEF SdkSavesOutput, FrontPlaced, SdkPlaced, CompactJobs, FrontRecords, Foreground
<1>5. CASE SdkSettles
  BY <1>5, <1>1 DEF SdkSettles, FrontPlaced, SdkPlaced, CompactJobs, FrontRecords, Foreground
<1>6. CASE TurnAsked
  BY <1>6, <1>1
  DEF TurnAsked, FrontPlaced, SdkPlaced, CompactJobs, FrontRecords, Sdk, FrontAt, IdleFront
<1>7. CASE TurnSettles
  <2>1. /\ front.at = "settle" /\ front.job = "turn" /\ sdk \in {"none", "late"} /\ sdk # "late"
    BY <1>7 DEF TurnSettles, FrontAt, StreamSettled, FrontPlaced, SdkPlaced, TranscriptTyped
  <2>2. \/ front' = IdleFront /\ front'.at = "idle" /\ front'.job = "none"
        \/ front'.at = "repair" /\ front'.job = "turn"
    BY <1>7, <1>1, <2>1 DEF TurnSettles, FrontEnds, FrontGoes, IdleFront, FrontRecords
  <2> QED
    BY <1>7, <2>1, <2>2 DEF TurnSettles, Sdk, Counters, FrontPlaced, SdkPlaced
<1>8. CASE TurnRepairs
  BY <1>8, <1>1
  DEF TurnRepairs, Replaces, FrontPlaced, SdkPlaced, CompactJobs, FrontRecords, Sdk, FrontAt,
      FrontGoes, Fault
<1>9. CASE TurnRuns
  <2>1. front.at = "preflight" /\ front.job \in {"turn", "preflight"} /\ sdk = "none"
    BY <1>9 DEF TurnRuns, FrontAt, FrontPlaced, SdkPlaced, TranscriptTyped
  <2>2. front'.at = "run" /\ front'.job = front.job /\ sdk' = "started"
    BY <1>9, <1>1 DEF TurnRuns, FrontGoes, FrontRecords
  <2> QED
    BY <1>9, <2>1, <2>2 DEF TurnRuns, Counters, FrontPlaced, SdkPlaced
<1>10. CASE TurnRejected
  BY <1>10, <1>1
  DEF TurnRejected, FrontPlaced, SdkPlaced, CompactJobs, FrontRecords, Sdk, Counters, FrontAt,
      FrontEnds, IdleFront
<1>11. CASE TurnAnswered
  BY <1>11, <1>1
  DEF TurnAnswered, Running, FrontPlaced, SdkPlaced, CompactJobs, FrontRecords, Counters,
      FrontAt, FrontGoes
<1>12. CASE TurnOverflows
  BY <1>12, <1>1
  DEF TurnOverflows, Running, FrontPlaced, SdkPlaced, CompactJobs, FrontRecords, Counters,
      FrontAt
<1>13. CASE TurnOver
  BY <1>13, <1>1
  DEF TurnOver, FrontPlaced, SdkPlaced, CompactJobs, FrontRecords, Sdk, Counters, FrontAt,
      FrontEnds, IdleFront
<1>14. CASE TurnCompacts
  BY <1>14, <1>1
  DEF TurnCompacts, FrontPlaced, SdkPlaced, CompactJobs, FrontRecords, Sdk, Counters, FrontAt
<1>15. CASE CompactCommand
  BY <1>15, <1>1
  DEF CompactCommand, FrontPlaced, SdkPlaced, CompactJobs, FrontRecords, Sdk, Counters, FrontAt,
      IdleFront
<1>16. CASE CompactReads
  BY <1>16, <1>1
  DEF CompactReads, FrontPlaced, SdkPlaced, CompactJobs, FrontRecords, Sdk, Counters, FrontAt
<1>17. CASE CompactSummarized
  <2>1. CASE Replaces(front.job, front.seen, Compacted(Compactable(front.seen))) /\ Sdk
    BY <1>17, <1>1, <2>1
    DEF CompactSummarized, Replaces, FrontPlaced, SdkPlaced, CompactJobs, FrontRecords, Sdk,
        Counters, FrontAt, FrontEnds, IdleFront
  <2>2. CASE UNCHANGED worker /\ Resumes(front.job) /\ Sdk /\ front.job # "overflow"
    BY <1>17, <1>1, <2>2, Resumed
    DEF CompactSummarized, FrontAt, Sdk, Counters, FrontPlaced, SdkPlaced, CompactJobs
  <2>3. CASE UNCHANGED worker /\ ResumesOverflow /\ front.job = "overflow"
    <3>1. sdk = "none" /\ calling = 0
      BY <1>17, <2>3 DEF CompactSummarized, FrontAt, SdkPlaced, TranscriptTyped
    <3>2. UNCHANGED asked /\ asked > 0
      BY <1>17, <2>3 DEF CompactSummarized, Counters, FrontPlaced
    <3>3. worker = "none"
      BY <1>17 DEF CompactSummarized, FrontAt, FrontPlaced
    <3> QED
      BY <2>3, <3>1, <3>2, <3>3, ResumedOverflow DEF FrontPlaced, SdkPlaced
  <2> QED
    BY <1>17, <2>1, <2>2, <2>3 DEF CompactSummarized
<1>18. CASE RewindCommand
  <2>1. PICK next : Replaces("rewind", history, next)
    BY <1>18 DEF RewindCommand
  <2> QED
    BY <1>18, <1>1, <2>1
    DEF RewindCommand, Replaces, FrontPlaced, SdkPlaced, CompactJobs, FrontRecords, Sdk,
        Counters, FrontAt
<1>19. CASE SummaryCancelled
  BY <1>19, <1>1
  DEF SummaryCancelled, FrontPlaced, SdkPlaced, CompactJobs, FrontRecords, Sdk, Counters,
      FrontAt, FrontEnds, IdleFront
<1>20. CASE WorkerDecides
  BY <1>20, <1>1
  DEF WorkerDecides, FrontPlaced, SdkPlaced, CompactJobs, FrontRecords, Sdk, Counters
<1>21. CASE WorkerCommits
  BY <1>21, <1>1
  DEF WorkerCommits, FrontPlaced, SdkPlaced, CompactJobs, FrontRecords, Sdk, Counters
<1>22. CASE WorkerFails
  BY <1>22, <1>1 DEF WorkerFails, FrontPlaced, SdkPlaced, CompactJobs, FrontRecords, Sdk, Fault
<1>23. CASE ReplaceSucceeds
  <2>1. worker # "none" /\ worker' = "none" /\ UNCHANGED asked
    BY <1>23 DEF ReplaceSucceeds, Counters
  <2>2. CASE Resumes(front.job) /\ Sdk /\ front.job # "overflow"
    BY <1>1, <2>1, <2>2, Resumed DEF Sdk, FrontPlaced, SdkPlaced, CompactJobs
  <2>3. CASE ResumesOverflow /\ front.job = "overflow"
    <3>1. front.at = "replace" /\ asked > 0
      BY <2>1, <2>3 DEF FrontPlaced
    <3>2. sdk = "none" /\ calling = 0
      BY <2>3, <3>1 DEF SdkPlaced, TranscriptTyped
    <3> QED
      BY <2>1, <2>3, <3>1, <3>2, ResumedOverflow DEF FrontPlaced, SdkPlaced
  <2> QED
    BY <1>23, <2>2, <2>3 DEF ReplaceSucceeds
<1>24. CASE ReplaceCancelled
  BY <1>24, <1>1
  DEF ReplaceCancelled, FrontPlaced, SdkPlaced, CompactJobs, FrontRecords, Sdk, Counters,
      FrontEnds, IdleFront
<1>25. CASE ReplaceFails
  <2>1. worker # "none" /\ worker' = "none" /\ UNCHANGED asked
    BY <1>25 DEF ReplaceFails, Counters
  <2>2. CASE Resumes(front.job) /\ Sdk /\ front.job # "overflow"
    BY <1>1, <2>1, <2>2, Resumed DEF Sdk, FrontPlaced, SdkPlaced, CompactJobs
  <2>3. CASE ResumesOverflow /\ front.job = "overflow"
    <3>1. front.at = "replace" /\ asked > 0
      BY <2>1, <2>3 DEF FrontPlaced
    <3>2. sdk = "none" /\ calling = 0
      BY <2>3, <3>1 DEF SdkPlaced, TranscriptTyped
    <3> QED
      BY <2>1, <2>3, <3>1, <3>2, ResumedOverflow DEF FrontPlaced, SdkPlaced
  <2> QED
    BY <1>25, <2>2, <2>3 DEF ReplaceFails
<1>26. CASE FrontCancelled
  BY <1>26, <1>1
  DEF FrontCancelled, FrontPlaced, SdkPlaced, CompactJobs, FrontRecords, Sdk, Counters, FrontAt
<1>27. CASE UNCHANGED transcriptVars
  BY <1>27 DEF transcriptVars, FrontPlaced, SdkPlaced
<1> QED
  BY <1>2, <1>3, <1>4, <1>5, <1>6, <1>7, <1>8, <1>9, <1>10, <1>11, <1>12, <1>13, <1>14, <1>15,
     <1>16, <1>17, <1>18, <1>19, <1>20, <1>21, <1>22, <1>23, <1>24, <1>25, <1>26, <1>27
  DEF TranscriptNext, SdkNext, FrontNext, WorkerNext, ReplaceNext


\* Every step keeps what is rewritten into what: what a rewrite has read is what it
\* replaces, unless the SDK may still be saving.
LEMMA RewritesKept ==
    ASSUME TranscriptTyped, FrontPlaced, SdkPlaced, RewritesKnown, [TranscriptNext]_transcriptVars
    PROVE  RewritesKnown'
<1>1. front \in FrontRecords /\ TranscriptTyped
  BY DEF TranscriptTyped
<1>2. CASE SdkSavesInput
  <2>1. front.at = "run" /\ UNCHANGED front
    BY <1>2 DEF SdkSavesInput, SdkPlaced, Foreground
  <2> QED
    BY <2>1 DEF RewritesKnown
<1>3. CASE SdkSavesCall
  <2>1. /\ front.at = "run" \/ front.at \in {"idle", "settle", "capture"}
           \/ front.job \in {"capture", "compact", "rewind"}
        /\ UNCHANGED <<front, worker>>
    BY <1>3 DEF SdkSavesCall, SdkPlaced, Foreground
  <2> QED
    BY <2>1 DEF RewritesKnown, QuietJobs
<1>4. CASE SdkSavesOutput
  <2>1. /\ front.at = "run" \/ front.at \in {"idle", "settle", "capture"}
           \/ front.job \in {"capture", "compact", "rewind"}
        /\ UNCHANGED <<front, worker>>
    BY <1>4 DEF SdkSavesOutput, SdkPlaced, Foreground
  <2> QED
    BY <2>1 DEF RewritesKnown, QuietJobs
<1>5. CASE SdkSettles
  <2>1. UNCHANGED <<front, history, worker>>
    BY <1>5 DEF SdkSettles, Foreground
  <2> QED
    BY <2>1 DEF RewritesKnown
<1>6. CASE TurnAsked
  <2>1. front'.at = "settle"
    BY <1>6, <1>1 DEF TurnAsked, FrontGoes, FrontEnds, IdleFront, FrontRecords
  <2> QED
    BY <2>1 DEF RewritesKnown
<1>7. CASE TurnSettles
  <2>1. front'.at \in {"idle", "repair"}
    BY <1>7, <1>1 DEF TurnSettles, FrontGoes, FrontEnds, IdleFront, FrontRecords
  <2> QED
    BY <2>1 DEF RewritesKnown
<1>8. CASE TurnRepairs
  <2>1. CASE FrontGoes("preflight")
    <3>1. front'.at = "preflight"
      BY <1>1, <2>1 DEF FrontGoes, FrontRecords
    <3> QED
      BY <3>1 DEF RewritesKnown
  <2>2. CASE Replaces("repair", history, Replayable(history)) /\ UNCHANGED history
    <3>1. /\ front'.at = "replace" /\ front'.job = "repair" /\ front'.seen = history
          /\ front'.next = Replayable(history) /\ worker' = "writing"
      BY <1>1, <2>2 DEF Replaces, FrontRecords
    <3> QED
      BY <2>2, <3>1 DEF RewritesKnown, CompactJobs
  <2> QED
    BY <1>8, <2>1, <2>2 DEF TurnRepairs
<1>9. CASE TurnRuns
  <2>1. front'.at = "run"
    BY <1>9, <1>1 DEF TurnRuns, FrontGoes, FrontEnds, IdleFront, FrontRecords
  <2> QED
    BY <2>1 DEF RewritesKnown
<1>10. CASE TurnRejected
  <2>1. front'.at = "idle"
    BY <1>10, <1>1 DEF TurnRejected, FrontGoes, FrontEnds, IdleFront, FrontRecords
  <2> QED
    BY <2>1 DEF RewritesKnown
<1>11. CASE TurnAnswered
  <2>1. front'.at = "capture"
    BY <1>11, <1>1 DEF TurnAnswered, FrontGoes, FrontRecords
  <2> QED
    BY <2>1 DEF RewritesKnown
<1>12. CASE TurnOverflows
  <2>1. front'.at = "compact"
    BY <1>12, <1>1 DEF TurnOverflows, FrontGoes, FrontEnds, IdleFront, FrontRecords
  <2> QED
    BY <2>1 DEF RewritesKnown
<1>13. CASE TurnOver
  <2>1. front'.at = "idle"
    BY <1>13, <1>1 DEF TurnOver, FrontGoes, FrontEnds, IdleFront, FrontRecords
  <2> QED
    BY <2>1 DEF RewritesKnown
<1>14. CASE TurnCompacts
  <2>1. front'.at = "compact"
    BY <1>14, <1>1 DEF TurnCompacts, FrontGoes, FrontEnds, IdleFront, FrontRecords
  <2> QED
    BY <2>1 DEF RewritesKnown
<1>15. CASE CompactCommand
  <2>1. front'.at = "compact"
    BY <1>15, <1>1 DEF CompactCommand, FrontGoes, FrontEnds, IdleFront, FrontRecords
  <2> QED
    BY <2>1 DEF RewritesKnown
<1>16. CASE CompactReads
  <2>1. /\ front'.at = "summarize" /\ front'.job = front.job /\ front'.seen = history
        /\ UNCHANGED <<history, worker>> /\ worker = "none"
    BY <1>16, <1>1 DEF CompactReads, FrontAt, FrontRecords, FrontPlaced
  <2> QED
    BY <2>1 DEF RewritesKnown
<1>17. CASE CompactSummarized
  <2>1. CASE Replaces(front.job, front.seen, Compacted(Compactable(front.seen)))
    <3>1. /\ front'.at = "replace" /\ front'.job = front.job /\ front'.seen = front.seen
          /\ front'.next = Compacted(Compactable(front.seen)) /\ worker' = "writing"
      BY <1>1, <2>1 DEF Replaces, FrontRecords
    <3>2. /\ front.at = "summarize" /\ worker = "none" /\ front.job \in CompactJobs
          /\ UNCHANGED history
      BY <1>17 DEF CompactSummarized, FrontAt, FrontPlaced
    <3> QED
      BY <3>1, <3>2 DEF RewritesKnown, CompactJobs
  <2>2. CASE Resumes(front.job) \/ ResumesOverflow
    <3>1. front'.at \in {"preflight", "idle", "run"}
      BY <2>2, Resumed, ResumedOverflow
    <3> QED
      BY <3>1 DEF RewritesKnown
  <2> QED
    BY <1>17, <2>1, <2>2 DEF CompactSummarized
<1>18. CASE RewindCommand
  <2>1. front'.at = "replace" /\ front'.job = "rewind"
    BY <1>18, <1>1 DEF RewindCommand, Replaces, FrontRecords
  <2> QED
    BY <2>1 DEF RewritesKnown, QuietJobs, CompactJobs
<1>19. CASE SummaryCancelled
  <2>1. front'.at = "idle"
    BY <1>19, <1>1 DEF SummaryCancelled, FrontGoes, FrontEnds, IdleFront, FrontRecords
  <2> QED
    BY <2>1 DEF RewritesKnown
<1>20. CASE WorkerDecides
  <2>1. /\ worker # "committed" /\ worker' # "committed" /\ UNCHANGED <<history, front>>
    BY <1>20 DEF WorkerDecides
  <2> QED
    BY <2>1 DEF RewritesKnown
<1>21. CASE WorkerCommits
  <2>1. /\ worker' = "committed" /\ history' = front.next /\ UNCHANGED front
        /\ front.at = "replace"
    BY <1>21 DEF WorkerCommits, FrontPlaced
  <2> QED
    BY <2>1 DEF RewritesKnown
<1>22. CASE WorkerFails
  <2>1. /\ worker # "committed" /\ worker' # "committed" /\ UNCHANGED <<history, front>>
    BY <1>22 DEF WorkerFails
  <2> QED
    BY <2>1 DEF RewritesKnown
<1>23. CASE ReplaceSucceeds
  <2>1. front'.at \in {"preflight", "idle", "run"}
    BY <1>23, Resumed, ResumedOverflow DEF ReplaceSucceeds
  <2> QED
    BY <2>1 DEF RewritesKnown
<1>24. CASE ReplaceCancelled
  <2>1. front'.at = "idle"
    BY <1>24, <1>1 DEF ReplaceCancelled, FrontGoes, FrontEnds, IdleFront, FrontRecords
  <2> QED
    BY <2>1 DEF RewritesKnown
<1>25. CASE ReplaceFails
  <2>1. front'.at \in {"preflight", "idle", "run"}
    BY <1>25, Resumed, ResumedOverflow DEF ReplaceFails
  <2> QED
    BY <2>1 DEF RewritesKnown
<1>26. CASE FrontCancelled
  <2>1. /\ front'.at = front.at /\ front'.job = front.job /\ front'.seen = front.seen
        /\ front'.next = front.next /\ UNCHANGED <<history, worker>>
    BY <1>26, <1>1 DEF FrontCancelled, FrontRecords
  <2> QED
    BY <2>1 DEF RewritesKnown
<1>27. CASE UNCHANGED transcriptVars
  BY <1>27 DEF transcriptVars, RewritesKnown
<1> QED
  BY <1>2, <1>3, <1>4, <1>5, <1>6, <1>7, <1>8, <1>9, <1>10, <1>11, <1>12, <1>13, <1>14, <1>15,
     <1>16, <1>17, <1>18, <1>19, <1>20, <1>21, <1>22, <1>23, <1>24, <1>25, <1>26, <1>27
  DEF TranscriptNext, SdkNext, FrontNext, WorkerNext, ReplaceNext


-----------------------------------------------------------------------------
(* Calls and their outputs.                                                *)

\* Pairs with no open call are pairs.
LEMMA BalancedWhole ==
    ASSUME NEW s
    PROVE  BalancedBut(s, 0) <=> Balanced(s)
  BY DEF BalancedBut, Balanced, Paired

\* What the SDK saves leaves at most its own call open.
LEMMA BalanceMoves ==
    ASSUME NEW s, NEW r, NEW n
    PROVE  /\ BalancedBut(s, 0) /\ ~IsTool(n) /\ Range(r) = Range(s) \cup {n}
                => BalancedBut(r, 0)
           /\ BalancedBut(s, 0) /\ Range(r) = Range(s) \cup {Item("call", n), Item("output", n)}
                => BalancedBut(r, 0)
           /\ n # 0 /\ BalancedBut(s, 0) /\ Range(r) = Range(s) \cup {Item("call", n)}
                => BalancedBut(r, n)
           /\ n # 0 /\ BalancedBut(s, n) /\ Range(r) = Range(s) \cup {Item("output", n)}
                => BalancedBut(r, 0)
<1> DEFINE c == Item("call", n)  o == Item("output", n)
<1>1. c.n = n /\ o.n = n
  BY ItemKinds
<1>2. ASSUME BalancedBut(s, 0), ~IsTool(n), Range(r) = Range(s) \cup {n}
      PROVE  BalancedBut(r, 0)
  BY <1>2 DEF BalancedBut
<1>3. ASSUME BalancedBut(s, 0), Range(r) = Range(s) \cup {c, o}
      PROVE  BalancedBut(r, 0)
  <2>1. ASSUME NEW i \in Range(r), IsTool(i)
        PROVE  {Item("call", i.n), Item("output", i.n)} \subseteq Range(r)
    <3>1. CASE i \in Range(s)
      BY <1>3, <2>1, <3>1 DEF BalancedBut
    <3>2. CASE i \in {c, o}
      BY <1>1, <1>3, <3>2
    <3> QED
      BY <1>3, <3>1, <3>2
  <2> QED
    BY <2>1 DEF BalancedBut
<1>4. ASSUME n # 0, BalancedBut(s, 0), Range(r) = Range(s) \cup {c}
      PROVE  BalancedBut(r, n)
  <2>1. ASSUME NEW i \in Range(r), IsTool(i), i.n # n
        PROVE  {Item("call", i.n), Item("output", i.n)} \subseteq Range(r)
    <3>1. i \in Range(s)
      BY <1>1, <1>4, <2>1
    <3> QED
      BY <1>4, <2>1, <3>1 DEF BalancedBut
  <2>2. c \in Range(r)
    BY <1>4
  <2> QED
    BY <1>4, <2>1, <2>2 DEF BalancedBut
<1>5. ASSUME n # 0, BalancedBut(s, n), Range(r) = Range(s) \cup {o}
      PROVE  BalancedBut(r, 0)
  <2>1. c \in Range(s)
    BY <1>5 DEF BalancedBut
  <2>2. ASSUME NEW i \in Range(r), IsTool(i)
        PROVE  {Item("call", i.n), Item("output", i.n)} \subseteq Range(r)
    <3>1. CASE i.n = n
      BY <1>5, <2>1, <3>1
    <3>2. CASE i.n # n
      <4>1. i \in Range(s)
        BY <1>1, <1>5, <2>2, <3>2
      <4> QED
        BY <1>5, <2>2, <3>2, <4>1 DEF BalancedBut
    <3> QED
      BY <3>1, <3>2
  <2> QED
    BY <2>2 DEF BalancedBut
<1> QED
  BY <1>2, <1>3, <1>4, <1>5

\* Every step keeps what is known of the tools.
LEMMA ToolsKept ==
    ASSUME TranscriptTyped, FrontPlaced, SdkPlaced, RewritesKnown, unrepaired \/ ToolsKnown,
           [TranscriptNext]_transcriptVars
    PROVE  unrepaired' \/ ToolsKnown'
<1>1. /\ front \in FrontRecords /\ history \in Seq(Items) /\ front.seen \in Seq(Items)
      /\ front.next \in Seq(Items) /\ sdk \in {"none", "started", "running", "late"}
  BY DEF TranscriptTyped, FrontRecords
<1>2. ASSUME front'.at \in {"idle", "settle", "repair", "capture"},
             sdk' \notin {"started", "running"}
      PROVE  ToolsKnown'
  BY <1>2 DEF ToolsKnown
<1>3. sdk = "late" => /\ front.at # "preflight"
                      /\ ~(front.job \in {"preflight", "overflow"}
                           /\ front.at \in {"compact", "summarize", "replace"})
  BY DEF SdkPlaced, FrontPlaced
<1>4. sdk \in {"started", "running"} => front.at = "run"
  BY DEF SdkPlaced
<1>5. ASSUME UNCHANGED <<history, sdk, calling>>, front'.at = front.at, front'.job = front.job,
             unrepaired' = unrepaired
      PROVE  unrepaired' \/ ToolsKnown'
  <2>1. CASE unrepaired
    BY <1>5, <2>1
  <2>2. CASE ToolsKnown
    BY <1>5, <2>2 DEF ToolsKnown, Balanced, BalancedBut, EndsWithPair
  <2> QED
    BY <2>1, <2>2
<1>6. CASE SdkSavesInput
  <2> SUFFICES ASSUME ~unrepaired PROVE ToolsKnown'
    BY <1>6 DEF SdkSavesInput, Foreground
  <2>1. /\ front.at = "run" /\ UNCHANGED <<front, calling>> /\ calling = 0 /\ sdk' = "running"
        /\ BalancedBut(history, 0)
    BY <1>6, <1>4 DEF SdkSavesInput, Foreground, SdkPlaced, ToolsKnown
  <2>2. Item("user", asked) \in Items /\ Item("user", asked) # FileItem
    <3>1. asked \in 1 .. MaxAsked
      BY <2>1, <1>6, TranscriptConstants DEF SdkSavesInput, TranscriptTyped, FrontPlaced
    <3> QED
      BY <3>1, ItemsSent, ItemKinds
  <2>3. Range(history') = Range(history) \cup {Item("user", asked)}
    <3>1. PICK x : x = Item("user", asked)
      OBVIOUS
    <3>2. SdkWrites(<<x>>)
      BY <1>6, <3>1 DEF SdkSavesInput
    <3> QED
      BY <2>2, <3>1, <3>2, OneSaved
  <2>4. BalancedBut(history', 0)
    BY <2>1, <2>3, ItemKinds, BalanceMoves
  <2>5. BalancedBut(history, calling)'
    BY <2>1, <2>4 DEF BalancedBut
  <2> QED
    BY <2>1, <2>5 DEF ToolsKnown
<1>7. CASE SdkSavesCall
  <2> SUFFICES ASSUME ~unrepaired PROVE ToolsKnown'
    BY <1>7 DEF SdkSavesCall, Foreground
  <2>1. CASE sdk = "late"
    <3>1. /\ front'.at = front.at /\ front'.job = front.job /\ sdk' = "late"
      BY <2>1, <1>7 DEF SdkSavesCall, Foreground
    <3> QED
      BY <2>1, <3>1, <1>3 DEF ToolsKnown
  <2>2. CASE sdk = "running"
    <3>1. /\ front.at = "run" /\ UNCHANGED <<front, sdk>> /\ BalancedBut(history, 0)
      BY <1>7, <2>2, <1>4 DEF SdkSavesCall, Foreground, ToolsKnown
    <3> DEFINE n == called + 1
    <3>2. n \in 1 .. MaxToolCalls
      BY <1>7, TranscriptConstants DEF SdkSavesCall, TranscriptTyped
    <3>3. PICK c : c = Item("call", n)
      OBVIOUS
    <3>4. PICK o : o = Item("output", n)
      OBVIOUS
    <3>5. c \in Items /\ o \in Items /\ c # FileItem /\ o # FileItem
      BY <3>2, <3>3, <3>4, ItemsSent, ItemKinds
    <3>6. /\ <<c, o>> \in Seq(Items) /\ Range(<<c, o>>) = {c, o}
          /\ <<c>> \in Seq(Items) /\ Range(<<c>>) = {c}
      BY <3>5, ShortSeqs
    <3>7. \/ SdkWrites(<<c, o>>) /\ UNCHANGED calling
          \/ SdkWrites(<<c>>) /\ calling' = n
      BY <1>7, <3>3, <3>4 DEF SdkSavesCall
    <3> HIDE DEF n
    <3>8. BalancedBut(history', calling')
      <4>1. CASE SdkWrites(<<c, o>>) /\ UNCHANGED calling
        <5>1. Range(history') = Range(history) \cup {c, o}
          BY <3>5, <3>6, <4>1, SdkAdds
        <5>2. calling' = 0
          BY <1>7, <4>1 DEF SdkSavesCall
        <5>3. BalancedBut(history', 0)
          BY <3>1, <3>3, <3>4, <5>1, BalanceMoves
        <5> QED
          BY <5>2, <5>3
      <4>2. CASE SdkWrites(<<c>>) /\ calling' = n
        <5>1. Range(history') = Range(history) \cup {c}
          BY <3>5, <3>6, <4>2, SdkAdds
        <5>2. n # 0
          BY <3>2
        <5>3. BalancedBut(history', n)
          BY <3>1, <3>3, <5>1, <5>2, BalanceMoves
        <5> QED
          BY <4>2, <5>3
      <4> QED
        BY <3>7, <4>1, <4>2
    <3>9. BalancedBut(history, calling)'
      BY <3>8 DEF BalancedBut
    <3> QED
      BY <2>2, <3>1, <3>9 DEF ToolsKnown
  <2> QED
    BY <1>7, <2>1, <2>2 DEF SdkSavesCall
<1>8. CASE SdkSavesOutput
  <2> SUFFICES ASSUME ~unrepaired PROVE ToolsKnown'
    BY <1>8 DEF SdkSavesOutput, Foreground
  <2>1. CASE sdk = "late"
    <3>1. /\ front'.at = front.at /\ front'.job = front.job /\ sdk' = "late"
      BY <2>1, <1>8 DEF SdkSavesOutput, Foreground
    <3> QED
      BY <2>1, <3>1, <1>3 DEF ToolsKnown
  <2>2. CASE sdk = "running"
    <3>1. /\ front.at = "run" /\ UNCHANGED <<front, sdk>> /\ BalancedBut(history, calling)
          /\ calling # 0 /\ calling' = 0
      BY <1>8, <2>2, <1>4 DEF SdkSavesOutput, Foreground, ToolsKnown
    <3>2. Item("output", calling) \in Items /\ Item("output", calling) # FileItem
      <4>1. calling \in 1 .. MaxToolCalls
        BY <3>1, TranscriptConstants DEF TranscriptTyped
      <4> QED
        BY <4>1, ItemsSent, ItemKinds
    <3>3. Range(history') = Range(history) \cup {Item("output", calling)}
      <4>1. PICK x : x = Item("output", calling)
        OBVIOUS
      <4>2. SdkWrites(<<x>>)
        BY <1>8, <4>1 DEF SdkSavesOutput
      <4> QED
        BY <3>2, <4>1, <4>2, OneSaved
    <3>4. BalancedBut(history', 0)
      BY <3>1, <3>3, BalanceMoves
    <3>5. BalancedBut(history, calling)'
      BY <3>1, <3>4 DEF BalancedBut
    <3> QED
      BY <2>2, <3>1, <3>5 DEF ToolsKnown
  <2> QED
    BY <1>8, <2>1, <2>2 DEF SdkSavesOutput
<1>9. CASE SdkSettles
  <2>1. /\ sdk = "late" /\ sdk' = "none" /\ UNCHANGED front
    BY <1>9 DEF SdkSettles, Foreground
  <2> QED
    BY <2>1, <1>3 DEF ToolsKnown
<1>10. CASE TurnAsked
  <2>1. front'.at = "settle"
    BY <1>10, <1>1 DEF TurnAsked, FrontGoes, FrontEnds, IdleFront, FrontRecords
  <2>2. sdk' \notin {"started", "running"}
    BY <1>10, <1>4, <1>1 DEF TurnAsked, Sdk, FrontAt
  <2> QED
    BY <1>2, <2>1, <2>2
<1>11. CASE TurnSettles
  <2>1. front'.at \in {"idle", "repair"}
    BY <1>11, <1>1 DEF TurnSettles, FrontGoes, FrontEnds, IdleFront, FrontRecords
  <2>2. sdk' \notin {"started", "running"}
    BY <1>11, <1>4, <1>1 DEF TurnSettles, Sdk, FrontAt
  <2> QED
    BY <1>2, <2>1, <2>2
<1>12. CASE TurnRepairs
  <2> SUFFICES ASSUME ~unrepaired' PROVE ToolsKnown'
    OBVIOUS
  <2>1. front.at = "repair" /\ front.job = "turn" /\ sdk' \notin {"started", "running"}
    BY <1>12, <1>4 DEF TurnRepairs, FrontAt, FrontPlaced, Sdk
  <2>2. CASE Replayable(history) = history /\ history' = Closed(history) /\ FrontGoes("preflight")
    <3>1. front'.at = "preflight" /\ front'.job = "turn"
      BY <1>1, <2>1, <2>2 DEF FrontGoes, FrontRecords
    <3>2. Balanced(history)
      BY <1>1, <2>2, ReplayableFacts
    <3>3. Balanced(Closed(history)) /\ ~EndsWithPair(Closed(history))
      BY <1>1, <3>2, ClosedFacts
    <3>4. Balanced(history)' /\ ~EndsWithPair(history)'
      BY <2>2, <3>3 DEF Balanced, EndsWithPair
    <3> QED
      BY <2>1, <3>1, <3>4 DEF ToolsKnown
  <2>3. CASE Replaces("repair", history, Replayable(history))
    <3>1. front'.at = "replace" /\ front'.job = "repair"
      BY <1>1, <2>3 DEF Replaces, FrontRecords
    <3> QED
      BY <2>1, <3>1 DEF ToolsKnown
  <2> QED
    BY <1>12, <2>2, <2>3 DEF TurnRepairs
<1>13. CASE TurnRuns
  <2> SUFFICES ASSUME ~unrepaired PROVE ToolsKnown'
    BY <1>13 DEF TurnRuns
  <2>1. /\ front.at = "preflight" /\ front'.at = "run" /\ front'.job = front.job
        /\ sdk = "none" /\ sdk' = "started" /\ UNCHANGED <<history, calling>>
    BY <1>13, <1>1, <1>3, <1>4 DEF TurnRuns, FrontAt, FrontGoes, FrontRecords
  <2>2. calling = 0 /\ Balanced(history) /\ (front.job = "turn" => ~EndsWithPair(history))
    BY <2>1 DEF SdkPlaced, ToolsKnown
  <2>3. BalancedBut(history, 0)
    BY <2>2, BalancedWhole
  <2>4. BalancedBut(history, calling)' /\ (front.job = "turn" => ~EndsWithPair(history)')
    BY <2>1, <2>2, <2>3 DEF BalancedBut, EndsWithPair
  <2> QED
    BY <2>1, <2>4 DEF ToolsKnown
<1>14. CASE TurnRejected
  <2>1. front'.at = "idle"
    BY <1>14, <1>1 DEF TurnRejected, FrontGoes, FrontEnds, IdleFront, FrontRecords
  <2>2. sdk' \notin {"started", "running"}
    BY <1>14, <1>4, <1>1 DEF TurnRejected, Sdk, FrontAt
  <2> QED
    BY <1>2, <2>1, <2>2
<1>15. CASE TurnAnswered
  <2>1. front'.at = "capture"
    BY <1>15, <1>1 DEF TurnAnswered, FrontGoes, FrontEnds, IdleFront, FrontRecords
  <2>2. sdk' \notin {"started", "running"}
    BY <1>15, <1>4, <1>1 DEF TurnAnswered, Sdk, FrontAt
  <2> QED
    BY <1>2, <2>1, <2>2
<1>16. CASE TurnOverflows
  <2> SUFFICES ASSUME ~unrepaired PROVE ToolsKnown'
    BY <1>16 DEF TurnOverflows
  <2>1. /\ front'.at = "compact" /\ sdk' = "none" /\ UNCHANGED history
        /\ BalancedBut(history, 0)
    BY <1>16, <1>1 DEF TurnOverflows, Running, FrontRecords, ToolsKnown
  <2>2. Balanced(history)'
    BY <2>1, BalancedWhole DEF Balanced
  <2> QED
    BY <2>1, <2>2 DEF ToolsKnown
<1>17. CASE TurnOver
  <2>1. front'.at = "idle"
    BY <1>17, <1>1 DEF TurnOver, FrontGoes, FrontEnds, IdleFront, FrontRecords
  <2>2. sdk' \notin {"started", "running"}
    BY <1>17, <1>4, <1>1 DEF TurnOver, Sdk, FrontAt
  <2> QED
    BY <1>2, <2>1, <2>2
<1>18. CASE TurnCompacts
  <2> SUFFICES ASSUME ~unrepaired PROVE ToolsKnown'
    BY <1>18 DEF TurnCompacts
  <2>1. /\ front'.at = "compact" /\ UNCHANGED history
        /\ \/ front.at = "preflight"
           \/ front'.job = "capture"
    BY <1>18, <1>1 DEF TurnCompacts, FrontAt, FrontRecords
  <2>2. sdk' \notin {"started", "running"}
    BY <1>18, <1>4, <1>1 DEF TurnCompacts, Sdk, FrontAt
  <2>3. front.at = "preflight" => Balanced(history)'
    BY <2>1 DEF ToolsKnown, Balanced
  <2> QED
    BY <2>1, <2>2, <2>3 DEF ToolsKnown
<1>19. CASE CompactCommand
  <2>1. front'.at = "compact" /\ front'.job = "compact" /\ sdk' \notin {"started", "running"}
    BY <1>19, <1>1, <1>4 DEF CompactCommand, Sdk, FrontAt, IdleFront
  <2> QED
    BY <2>1 DEF ToolsKnown
<1>20. CASE CompactReads
  <2> SUFFICES ASSUME ~unrepaired PROVE ToolsKnown'
    BY <1>20 DEF CompactReads
  <2>1. /\ front.at = "compact" /\ front'.at = "summarize" /\ front'.job = front.job
        /\ UNCHANGED history /\ sdk' \notin {"started", "running"}
    BY <1>20, <1>1, <1>4 DEF CompactReads, FrontAt, Sdk, FrontRecords
  <2>2. front.job \in {"preflight", "overflow"} => Balanced(history)'
    BY <2>1 DEF ToolsKnown, Balanced
  <2> QED
    BY <2>1, <2>2 DEF ToolsKnown
<1>21. CASE CompactSummarized
  <2> SUFFICES ASSUME ~unrepaired PROVE ToolsKnown'
    BY <1>21 DEF CompactSummarized
  <2>1. /\ front.at = "summarize" /\ front.job \in CompactJobs /\ UNCHANGED history
    BY <1>21 DEF CompactSummarized, FrontAt, FrontPlaced
  <2>2. front.job \in {"preflight", "overflow"} => Balanced(history)'
    BY <2>1 DEF ToolsKnown, Balanced
  <2>3. CASE Replaces(front.job, front.seen, Compacted(Compactable(front.seen))) /\ Sdk
    <3>1. /\ front'.at = "replace" /\ front'.job = front.job /\ sdk' \notin {"started", "running"}
      BY <1>1, <1>4, <2>1, <2>3 DEF Replaces, Sdk, FrontRecords
    <3> QED
      BY <2>2, <3>1 DEF ToolsKnown
  <2>4. CASE Resumes(front.job) /\ Sdk /\ front.job # "overflow"
    <3>1. sdk' \notin {"started", "running"}
      BY <2>4, <2>1, <1>4 DEF Sdk
    <3>2. CASE front.job = "repair"
      BY <2>1, <3>2 DEF CompactJobs
    <3>3. CASE front.job = "preflight"
      <4>1. front'.at = "preflight" /\ front'.job = "preflight"
        BY <2>4, <3>3, Resumed
      <4> QED
        BY <2>2, <3>1, <3>3, <4>1 DEF ToolsKnown
    <3>4. CASE front.job \notin {"repair", "preflight"}
      <4>1. front'.at = "idle"
        BY <2>4, <3>4, Resumed
      <4> QED
        BY <1>2, <3>1, <4>1
    <3> QED
      BY <3>2, <3>3, <3>4
  <2>5. CASE ResumesOverflow /\ front.job = "overflow"
    <3>1. /\ front'.at = "run" /\ front'.job = "overflow" /\ sdk' = "started"
          /\ UNCHANGED calling
      BY <2>5, ResumedOverflow
    <3>2. calling = 0
      BY <1>1, <1>4, <2>1, <2>5 DEF SdkPlaced
    <3>3. BalancedBut(history', 0)
      BY <2>2, <2>5, BalancedWhole DEF Balanced
    <3>4. BalancedBut(history, calling)'
      BY <3>1, <3>2, <3>3 DEF BalancedBut
    <3> QED
      BY <3>1, <3>4 DEF ToolsKnown
  <2> QED
    BY <1>21, <2>3, <2>4, <2>5 DEF CompactSummarized
<1>22. CASE RewindCommand
  <2>1. front'.at = "replace" /\ front'.job = "rewind" /\ sdk' \notin {"started", "running"}
    BY <1>22, <1>1, <1>4 DEF RewindCommand, Replaces, Sdk, FrontAt, FrontRecords
  <2> QED
    BY <2>1 DEF ToolsKnown
<1>23. CASE SummaryCancelled
  <2>1. front'.at = "idle"
    BY <1>23, <1>1 DEF SummaryCancelled, FrontGoes, FrontEnds, IdleFront, FrontRecords
  <2>2. sdk' \notin {"started", "running"}
    BY <1>23, <1>4, <1>1 DEF SummaryCancelled, Sdk, FrontAt
  <2> QED
    BY <1>2, <2>1, <2>2
<1>24. CASE WorkerDecides
  BY <1>24, <1>5 DEF WorkerDecides, Sdk
<1>25. CASE WorkerCommits
  <2> SUFFICES ASSUME ~unrepaired PROVE ToolsKnown'
    BY <1>25 DEF WorkerCommits
  <2>1. /\ front.at = "replace" /\ UNCHANGED front /\ history' = front.next
        /\ worker = "committing" /\ sdk' \notin {"started", "running"}
    BY <1>25, <1>4 DEF WorkerCommits, FrontPlaced, Sdk
  <2>2. ASSUME front.job \in {"preflight", "overflow"} PROVE Balanced(history)'
    <3>1. history = front.seen /\ front.next = Compacted(Compactable(front.seen))
      BY <2>1, <2>2 DEF RewritesKnown, QuietJobs, CompactJobs
    <3>2. Balanced(history)
      BY <2>1, <2>2 DEF ToolsKnown
    <3>3. Balanced(front.next)
      BY <1>1, <3>1, <3>2, CompactableFacts, CompactedFacts
    <3> QED
      BY <2>1, <3>3 DEF Balanced
  <2> QED
    BY <2>1, <2>2 DEF ToolsKnown
<1>26. CASE WorkerFails
  BY <1>26, <1>5 DEF WorkerFails, Sdk
<1>27. CASE ReplaceSucceeds
  <2> SUFFICES ASSUME ~unrepaired' PROVE ToolsKnown'
    OBVIOUS
  <2>1. front.at = "replace" /\ worker = "committed" /\ ~unrepaired
    BY <1>27 DEF ReplaceSucceeds, FrontPlaced
  <2>2. ASSUME front.job \in {"preflight", "overflow"} PROVE Balanced(history)'
    <3>1. PICK files \in Attached : history' = history \o files
      BY <1>27, <2>2 DEF ReplaceSucceeds
    <3>2. Balanced(history)
      BY <2>1, <2>2 DEF ToolsKnown
    <3>3. files \in Seq(Items) /\ Range(files) \subseteq {FileItem}
      BY AttachedItems
    <3>4. Range(history \o files) = Range(history) \cup Range(files)
      BY <1>1, <3>3, RangeConcatenation
    <3>5. Balanced(history \o files)
      BY <3>2, <3>3, <3>4, ItemKinds DEF Balanced, Paired
    <3> QED
      BY <3>1, <3>5 DEF Balanced
  <2>3. CASE Resumes(front.job) /\ Sdk /\ front.job # "overflow"
    <3>1. sdk' \notin {"started", "running"}
      BY <2>3, <2>1, <1>4 DEF Sdk
    <3>2. CASE front.job = "repair"
      <4>1. history' = Closed(history) /\ history = Replayable(front.seen)
        BY <1>27, <2>1, <3>2 DEF ReplaceSucceeds, RewritesKnown, QuietJobs
      <4>2. Balanced(history)
        BY <1>1, <4>1, ReplayableFacts
      <4>3. Balanced(Closed(history)) /\ ~EndsWithPair(Closed(history))
        BY <1>1, <4>2, ClosedFacts
      <4>4. Balanced(history)' /\ ~EndsWithPair(history)'
        BY <4>1, <4>3 DEF Balanced, EndsWithPair
      <4>5. front'.at = "preflight" /\ front'.job = "turn"
        BY <2>3, <3>2, Resumed
      <4> QED
        BY <3>1, <4>4, <4>5 DEF ToolsKnown
    <3>3. CASE front.job = "preflight"
      <4>1. front'.at = "preflight" /\ front'.job = "preflight"
        BY <2>3, <3>3, Resumed
      <4> QED
        BY <2>2, <3>1, <3>3, <4>1 DEF ToolsKnown
    <3>4. CASE front.job \notin {"repair", "preflight"}
      <4>1. front'.at = "idle"
        BY <2>3, <3>4, Resumed
      <4> QED
        BY <1>2, <3>1, <4>1
    <3> QED
      BY <3>2, <3>3, <3>4
  <2>4. CASE ResumesOverflow /\ front.job = "overflow"
    <3>1. /\ front'.at = "run" /\ front'.job = "overflow" /\ sdk' = "started"
          /\ UNCHANGED calling
      BY <2>4, ResumedOverflow
    <3>2. calling = 0
      BY <1>1, <1>4, <2>1, <2>4 DEF SdkPlaced
    <3>3. BalancedBut(history', 0)
      BY <2>2, <2>4, BalancedWhole DEF Balanced
    <3>4. BalancedBut(history, calling)'
      BY <3>1, <3>2, <3>3 DEF BalancedBut
    <3> QED
      BY <3>1, <3>4 DEF ToolsKnown
  <2> QED
    BY <1>27, <2>3, <2>4 DEF ReplaceSucceeds
<1>28. CASE ReplaceCancelled
  <2>1. front'.at = "idle"
    BY <1>28, <1>1 DEF ReplaceCancelled, FrontGoes, FrontEnds, IdleFront, FrontRecords
  <2>2. sdk' \notin {"started", "running"}
    BY <1>28, <1>4, <1>1 DEF ReplaceCancelled, Sdk, FrontAt, FrontPlaced
  <2> QED
    BY <1>2, <2>1, <2>2
<1>29. CASE ReplaceFails
  <2> SUFFICES ASSUME ~unrepaired, front.job # "repair" PROVE ToolsKnown'
    BY <1>29 DEF ReplaceFails
  <2>1. front.at = "replace" /\ UNCHANGED history
    BY <1>29 DEF ReplaceFails, FrontPlaced
  <2>2. front.job \in {"preflight", "overflow"} => Balanced(history)'
    BY <2>1 DEF ToolsKnown, Balanced
  <2>3. CASE Resumes(front.job) /\ Sdk /\ front.job # "overflow"
    <3>1. sdk' \notin {"started", "running"}
      BY <2>3, <2>1, <1>4 DEF Sdk
    <3>2. CASE front.job = "repair"
      BY <3>2
    <3>3. CASE front.job = "preflight"
      <4>1. front'.at = "preflight" /\ front'.job = "preflight"
        BY <2>3, <3>3, Resumed
      <4> QED
        BY <2>2, <3>1, <3>3, <4>1 DEF ToolsKnown
    <3>4. CASE front.job \notin {"repair", "preflight"}
      <4>1. front'.at = "idle"
        BY <2>3, <3>4, Resumed
      <4> QED
        BY <1>2, <3>1, <4>1
    <3> QED
      BY <3>2, <3>3, <3>4
  <2>4. CASE ResumesOverflow /\ front.job = "overflow"
    <3>1. /\ front'.at = "run" /\ front'.job = "overflow" /\ sdk' = "started"
          /\ UNCHANGED calling
      BY <2>4, ResumedOverflow
    <3>2. calling = 0
      BY <1>1, <1>4, <2>1, <2>4 DEF SdkPlaced
    <3>3. BalancedBut(history', 0)
      BY <2>2, <2>4, BalancedWhole DEF Balanced
    <3>4. BalancedBut(history, calling)'
      BY <3>1, <3>2, <3>3 DEF BalancedBut
    <3> QED
      BY <3>1, <3>4 DEF ToolsKnown
  <2> QED
    BY <1>29, <2>3, <2>4 DEF ReplaceFails
<1>30. CASE FrontCancelled
  BY <1>30, <1>1, <1>5 DEF FrontCancelled, Sdk, FrontRecords
<1>31. CASE UNCHANGED transcriptVars
  BY <1>31 DEF transcriptVars, ToolsKnown, Balanced, BalancedBut, EndsWithPair
<1> QED
  BY <1>6, <1>7, <1>8, <1>9, <1>10, <1>11, <1>12, <1>13, <1>14, <1>15, <1>16, <1>17, <1>18, <1>19,
     <1>20, <1>21, <1>22, <1>23, <1>24, <1>25, <1>26, <1>27, <1>28, <1>29, <1>30, <1>31
  DEF TranscriptNext, SdkNext, FrontNext, WorkerNext, ReplaceNext


-----------------------------------------------------------------------------
(* What is not lost.                                                       *)

\* Every step keeps what was written, or accounts for it.
LEMMA WrittenKept ==
    ASSUME TranscriptTyped, FrontPlaced, SdkPlaced, RewritesKnown, TranscriptKept,
           [TranscriptNext]_transcriptVars
    PROVE  TranscriptKept'
<1>1. /\ front \in FrontRecords /\ history \in Seq(Items) /\ front.seen \in Seq(Items)
      /\ front.next \in Seq(Items) /\ written \subseteq Items \ {FileItem}
  BY DEF TranscriptTyped, FrontRecords
<1>2. ASSUME UNCHANGED <<crossed, accounted, written>>, Range(history) \subseteq Range(history')
      PROVE  TranscriptKept'
  <2>1. TranscriptKept' <=> crossed' \/ written' \subseteq Range(history') \cup accounted'
    BY DEF TranscriptKept
  <2> QED
    BY <1>2, <2>1 DEF TranscriptKept
<1>3. ASSUME NEW items \in Seq(Items), FileItem \notin Range(items), SdkWrites(items),
             UNCHANGED <<crossed, accounted>>
      PROVE  TranscriptKept'
  <2>1. /\ Range(history') = Range(history) \cup Range(items)
        /\ written' = written \cup Range(items)
    BY <1>3, SdkAdds
  <2>2. TranscriptKept' <=> crossed' \/ written' \subseteq Range(history') \cup accounted'
    BY DEF TranscriptKept
  <2> QED
    BY <1>3, <2>1, <2>2 DEF TranscriptKept
<1>4. CASE SdkSavesInput
  <2>1. Item("user", asked) \in Items /\ Item("user", asked) # FileItem
    <3>1. asked \in 1 .. MaxAsked
      BY <1>4, TranscriptConstants DEF SdkSavesInput, TranscriptTyped, FrontPlaced, SdkPlaced
    <3> QED
      BY <3>1, ItemsSent, ItemKinds
  <2>2. /\ <<Item("user", asked)>> \in Seq(Items) /\ FileItem \notin Range(<<Item("user", asked)>>)
    BY <2>1, ShortSeqs
  <2> QED
    BY <1>4, <1>3, <2>2 DEF SdkSavesInput, Foreground
<1>5. CASE SdkSavesCall
  <2> DEFINE n == called + 1
  <2>1. n \in 1 .. MaxToolCalls
    BY <1>5, TranscriptConstants DEF SdkSavesCall, TranscriptTyped
  <2>2. PICK c : c = Item("call", n)
    OBVIOUS
  <2>3. PICK o : o = Item("output", n)
    OBVIOUS
  <2>4. c \in Items /\ o \in Items /\ c # FileItem /\ o # FileItem
    BY <2>1, <2>2, <2>3, ItemsSent, ItemKinds
  <2>5. /\ <<c, o>> \in Seq(Items) /\ FileItem \notin Range(<<c, o>>)
        /\ <<c>> \in Seq(Items) /\ FileItem \notin Range(<<c>>)
    BY <2>4, ShortSeqs
  <2>6. SdkWrites(<<c, o>>) \/ SdkWrites(<<c>>)
    BY <1>5, <2>2, <2>3 DEF SdkSavesCall
  <2> QED
    BY <1>5, <1>3, <2>5, <2>6 DEF SdkSavesCall, Foreground
<1>6. CASE SdkSavesOutput
  <2>1. Item("output", calling) \in Items /\ Item("output", calling) # FileItem
    <3>1. calling \in 1 .. MaxToolCalls
      BY <1>6, TranscriptConstants DEF SdkSavesOutput, TranscriptTyped
    <3> QED
      BY <3>1, ItemsSent, ItemKinds
  <2>2. /\ <<Item("output", calling)>> \in Seq(Items)
        /\ FileItem \notin Range(<<Item("output", calling)>>)
    BY <2>1, ShortSeqs
  <2> QED
    BY <1>6, <1>3, <2>2 DEF SdkSavesOutput, Foreground
<1>7. CASE SdkSettles
  BY <1>7, <1>2 DEF SdkSettles, Foreground
<1>8. CASE TurnAsked
  BY <1>8, <1>2 DEF TurnAsked, Sdk
<1>9. CASE TurnSettles
  BY <1>9, <1>2 DEF TurnSettles, Sdk
<1>10. CASE TurnRepairs
  <2>1. Range(history) \subseteq Range(Closed(history))
    BY <1>1, ClosedFacts
  <2>2. history' = history \/ history' = Closed(history)
    BY <1>10 DEF TurnRepairs
  <2> QED
    BY <1>10, <1>2, <2>1, <2>2 DEF TurnRepairs, Sdk
<1>11. CASE TurnRuns
  BY <1>11, <1>2 DEF TurnRuns, Sdk
<1>12. CASE TurnRejected
  BY <1>12, <1>2 DEF TurnRejected, Sdk
<1>13. CASE TurnAnswered
  <2>1. Item("text", asked) \in Items /\ Item("text", asked) # FileItem
    <3>1. asked \in 1 .. MaxAsked
      BY <1>13, TranscriptConstants
      DEF TurnAnswered, FrontAt, Running, TranscriptTyped, FrontPlaced, SdkPlaced
    <3> QED
      BY <3>1, ItemsSent, ItemKinds
  <2>2. /\ <<Item("text", asked)>> \in Seq(Items) /\ FileItem \notin Range(<<Item("text", asked)>>)
    BY <2>1, ShortSeqs
  <2>3. SdkWrites(<<Item("text", asked)>>) \/ UNCHANGED <<history, written>>
    BY <1>13 DEF TurnAnswered
  <2> QED
    BY <1>13, <1>2, <1>3, <2>2, <2>3 DEF TurnAnswered
<1>14. CASE TurnOverflows
  BY <1>14, <1>2 DEF TurnOverflows, Sdk
<1>15. CASE TurnOver
  BY <1>15, <1>2 DEF TurnOver, Sdk
<1>16. CASE TurnCompacts
  BY <1>16, <1>2 DEF TurnCompacts, Sdk
<1>17. CASE CompactCommand
  BY <1>17, <1>2 DEF CompactCommand, Sdk
<1>18. CASE CompactReads
  BY <1>18, <1>2 DEF CompactReads, Sdk
<1>19. CASE CompactSummarized
  <2>1. UNCHANGED <<crossed, accounted, history>>
    BY <1>19 DEF CompactSummarized
  <2>2. UNCHANGED written
    BY <1>19, ResumedOverflow DEF CompactSummarized, Sdk
  <2> QED
    BY <1>2, <2>1, <2>2
<1>20. CASE RewindCommand
  BY <1>20, <1>2 DEF RewindCommand, Sdk
<1>21. CASE SummaryCancelled
  BY <1>21, <1>2 DEF SummaryCancelled, Sdk
<1>22. CASE WorkerDecides
  BY <1>22, <1>2 DEF WorkerDecides, Sdk
<1>23. CASE WorkerCommits
  <2> DEFINE lost == Range(front.seen) \ Range(front.next)
  <2>1. /\ history' = front.next /\ UNCHANGED written /\ accounted \subseteq accounted'
        /\ front.at = "replace" /\ front.job \in CompactJobs \cup {"repair", "rewind"}
        /\ worker = "committing" /\ (crossed => crossed')
    BY <1>23 DEF WorkerCommits, Sdk, FrontPlaced
  <2> SUFFICES ASSUME ~crossed' PROVE written' \subseteq Range(history') \cup accounted'
    BY DEF TranscriptKept
  <2>2. history = front.seen
    <3>1. CASE front.job \in QuietJobs
      BY <2>1, <3>1 DEF RewritesKnown
    <3>2. CASE front.job \in {"compact", "rewind", "capture"}
      BY <1>23, <3>2 DEF WorkerCommits
    <3> QED
      BY <2>1, <3>1, <3>2 DEF CompactJobs, QuietJobs
  <2>3. written \subseteq Range(front.seen) \cup accounted
    BY <2>1, <2>2 DEF TranscriptKept
  <2>4. lost \ {FileItem} \subseteq accounted'
    <3>1. CASE front.job = "rewind"
      BY <1>23, <3>1 DEF WorkerCommits
    <3>2. CASE front.job = "repair"
      <4>1. Range(front.next) = Paired(Range(front.seen))
        BY <1>1, <2>1, <3>2, ReplayableFacts DEF RewritesKnown
      <4>2. \A i \in lost : IsTool(i)
        BY <4>1 DEF Paired
      <4> QED
        BY <1>23, <3>2, <4>2 DEF WorkerCommits
    <3>3. CASE front.job \in CompactJobs
      <4>1. PICK m : m = Compactable(front.seen)
        OBVIOUS
      <4>2. m \in Seq(Items) /\ Range(m) = Range(front.seen) \ {FileItem}
        BY <1>1, <4>1, CompactableFacts
      <4>3. front.next = Compacted(m)
        BY <2>1, <3>3, <4>1 DEF RewritesKnown
      <4>4. Range(m) \ Range(Compacted(m)) \subseteq Summarized(m)
        BY <4>2, CompactedFacts
      <4>5. Summarized(m) \subseteq accounted'
        BY <1>23, <3>3, <4>1 DEF WorkerCommits, CompactJobs
      <4> QED
        BY <4>2, <4>3, <4>4, <4>5
    <3> QED
      BY <2>1, <3>1, <3>2, <3>3
  <2> HIDE DEF lost
  <2>5. written \subseteq Range(front.next) \cup lost \cup accounted
    BY <2>3 DEF lost
  <2> QED
    BY <1>1, <2>1, <2>4, <2>5
<1>24. CASE WorkerFails
  BY <1>24, <1>2 DEF WorkerFails, Sdk
<1>25. CASE ReplaceSucceeds
  <2>1. UNCHANGED <<crossed, accounted, written>>
    BY <1>25, ResumedOverflow DEF ReplaceSucceeds, Sdk
  <2>2. \/ history' = history \/ history' = Closed(history)
        \/ \E files \in Attached : history' = history \o files
    BY <1>25 DEF ReplaceSucceeds
  <2>3. Range(history) \subseteq Range(Closed(history))
    BY <1>1, ClosedFacts
  <2>4. \A files \in Attached : Range(history) \subseteq Range(history \o files)
    <3>1. \A files \in Attached : files \in Seq(Items)
      BY AttachedItems
    <3> QED
      BY <1>1, <3>1, RangeConcatenation
  <2>5. Range(history) \subseteq Range(history')
    BY <2>2, <2>3, <2>4
  <2> QED
    BY <1>2, <2>1, <2>5
<1>26. CASE ReplaceCancelled
  BY <1>26, <1>2 DEF ReplaceCancelled, Sdk
<1>27. CASE ReplaceFails
  <2>1. UNCHANGED <<crossed, accounted, history>>
    BY <1>27 DEF ReplaceFails
  <2>2. UNCHANGED written
    BY <1>27, ResumedOverflow DEF ReplaceFails, Sdk
  <2> QED
    BY <1>2, <2>1, <2>2
<1>28. CASE FrontCancelled
  BY <1>28, <1>2 DEF FrontCancelled, Sdk
<1>29. CASE UNCHANGED transcriptVars
  BY <1>29 DEF transcriptVars, TranscriptKept
<1> QED
  BY <1>4, <1>5, <1>6, <1>7, <1>8, <1>9, <1>10, <1>11, <1>12, <1>13, <1>14, <1>15, <1>16, <1>17,
     <1>18, <1>19, <1>20, <1>21, <1>22, <1>23, <1>24, <1>25, <1>26, <1>27, <1>28, <1>29
  DEF TranscriptNext, SdkNext, FrontNext, WorkerNext, ReplaceNext

LEMMA TranscriptStart == TranscriptInit => TranscriptInv
<1> SUFFICES ASSUME TranscriptInit PROVE TranscriptInv
  OBVIOUS
<1>1. TranscriptTyped
  <2>1. history \in Seq(Items) /\ front \in FrontRecords
    BY IdleTyped, ShortSeqs DEF TranscriptInit
  <2>2. 0 \in 0 .. MaxToolCalls /\ 0 \in 0 .. MaxAsked
    BY TranscriptConstants
  <2> QED
    BY <2>1, <2>2 DEF TranscriptInit, TranscriptTyped
<1>2. FrontPlaced /\ SdkPlaced /\ RewritesKnown /\ ToolsKnown
  BY DEF TranscriptInit, IdleFront, FrontPlaced, SdkPlaced, RewritesKnown, ToolsKnown
<1>3. TranscriptKept
  BY DEF TranscriptInit, TranscriptKept
<1> QED
  BY <1>1, <1>2, <1>3 DEF TranscriptInv

LEMMA TranscriptStep == TranscriptInv /\ [TranscriptNext]_transcriptVars => TranscriptInv'
<1> SUFFICES ASSUME TranscriptInv, [TranscriptNext]_transcriptVars PROVE TranscriptInv'
  OBVIOUS
<1>1. /\ TranscriptTyped /\ FrontPlaced /\ SdkPlaced /\ RewritesKnown
      /\ unrepaired \/ ToolsKnown
      /\ TranscriptKept
  BY DEF TranscriptInv
<1>2. TranscriptTyped' /\ FrontPlaced' /\ SdkPlaced'
  BY <1>1, TypedKept, PlacedKept
<1>3. RewritesKnown' /\ TranscriptKept'
  BY <1>1, RewritesKept, WrittenKept
<1>4. unrepaired' \/ ToolsKnown'
  BY <1>1, ToolsKept
<1> QED
  BY <1>2, <1>3, <1>4 DEF TranscriptInv

LEMMA TranscriptHolds == TranscriptInv => TranscriptIsSound
<1> SUFFICES ASSUME TranscriptInv PROVE ModelGetsPairs
  BY DEF TranscriptInv, TranscriptIsSound
<1> SUFFICES ASSUME sdk = "started", ~unrepaired
             PROVE  Replayable(history) = history /\ (front.job = "turn" => ~EndsWithPair(history))
  BY DEF ModelGetsPairs
<1>1. calling = 0 /\ history \in Seq(Items)
  BY DEF TranscriptInv, SdkPlaced, TranscriptTyped
<1>2. BalancedBut(history, calling) /\ (front.job = "turn" => ~EndsWithPair(history))
  BY DEF TranscriptInv, ToolsKnown
<1> QED
  BY <1>1, <1>2, BalancedWhole, ReplayableFacts

\* Any number of prompts, tool calls and failing operations of the session, any
\* number of messages a compaction keeps: a run starts with whole pairs of calls
\* and outputs, closed by a message where a prompt follows, unless a repair
\* failed, and nothing the SDK saved is lost unless a rewrite crossed a run that
\* was still saving (_repair_unreplayable_session_items, replace_items).
THEOREM TranscriptStaysSound == TranscriptSpec => []TranscriptIsSound
<1> QED
  BY TranscriptStart, TranscriptStep, TranscriptHolds, PTL DEF TranscriptSpec
=============================================================================
