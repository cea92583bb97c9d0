------------------------------- MODULE Goals -------------------------------
(***************************************************************************)
(* A session's goal: the row in session_goals (core/goals.py), the turn    *)
(* accounting of GoalRuntime (core/goal_runtime.py), the goal tools of the *)
(* model (tools/goal.py), /goal (commands/interactive.py) and the hidden   *)
(* continuation turns of the scheduler (core/scheduler.py).                *)
(*                                                                         *)
(* Every operation of the store is one transaction, but a turn makes       *)
(* several: it reads the goal when it starts, reads it again when it ends, *)
(* charges it, stops it, and reads it once more to decide whether to go    *)
(* on.  Between any two of them a user's /goal may run: turns of cron jobs *)
(* and channels run while the prompt is free, and another process may have *)
(* the same session open.  Tokens are counted, seconds are not.            *)
(***************************************************************************)
EXTENDS Integers

CONSTANTS
    MaxGoals,           \* bound: goals made in one behaviour
    MaxContinuations,   \* KODER_GOAL_MAX_CONTINUATIONS
    MaxLoopTokens,      \* KODER_GOAL_MAX_CONTINUATION_TOKENS, 0 for no cap
    Budgets,            \* token budgets users and tools ask for
    Unlimited,          \* no budget
    MaxUsed,            \* bound: tokens one goal is charged for
    Costs,              \* tokens a turn may spend
    MaxStoreFailures    \* bound: store operations that fail

ASSUME GoalConstants ==
    /\ MaxGoals \in Nat /\ MaxContinuations \in Nat /\ MaxLoopTokens \in Nat
    /\ MaxUsed \in Nat /\ MaxStoreFailures \in Nat /\ Costs \subseteq Nat

VARIABLES
    row,        \* the goal of the session
    issued,     \* the number of goals made so far
    turn,       \* the turn in progress and the handle() call it belongs to
    reported,   \* _budget_limit_reported_goal_id
    edit,       \* a /goal edit between its read and its update
    failures,   \* store operations that failed so far
    spent,      \* history: tokens of the turns bound to the goal there is
    quiet       \* history: no /goal since the turn started, no failure

goalUser == <<row, issued, edit>>
goalVars == <<row, issued, turn, reported, edit, failures, spent, quiet>>

GoalIds == 1 .. MaxGoals
NoGoalId == 0
GoalStatuses == {"active", "paused", "blocked", "usage_limited", "budget_limited", "complete"}
NoRow == [id |-> NoGoalId, status |-> "complete", budget |-> Unlimited, used |-> 0]
NoEdit == [id |-> NoGoalId, status |-> "complete", budget |-> Unlimited]
Outcomes == {"ok", "error", "cancelled", "raised_error", "raised_cancel"}
IdleTurn == [at |-> "idle", goal |-> NoGoalId, created |-> FALSE, cost |-> 0,
             outcome |-> "ok", mode |-> {}, count |-> 0, loopTokens |-> 0]

GoalInit ==
    /\ row = NoRow /\ issued = 0 /\ turn = IdleTurn /\ reported = NoGoalId /\ edit = NoEdit
    /\ failures = 0 /\ quiet = TRUE
    /\ spent = 0

-----------------------------------------------------------------------------
(* The store.                                                              *)

AtBudget(used, budget) == budget # Unlimited /\ used >= budget

\* Nothing is stored as active at or over its budget.
Settled(status, used, budget) ==
    IF status = "active" /\ AtBudget(used, budget) THEN "budget_limited" ELSE status

\* update_goal: a budget-limited goal is neither paused nor blocked.
GoalUpdated(r, status, budget) ==
    [r EXCEPT !.budget = budget,
              !.status = IF r.status = "budget_limited" /\ status \in {"paused", "blocked"}
                         THEN @ ELSE Settled(status, r.used, budget)]

\* replace_goal and insert_goal: a fresh identity and nothing used.
Made(budget) == [id |-> issued + 1, status |-> Settled("active", 0, budget),
                 budget |-> budget, used |-> 0]

Stopped == {"active", "paused", "blocked", "usage_limited", "budget_limited"}

\* The statuses that may be charged, from the status read at the turn's end.
ModeFor(status) ==
    CASE status = "complete" -> {"active", "budget_limited", "complete"}
      [] status \in {"paused", "blocked", "usage_limited"} -> Stopped
      [] OTHER -> {"active", "budget_limited"}

\* account_usage.  Work in flight counts against a stopped goal as well, and
\* only the stopped mode lets a goal that is not active reach its limit.
Charged(r, cost, mode) ==
    LET limits == IF mode = Stopped THEN Stopped ELSE {"active"} IN
    [r EXCEPT !.used = @ + cost,
              !.status = IF @ \in limits /\ AtBudget(r.used + cost, r.budget)
                         THEN "budget_limited" ELSE @]

-----------------------------------------------------------------------------
(* The turn.                                                               *)

CanFail == failures < MaxStoreFailures
StoreFails == CanFail /\ failures' = failures + 1 /\ quiet' = FALSE
StoreWorks == UNCHANGED <<failures, quiet>>

\* (What the turn needs no more is forgotten.)
Goes(at) == turn' = [turn EXCEPT !.at = at, !.mode = {}, !.cost = 0, !.created = FALSE,
                                 !.goal = IF at = "stop" THEN @ ELSE NoGoalId]

\* handle() under the turn lock.
HandleBegins ==
    /\ turn.at = "idle"
    /\ turn' = [IdleTurn EXCEPT !.at = "start"]
    /\ UNCHANGED <<goalUser, reported, failures, spent, quiet>>

\* on_turn_start: an active or budget-limited goal is bound to the turn.
Starts(bound) ==
    /\ turn' = [turn EXCEPT !.at = "run", !.goal = bound, !.created = FALSE, !.cost = 0,
                            !.outcome = "ok"]
    /\ reported' = IF bound # NoGoalId /\ reported # bound THEN NoGoalId ELSE reported
    /\ UNCHANGED <<goalUser, spent>>

TurnStarts ==
    /\ turn.at = "start"
    /\ \/ Starts(IF row.status \in {"active", "budget_limited"} THEN row.id ELSE NoGoalId)
          /\ quiet' = TRUE /\ UNCHANGED failures
       \/ Starts(NoGoalId) /\ StoreFails

\* create_goal over no goal or a completed one.  mark_goal_created binds it,
\* and the turn that made it is not charged.
ToolCreates(budget) ==
    /\ turn.at = "run"
    /\ row.status = "complete" /\ issued < MaxGoals
    /\ row' = Made(budget) /\ issued' = issued + 1
    /\ turn' = [turn EXCEPT !.goal = issued + 1, !.created = TRUE]
    /\ reported' = NoGoalId /\ spent' = 0
    /\ UNCHANGED <<edit, failures, quiet>>

\* update_goal of the model: whatever goal the session has now.
ToolUpdates(status) ==
    /\ turn.at = "run" /\ row # NoRow
    /\ row' = GoalUpdated(row, status, row.budget)
    /\ reported' = NoGoalId
    /\ UNCHANGED <<issued, turn, edit, failures, spent, quiet>>

AfterStops(outcome) == IF outcome \in {"raised_error", "raised_cancel"} THEN "idle" ELSE "next"
AfterCharge(outcome) == IF outcome = "ok" THEN "next" ELSE "stop"

\* The model's run is over; on_turn_end leaves an unbound turn alone.
TurnRunEnds(cost, outcome) ==
    /\ turn.at = "run"
    /\ spent + cost <= MaxUsed
    /\ turn' = [turn EXCEPT
                  !.at = IF turn.goal = NoGoalId THEN AfterStops(outcome) ELSE "end",
                  !.cost = IF turn.created THEN 0 ELSE cost, !.outcome = outcome,
                  !.loopTokens = IF turn.count = 0 THEN 0 ELSE @ + cost]
    /\ spent' = IF turn.goal = row.id /\ row # NoRow THEN spent + cost ELSE spent
    /\ UNCHANGED <<goalUser, reported, failures, quiet>>

\* _account, first transaction: the goal may have been replaced, the turn may
\* have made it, or nothing measurable was used.
AccountReads ==
    /\ turn.at = "end"
    /\ \/ /\ row.id = turn.goal
          /\ turn' = [turn EXCEPT !.at = "charge", !.mode = ModeFor(row.status)]
          /\ StoreWorks
       \/ /\ row.id # turn.goal \/ turn.cost = 0
          /\ Goes(AfterCharge(turn.outcome))
          /\ StoreWorks
       \/ Goes(AfterCharge(turn.outcome)) /\ StoreFails
    /\ UNCHANGED <<goalUser, reported, spent>>

\* Mutant: the charge goes to whatever goal the session has now.
AccountChargesAnyone ==
    /\ turn.at = "charge"
    /\ Goes(AfterCharge(turn.outcome))
    /\ row' = IF row # NoRow /\ row.status \in turn.mode
              THEN Charged(row, turn.cost, turn.mode) ELSE row
    /\ StoreWorks
    /\ UNCHANGED <<issued, edit, reported, spent>>

\* ... second transaction, guarded by the goal's identity.
AccountCharges ==
    /\ turn.at = "charge"
    /\ Goes(AfterCharge(turn.outcome))
    /\ \/ /\ row' = IF row.id = turn.goal /\ row.status \in turn.mode
                    THEN Charged(row, turn.cost, turn.mode) ELSE row
          /\ StoreWorks
       \/ UNCHANGED row /\ StoreFails
    /\ UNCHANGED <<issued, edit, reported, spent>>

\* A cancelled turn pauses the active goal, whichever it is now; an erring one
\* blocks the goal it was bound to.
Halted(r) ==
    CASE turn.outcome \in {"cancelled", "raised_cancel"} ->
            IF r.status = "active" THEN [r EXCEPT !.status = "paused"] ELSE r
      [] OTHER -> IF r.id = turn.goal THEN GoalUpdated(r, "blocked", r.budget) ELSE r

TurnStops ==
    /\ turn.at = "stop"
    /\ Goes(AfterStops(turn.outcome))
    /\ \/ row' = Halted(row) /\ StoreWorks
       \/ UNCHANGED row /\ StoreFails
    /\ UNCHANGED <<issued, edit, reported, spent>>

-----------------------------------------------------------------------------
(* The continuation loop.                                                  *)

LoopSpent == MaxLoopTokens # 0 /\ turn.loopTokens > MaxLoopTokens

LoopStops ==
    /\ turn.at = "next"
    /\ \/ /\ \/ turn.count = MaxContinuations \/ LoopSpent
             \/ row.status \notin {"active", "budget_limited"}
             \/ row.status = "budget_limited" /\ reported = row.id
          /\ StoreWorks
       \/ StoreFails
    /\ turn' = IdleTurn
    /\ UNCHANGED <<goalUser, reported, spent>>

MayGoOn == turn.at = "next" /\ turn.count < MaxContinuations /\ ~LoopSpent

\* Mutant: the token guard alone bounds the loop.
GoesOnUncounted == turn' = [turn EXCEPT !.at = "start"]

GoesOn == turn' = [turn EXCEPT !.at = "start", !.count = @ + 1]

LoopContinues ==
    /\ MayGoOn
    /\ row.status = "active"
    /\ GoesOn
    /\ UNCHANGED <<goalUser, reported, failures, spent, quiet>>

\* A goal at its limit gets a turn to wrap up, and is remembered.
LoopWrapsUp ==
    /\ MayGoOn
    /\ row.status = "budget_limited" /\ reported # row.id
    /\ reported' = row.id
    /\ GoesOn
    /\ UNCHANGED <<goalUser, failures, spent, quiet>>

-----------------------------------------------------------------------------
(* /goal.  resume and budget read the goal and update it if it is still the *)
(* same, which comes to one step; an edit also keeps the status it read.   *)

UserActs ==
    /\ quiet' = FALSE
    /\ spent' = IF row'.id = row.id THEN spent ELSE 0
    /\ UNCHANGED <<turn, reported, failures>>

UserSets(budget) ==
    /\ issued < MaxGoals
    /\ row' = Made(budget) /\ issued' = issued + 1
    /\ UNCHANGED edit /\ UserActs

UserClears == row # NoRow /\ row' = NoRow /\ UNCHANGED <<issued, edit>> /\ UserActs

UserPauses ==
    /\ row.status = "active"
    /\ row' = [row EXCEPT !.status = "paused"]
    /\ UNCHANGED <<issued, edit>> /\ UserActs

UserResumes ==
    /\ row # NoRow
    /\ row' = GoalUpdated(row, "active", row.budget)
    /\ UNCHANGED <<issued, edit>> /\ UserActs

\* A budget alone flips an active goal at once and changes no other.
UserBudgets(budget) ==
    /\ row # NoRow
    /\ row' = [row EXCEPT !.budget = budget, !.status = Settled(@, row.used, budget)]
    /\ UNCHANGED <<issued, edit>> /\ UserActs

\* Editing a finished goal starts it again; other statuses are written back.
EditBegins(budget) ==
    /\ row # NoRow /\ edit = NoEdit
    /\ edit' = [id |-> row.id, budget |-> budget,
                status |-> IF row.status \in {"budget_limited", "complete"} THEN "active"
                           ELSE row.status]
    /\ UNCHANGED <<row, issued>> /\ UserActs

EditEnds ==
    /\ edit # NoEdit
    /\ row' = IF row.id = edit.id
              THEN GoalUpdated(row, edit.status,
                           IF edit.budget = Unlimited THEN row.budget ELSE edit.budget)
              ELSE row
    /\ edit' = NoEdit
    /\ UNCHANGED <<issued>> /\ UserActs

-----------------------------------------------------------------------------
UserStep ==
    \/ UserClears \/ UserPauses \/ UserResumes \/ EditEnds
    \/ \E b \in Budgets : UserBudgets(b)
    \/ \E b \in Budgets \cup {Unlimited} : UserSets(b) \/ EditBegins(b)

ToolStep ==
    \/ \E b \in Budgets \cup {Unlimited} : ToolCreates(b)
    \/ \E s \in {"complete", "blocked"} : ToolUpdates(s)

TurnStep ==
    \/ TurnStarts
    \/ \E c \in Costs, o \in Outcomes : TurnRunEnds(c, o)
    \/ AccountReads \/ AccountCharges \/ TurnStops
    \/ LoopStops \/ LoopContinues \/ LoopWrapsUp

GoalNext == HandleBegins \/ TurnStep \/ ToolStep \/ UserStep

\* A turn that was begun goes on: the run of the model ends, by itself, by its
\* limit of steps or with an error.
GoalFairness == WF_goalVars(TurnStep)

GoalSpec == GoalInit /\ [][GoalNext]_goalVars
GoalFairSpec == GoalSpec /\ GoalFairness

-----------------------------------------------------------------------------
GoalTypeOK ==
    /\ row \in [id : GoalIds, status : GoalStatuses, budget : Budgets \cup {Unlimited},
                used : 0 .. MaxUsed] \cup {NoRow}
    /\ issued \in 0 .. MaxGoals
    /\ turn \in [at : {"idle", "start", "run", "end", "charge", "stop", "next"},
                 goal : GoalIds \cup {NoGoalId}, created : BOOLEAN, cost : Costs \cup {0},
                 outcome : Outcomes,
                 mode : {{}} \cup {ModeFor(s) : s \in GoalStatuses},
                 count : 0 .. MaxContinuations, loopTokens : Nat]
    /\ reported \in GoalIds \cup {NoGoalId}
    /\ edit \in [id : GoalIds \cup {NoGoalId}, status : GoalStatuses,
                 budget : Budgets \cup {Unlimited}]
    /\ failures \in 0 .. MaxStoreFailures
    /\ spent \in Nat /\ quiet \in BOOLEAN

\* An active goal has budget left, through resumes, edits, smaller budgets and
\* charges that arrive after any of them.
ActiveHasBudget == row.status = "active" => ~AtBudget(row.used, row.budget)

\* A goal is charged only for turns that were bound to it, and once for each:
\* what was replaced or made meanwhile is charged nothing.
ChargedForOwnTurns == row.used <= spent

\* When a turn was cancelled or failed and the user has not spoken since it
\* began, the loop finds no active goal to go on with.
StopsHold ==
    turn.at = "next" /\ turn.outcome # "ok" /\ quiet => row.status # "active"

\* The books of a goal and the stop reasons of its turns agree.
GoalsAreSound == ActiveHasBudget /\ ChargedForOwnTurns /\ StopsHold

\* A call of handle() ends although users, tools and editors keep reviving the
\* goal it works for.
HandleEnds == turn.at # "idle" ~> turn.at = "idle"
=============================================================================
