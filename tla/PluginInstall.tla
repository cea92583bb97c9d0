--------------------------- MODULE PluginInstall ---------------------------
(***************************************************************************)
(* Installing and uninstalling one plugin (harness/plugins/lifecycle.py):  *)
(* the payload in the plugin root, its record in state.json, and the       *)
(* journal that lets a later operation finish or undo an interrupted one.  *)
(*                                                                         *)
(* An operation is a plan, a sequence of file operations.  Any of them may *)
(* raise, before or after its effect, and the process may die at any of    *)
(* them.  Removing a directory goes file by file: it can break off with    *)
(* some of the files gone.  One process at a time uses the root.           *)
(***************************************************************************)
EXTENDS Integers, Sequences

CONSTANTS
    MaxVersions,    \* bound: payloads ever staged
    MaxFaults       \* bound: faults from one quiet moment to the next

ASSUME PluginConstants == MaxVersions \in Nat /\ MaxFaults \in Nat

VARIABLES
    target,         \* the entry of the plugin
    backup, stage,  \* the private entries of the transaction
    registry,       \* its record in state.json
    journal,        \* .koder-lifecycle-transaction.json
    op,             \* what the process is doing
    staged,         \* versions staged so far
    faults,         \* faults since the plugin was last quiet
    torn,           \* history: an exception left a backup half removed
    again,          \* history: undoing or recovering an install was interrupted
    told            \* history: the versions the user may take to be installed

pluginDisk == <<target, backup, stage, registry, journal>>
pluginVars == <<pluginDisk, op, staged, faults, torn, again, told>>

Versions == 1 .. MaxVersions
Absent == 0
Torn == MaxVersions + 1     \* a payload with files missing
Payloads == Absent .. Torn

JournalPhases ==
    {"", "prepared", "backup_moved", "target_published", "state_written", "state_removed"}

\* What a plan is made of.
PlanSteps ==
    (JournalPhases \ {""})
        \cup {"move_to_backup", "publish", "register", "unregister", "remove_backup",
              "remove_target", "remove_stage", "restore", "reset_record", "unlink"}

NoJournal == [kind |-> "none", phase |-> "", previous |-> Absent, new |-> Absent,
              existed |-> FALSE]
IdleOp == [mode |-> "idle", plan |-> <<>>, journal |-> NoJournal, report |-> {}]

PluginInit ==
    /\ target = Absent /\ backup = Absent /\ stage = Absent /\ registry = Absent
    /\ journal = NoJournal /\ op = IdleOp
    /\ staged = 0 /\ faults = 0 /\ torn = FALSE /\ again = FALSE /\ told = {Absent}

-----------------------------------------------------------------------------
(* The plans.  (Removing what is not there does nothing.)                  *)

If(condition, steps) == IF condition THEN steps ELSE <<>>

InstallPlan(existed) ==
    <<"prepared">> \o If(existed, <<"move_to_backup", "backup_moved">>)
        \o <<"publish", "target_published", "register", "state_written", "remove_backup",
             "unlink">>

UninstallPlan ==
    <<"prepared", "move_to_backup", "backup_moved", "unregister", "state_removed",
      "remove_backup", "unlink">>

\* Mutant: the record is left as it is.
PutBackKeepsRecord(j, hasBackup) ==
    If(j.kind = "install" /\ (j.phase \in JournalPhases \ {"", "prepared"} \/ ~j.existed),
       <<"remove_target">>)
        \o If(hasBackup, <<"remove_target", "restore">>)

\* Back to the state before the operation, from the journal j and the backup.
PutBack(j, hasBackup) ==
    If(j.kind = "install" /\ (j.phase \in JournalPhases \ {"", "prepared"} \/ ~j.existed),
       <<"remove_target">>)
        \o If(hasBackup, <<"remove_target", "restore">>) \o <<"reset_record">>

Committed(j, hasBackup) == j.phase \in {"state_written", "state_removed"} /\ ~hasBackup

\* The exception handlers of install_from_manifest and uninstall.
RollbackPlan(j, hasBackup) ==
    IF Committed(j, hasBackup) THEN <<"unlink">>
    ELSE PutBack(j, hasBackup) \o <<"unlink">> \o If(j.kind = "install", <<"remove_stage">>)

\* _recover_incomplete_transaction.
RecoveryPlan(j, hasTarget, hasBackup) ==
    LET finish == hasTarget /\ \/ j.phase = "state_written"
                               \/ j.phase = "target_published" /\ ~hasBackup
        nothing == ~hasTarget /\ ~hasBackup
    IN
    (CASE j.kind = "install" /\ finish -> <<"register">>
       [] j.kind = "install" /\ j.phase = "state_written" /\ nothing -> <<"unregister">>
       [] j.kind = "uninstall" /\ j.phase = "state_removed" ->
            <<"remove_target", "remove_backup", "unregister">>
       [] j.kind = "uninstall" /\ j.phase # "state_removed" /\ nothing -> <<"unregister">>
       [] OTHER -> PutBack(j, hasBackup))
    \o If(j.kind = "install", <<"remove_stage">>) \o <<"remove_backup", "unlink">>

-----------------------------------------------------------------------------
(* The file operations.                                                    *)

\* write_json_atomic, replace, remove_entry_name, unlink, and set and remove
\* of PluginStateStore, each with its whole effect.
Effect(step, j) ==
    /\ journal' = CASE step \in JournalPhases -> [j EXCEPT !.phase = step]
                    [] step = "unlink" -> NoJournal
                    [] OTHER -> journal
    /\ target' = CASE step = "publish" -> stage
                   [] step = "restore" -> backup
                   [] step \in {"move_to_backup", "remove_target"} -> Absent
                   [] OTHER -> target
    /\ backup' = CASE step = "move_to_backup" -> target
                   [] step \in {"restore", "remove_backup"} -> Absent
                   [] OTHER -> backup
    /\ stage' = IF step \in {"publish", "remove_stage"} THEN Absent ELSE stage
    /\ registry' = CASE step = "register" -> j.new
                     [] step = "unregister" -> Absent
                     [] step = "reset_record" -> j.previous
                     [] OTHER -> registry

\* A removal that breaks off.
Half(step, name, entry) == IF step = name /\ entry # Absent THEN Torn ELSE entry

Tears(step) ==
    /\ target' = Half(step, "remove_target", target)
    /\ backup' = Half(step, "remove_backup", backup)
    /\ stage' = Half(step, "remove_stage", stage)
    /\ UNCHANGED <<registry, journal>>

-----------------------------------------------------------------------------
Quiet == op.mode = "idle" /\ journal = NoJournal
Agrees == target = registry /\ target # Torn /\ target \in told /\ backup = Absent

\* A new transaction: faults are counted afresh if the last one left no trace.
Begins(plan, j) ==
    /\ Quiet
    /\ op' = [mode |-> "do", plan |-> plan, journal |-> j, report |-> {j.new}]
    /\ told' = {target, j.new}
    /\ faults' = IF Agrees THEN 0 ELSE faults
    /\ torn' = (torn /\ ~Agrees) /\ again' = (again /\ ~Agrees)
    /\ UNCHANGED <<target, backup, registry, journal>>

\* The payload is staged and validated before anything else is touched.
Install ==
    /\ staged < MaxVersions
    /\ staged' = staged + 1 /\ stage' = staged + 1
    /\ Begins(InstallPlan(target # Absent),
              [kind |-> "install", phase |-> "", previous |-> registry, new |-> staged + 1,
               existed |-> target # Absent])

Uninstall ==
    /\ target # Absent
    /\ Begins(UninstallPlan, [kind |-> "uninstall", phase |-> "", previous |-> registry,
                              new |-> Absent, existed |-> TRUE])
    /\ UNCHANGED <<staged, stage>>

\* Every operation, and a new process, recovers first.
Recover ==
    /\ op.mode = "idle" /\ journal # NoJournal
    /\ op' = [mode |-> "recover", journal |-> journal, report |-> told,
              plan |-> RecoveryPlan(journal, target # Absent, backup # Absent)]
    /\ UNCHANGED <<pluginDisk, staged, faults, torn, again, told>>

\* The plan goes on; the operation reports its result when the journal is gone.
Does ==
    LET step == Head(op.plan)  j == op.journal IN
    /\ op.plan # <<>>
    /\ Effect(step, j)
    /\ op' = [op EXCEPT !.plan = Tail(@),
                        !.journal.phase =
                            IF step \in JournalPhases /\ op.mode = "do" THEN step ELSE @]
    /\ told' = IF step = "unlink" THEN op.report ELSE told
    /\ UNCHANGED <<staged, faults, torn, again>>

OpEnds ==
    /\ op.mode # "idle" /\ op.plan = <<>>
    /\ op' = IdleOp
    /\ UNCHANGED <<pluginDisk, staged, faults, torn, again, told>>

Interrupted == again' = (again \/ (op.mode # "do" /\ op.journal.kind = "install"))

\* The operation raises, before, in the middle of or after its effect.  Only
\* the transaction itself catches that.
Raises ==
    LET step == Head(op.plan)  j == op.journal IN
    /\ op.plan # <<>> /\ faults < MaxFaults
    /\ faults' = faults + 1
    /\ UNCHANGED pluginDisk \/ Effect(step, j) \/ Tears(step)
    /\ op' = IF op.mode = "do"
             THEN [mode |-> "undo", journal |-> j, plan |-> RollbackPlan(j, backup' # Absent),
                   report |-> {IF Committed(j, backup' # Absent) THEN j.new ELSE j.previous}]
             ELSE IdleOp
    /\ torn' = (torn \/ (op.mode = "do" /\ backup' = Torn))
    /\ Interrupted
    /\ UNCHANGED <<staged, told>>

\* The process dies.
Dies ==
    LET step == Head(op.plan) IN
    /\ op.plan # <<>> /\ faults < MaxFaults
    /\ faults' = faults + 1
    /\ UNCHANGED pluginDisk \/ Effect(step, op.journal) \/ Tears(step)
    /\ op' = IdleOp
    /\ Interrupted
    /\ UNCHANGED <<staged, torn, told>>

-----------------------------------------------------------------------------
PluginStep == Does \/ OpEnds
PluginNext == Install \/ Uninstall \/ Recover \/ PluginStep \/ Raises \/ Dies

PluginSpec == PluginInit /\ [][PluginNext]_pluginVars

-----------------------------------------------------------------------------
PluginTypeOK ==
    /\ target \in Payloads /\ backup \in Payloads /\ stage \in Payloads
    /\ registry \in Absent .. MaxVersions
    /\ LET journals == [kind : {"none", "install", "uninstall"}, phase : JournalPhases,
                        previous : Absent .. MaxVersions, new : Absent .. MaxVersions,
                        existed : BOOLEAN] IN
       /\ journal \in journals
       /\ op \in [mode : {"idle", "do", "undo", "recover"}, plan : Seq(PlanSteps),
                  journal : journals, report : SUBSET Payloads]
    /\ staged \in 0 .. MaxVersions /\ faults \in 0 .. MaxFaults
    /\ torn \in BOOLEAN /\ again \in BOOLEAN /\ told \subseteq Payloads

\* One exception or death anywhere in an install or an upgrade and the recovery
\* after it, and any number of them in an uninstall and its recoveries: then the
\* payload is whole, the registry has its record, they are what the operation
\* reported, and no backup is left.  (Not after an exception half-way through
\* removing the backup, see ReplacedAtOnce, nor when putting back an install is
\* interrupted as well: recovery is not idempotent.)
PluginsAgree == Quiet => Agrees \/ torn \/ again

\* lifecycle.py: "Local plugin lifecycle service with atomic replacement and
\* crash recovery."
ReplacedAtOnce == Quiet => Agrees \/ again
=============================================================================
