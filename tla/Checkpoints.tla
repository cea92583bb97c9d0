---------------------------- MODULE Checkpoints ----------------------------
(***************************************************************************)
(* File snapshots of a session (harness/checkpoint.py), taken by the file  *)
(* tools (tools/file.py) in the turns the scheduler numbers                *)
(* (core/scheduler.py, handle), and /rewind, which finds the number of a   *)
(* prompt by counting the prompts of the transcript                        *)
(* (harness/commands/interactive.py).                                      *)
(*                                                                         *)
(* A content is a number, a fresh one for every write.  Nobody but the     *)
(* session's tools writes the files.  The manifest lists the snapshots in  *)
(* the order they were taken; here each has the number of writes before it *)
(* as the time it was taken.                                               *)
(***************************************************************************)
EXTENDS Integers, Sequences, FiniteSets

CONSTANTS
    Files,
    MaxTurns,       \* bound: turns numbered
    MaxPrompts,     \* bound: user messages in the transcript
    MaxWrites,      \* bound: writes
    MaxSnapshots    \* MAX_SNAPSHOTS, 200 in the code

ASSUME CheckpointConstants ==
    MaxTurns \in Nat /\ MaxPrompts \in Nat /\ MaxWrites \in Nat /\ MaxSnapshots \in Nat

VARIABLES
    disk,       \* the files
    writes,     \* writes so far
    inTurn,     \* a turn is running
    counter,    \* _checkpoint_counter
    snapshots,  \* the manifest and its blobs
    prompts,    \* user messages: the files as they were when each was sent (history)
    undone,     \* history: prompts whose edits a restore to an earlier one has undone
    missing,    \* history: files with a snapshot not taken, not restored or pruned
    skew        \* history: what has made turns and user messages count apart

checkpointVars == <<disk, writes, inTurn, counter, snapshots, prompts, undone, missing, skew>>

Tombstone == 0      \* the content of a file that does not exist

CheckpointInit ==
    /\ disk \in [Files -> {Tombstone}] /\ writes = 0
    /\ inTurn = FALSE /\ counter = 0 /\ snapshots = {} /\ prompts = <<>>
    /\ undone = {} /\ missing = {} /\ skew = "none"

-----------------------------------------------------------------------------
(* Turns.                                                                  *)

\* handle: set_active_session, begin_turn, and the prompt is sent.
TurnBegins ==
    /\ ~inTurn /\ counter < MaxTurns /\ Len(prompts) < MaxPrompts
    /\ inTurn' = TRUE /\ counter' = counter + 1 /\ prompts' = Append(prompts, disk)
    /\ UNCHANGED <<disk, writes, snapshots, undone, missing, skew>>

\* A hidden continuation adds a user message to the same checkpoint.
TurnContinues ==
    /\ inTurn /\ Len(prompts) < MaxPrompts
    /\ prompts' = Append(prompts, disk) /\ skew' = "other"
    /\ UNCHANGED <<disk, writes, inTurn, counter, snapshots, undone, missing>>

TurnEnds ==
    /\ inTurn /\ inTurn' = FALSE
    /\ UNCHANGED <<disk, writes, counter, snapshots, prompts, undone, missing, skew>>

Snapshot(f) == [taken |-> writes, checkpoint |-> counter, path |-> f, blob |-> disk[f]]

\* Mutant: every edit takes a snapshot, and replaces an earlier one.
RecordedAgain(f) ==
    {s \in snapshots : s.checkpoint # counter \/ s.path # f} \cup {Snapshot(f)}

\* CheckpointStore.record: the first of a checkpoint is kept.
Recorded(f) ==
    IF \E s \in snapshots : s.checkpoint = counter /\ s.path = f
    THEN snapshots
    ELSE snapshots \cup {Snapshot(f)}

\* _prune: the newest MaxSnapshots.
Pruned(S) == {s \in S : Cardinality({t \in S : t.taken > s.taken}) < MaxSnapshots}

\* record_pre_edit never stops the edit: a snapshot may fail.
Edits(f) ==
    /\ inTurn /\ writes < MaxWrites
    /\ writes' = writes + 1 /\ disk' = [disk EXCEPT ![f] = writes + 1]
    /\ \/ /\ snapshots' = Pruned(Recorded(f))
          /\ missing' = missing \cup {s.path : s \in Recorded(f) \ snapshots'}
       \/ Recorded(f) # snapshots /\ UNCHANGED snapshots /\ missing' = missing \cup {f}
    /\ UNCHANGED <<inTurn, counter, prompts, undone, skew>>

-----------------------------------------------------------------------------
(* /rewind.                                                                *)

After(checkpoint) == {s \in snapshots : s.checkpoint > checkpoint}

\* The oldest snapshot of f after the checkpoint.
Earliest(f, checkpoint) ==
    CHOOSE s \in After(checkpoint) :
        s.path = f /\ \A t \in After(checkpoint) : t.path = f => s.taken <= t.taken

Tracked(checkpoint) == {s.path : s \in After(checkpoint)}

\* CheckpointStore.restore_to: a file that cannot be written loses its
\* snapshots like the others.
Restored(checkpoint, failed) ==
    [f \in Files |-> IF f \in Tracked(checkpoint) \ failed THEN Earliest(f, checkpoint).blob
                     ELSE disk[f]]

Remaining(checkpoint) == {s \in snapshots : s.checkpoint <= checkpoint}

\* The prompt numbered n from the oldest, 1 .. n - 1 before it.
RewindCode(n, failed) ==
    /\ ~inTurn /\ n \in DOMAIN prompts
    /\ failed \subseteq Tracked(n - 1)
    /\ disk' = Restored(n - 1, failed)
    /\ snapshots' = Remaining(n - 1)
    /\ missing' = missing \cup failed
    /\ UNCHANGED <<writes, inTurn, counter>>

Trim(n) ==
    /\ prompts' = SubSeq(prompts, 1, n - 1)
    /\ undone' = {i \in undone : i < n}

\* The conversation alone leaves the files, and the messages it removes
\* leave their checkpoints behind.
RewindConversation(n) ==
    /\ ~inTurn /\ n \in DOMAIN prompts
    /\ Trim(n) /\ skew' = "other"
    /\ UNCHANGED <<disk, writes, inTurn, counter, snapshots, missing>>

\* The code alone leaves the messages: a later prompt is still offered, but
\* the snapshots it would be restored from are consumed.
Rewind(n, both, failed) ==
    /\ RewindCode(n, failed)
    /\ IF both THEN Trim(n) /\ skew' = IF skew = "none" THEN "both" ELSE skew
       ELSE /\ undone' = undone \cup {i \in DOMAIN prompts : i > n}
            /\ UNCHANGED <<prompts, skew>>

-----------------------------------------------------------------------------
\* The first messages give way to a summary, itself a user message.
Compacts ==
    /\ ~inTurn
    /\ \E n \in 2 .. Len(prompts) :
          /\ prompts' = SubSeq(prompts, n, Len(prompts))
          /\ undone' = {i - n + 1 : i \in undone \cap (n .. Len(prompts))}
    /\ skew' = "other"
    /\ UNCHANGED <<disk, writes, inTurn, counter, snapshots, missing>>

\* A new process, or another session in between, counts from zero.
Restarts ==
    /\ counter # 0
    /\ counter' = 0 /\ inTurn' = FALSE
    /\ skew' = "other"
    /\ UNCHANGED <<disk, writes, snapshots, prompts, undone, missing>>

CheckpointNext ==
    \/ TurnBegins \/ TurnContinues \/ TurnEnds \/ Compacts \/ Restarts
    \/ \E f \in Files : Edits(f)
    \/ \E n \in DOMAIN prompts : RewindConversation(n)
    \/ \E n \in DOMAIN prompts, both \in BOOLEAN, failed \in SUBSET Files : Rewind(n, both, failed)

CheckpointSpec == CheckpointInit /\ [][CheckpointNext]_checkpointVars

-----------------------------------------------------------------------------
CheckpointTypeOK ==
    /\ disk \in [Files -> 0 .. MaxWrites] /\ writes \in 0 .. MaxWrites
    /\ inTurn \in BOOLEAN /\ counter \in 0 .. MaxTurns
    /\ snapshots \subseteq [taken : 0 .. MaxWrites, checkpoint : 1 .. MaxTurns, path : Files,
                           blob : 0 .. MaxWrites]
    /\ Cardinality(snapshots) <= MaxSnapshots
    /\ prompts \in Seq([Files -> 0 .. MaxWrites]) /\ Len(prompts) <= MaxPrompts
    /\ undone \subseteq DOMAIN prompts /\ missing \subseteq Files
    /\ skew \in {"none", "both", "other"}

\* Choosing prompt n in /rewind would bring back the files of prompt m.
RestoresTo(n, m) == \A f \in Files \ missing : Restored(n - 1, {})[f] = prompts[m][f]

\* As long as messages and checkpoints have been counted alike, each prompt of
\* the list restores the files as they were when it was sent, however many
\* edits, turns and restores there were.  A prompt whose edits a restore to an
\* earlier one has undone is the exception: it is still offered, but restores
\* the last prompt before it that none has passed.
RewindIsExact ==
    skew = "none" /\ ~inTurn =>
        \A n \in DOMAIN prompts :
            \E m \in 1 .. n \ undone : m + 1 .. n \subseteq undone /\ RestoresTo(n, m)

\* interactive.py: "The Nth-oldest user prompt corresponds to checkpoint N;
\* restoring code "to prompt N" reverts files edited during prompt N and later."
\* (Stated for one process, no goals, no compaction, /rewind both, and prompts
\* whose edits were not undone by a restore to an earlier one.)
RewindMatchesPrompts ==
    skew # "other" /\ ~inTurn => \A n \in DOMAIN prompts \ undone : RestoresTo(n, n)
=============================================================================
