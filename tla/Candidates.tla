----------------------------- MODULE Candidates -----------------------------
(***************************************************************************)
(* The review queue of AutoDream's memory candidates                       *)
(* (harness/memory/candidates.py): a candidate is a file that moves from   *)
(* pending to processing, and is decided by a receipt in approved or       *)
(* rejected.  Approving writes the memory itself.                          *)
(*                                                                         *)
(* Every operation holds the store's lock, in one of several processes.    *)
(* Its file operations may raise, and the process may die between any two  *)
(* of them, so an operation is any beginning of its steps.  A new file is  *)
(* linked under its name before its temporary name is removed              *)
(* (approved_writer.py); a death between the two leaves a file with two    *)
(* names, which no reader accepts.                                         *)
(***************************************************************************)
EXTENDS Integers, FiniteSets

CONSTANTS
    CandidateIds,   \* hashes of payload and origin
    MaxCandidates   \* MAX_CANDIDATE_COUNT

ASSUME CandidateConstants == MaxCandidates \in Nat

VARIABLES
    files,          \* files[place]: the candidates that have a file there
    linked,         \* files with two names
    edited,         \* memories the user changed
    everStaged      \* history: candidates staged

candidateVars == <<files, linked, edited, everStaged>>

Places == {"pending", "processing", "approved", "rejected", "memory"}

CandidatesInit ==
    /\ files = [place \in Places |-> {}]
    /\ linked = {} /\ edited = {} /\ everStaged = {}

-----------------------------------------------------------------------------
Open(d) == d["pending"] \cup d["processing"]
Receipted(d) == d["approved"] \cup d["rejected"]

Readable(place, c) == <<place, c>> \notin linked
Put(d, place, c) == [d EXCEPT ![place] = @ \cup {c}]
Drop(d, c) == [d EXCEPT !["pending"] = @ \ {c}, !["processing"] = @ \ {c}]

\* _reconcile_receipted_unlocked: the files of decided candidates go; those
\* that cannot be removed stay.
Reaped(kept) ==
    [files EXCEPT !["pending"] = @ \ (Receipted(files) \ kept),
                  !["processing"] = @ \ (Receipted(files) \ kept)]

\* ... it reads every receipt it finds.
Reconciles == \A c \in Open(files) : \A place \in {"approved", "rejected"} : Readable(place, c)

Becomes(d) == files' = d /\ UNCHANGED linked

\* write_approved_output with exclusive: it may be the last step.
Writes(d, place, c) ==
    /\ files' = Put(d, place, c)
    /\ linked' = linked \/ linked' = linked \cup {<<place, c>>}

\* reconcile, list, get, and every operation that is refused or breaks off early.
Reconcile ==
    /\ \E kept \in SUBSET Open(files) : Becomes(Reaped(kept))
    /\ UNCHANGED <<edited, everStaged>>

\* Bound of the queue: what is decided but could not be removed is not counted.
RoomIn(d) == Cardinality(Open(d) \ Receipted(d)) < MaxCandidates

\* stage: the same content is never queued, or decided, again.
Stage(c) ==
    /\ Reconciles
    /\ \E kept \in SUBSET Open(files) :
        LET d == Reaped(kept) IN
        /\ c \notin Open(d) \cup Receipted(d)
        /\ RoomIn(d)
        /\ Writes(d, "pending", c)
    /\ everStaged' = everStaged \cup {c}
    /\ UNCHANGED edited

\* A candidate without a receipt whose own file can be read.
Undecided(d, c) ==
    /\ c \in Open(d) \ Receipted(d)
    /\ \A place \in {"pending", "processing"} : Readable(place, c)

\* _write_exclusive_or_verify: a memory that is there must be this one.
MemoryVerifies(c) == c \in files["memory"] \ edited /\ Readable("memory", c)

\* approve_candidate: claim, memory, receipt, and the claim goes.
Approve(c) ==
    /\ Reconciles
    /\ \E kept \in SUBSET Open(files) :
        LET d == Reaped(kept)
            claimed == Put(Drop(d, c), "processing", c)
            written == Put(claimed, "memory", c)
        IN
        /\ Undecided(d, c)
        /\ \/ Becomes(claimed)
           \/ c \notin d["memory"] /\ Writes(claimed, "memory", c)
           \/ /\ c \notin d["memory"] \/ MemoryVerifies(c)
              /\ \/ Writes(written, "approved", c)
                 \/ Becomes(Drop(Put(written, "approved", c), c))
    /\ UNCHANGED <<edited, everStaged>>

\* Mutant: rejecting does not look for an approval.
MayRejectApproved(d, c) == c \in Open(d)

MayReject(d, c) == Undecided(d, c)

\* reject_candidate: receipt, and the candidate goes, even if an interrupted
\* approval wrote its memory.
Reject(c) ==
    /\ Reconciles
    /\ \E kept \in SUBSET Open(files) :
        LET d == Reaped(kept) IN
        /\ MayReject(d, c)
        /\ \/ Writes(d, "rejected", c)
           \/ Becomes(Drop(Put(d, "rejected", c), c))
    /\ UNCHANGED <<edited, everStaged>>

\* The user edits or deletes the memory.
EditMemory(c) ==
    /\ c \in files["memory"]
    /\ edited' = edited \cup {c} /\ UNCHANGED <<files, linked, everStaged>>

DeleteMemory(c) ==
    /\ c \in files["memory"]
    /\ files' = [files EXCEPT !["memory"] = @ \ {c}]
    /\ edited' = edited \ {c} /\ linked' = linked \ {<<"memory", c>>}
    /\ UNCHANGED everStaged

-----------------------------------------------------------------------------
CandidatesNext ==
    \/ Reconcile
    \/ \E c \in CandidateIds :
        Stage(c) \/ Approve(c) \/ Reject(c) \/ EditMemory(c) \/ DeleteMemory(c)

CandidatesSpec == CandidatesInit /\ [][CandidatesNext]_candidateVars

-----------------------------------------------------------------------------
CandidatesTypeOK ==
    /\ files \in [Places -> SUBSET CandidateIds]
    /\ linked \subseteq Places \X CandidateIds
    /\ edited \subseteq files["memory"] /\ everStaged \subseteq CandidateIds

\* Through interruptions anywhere and files that could not be removed, a staged
\* candidate is queued in one place or decided one way and never lost, the
\* queue keeps its bound, and nothing that was not claimed has a memory.
CandidatesAccounted ==
    /\ everStaged = Open(files) \cup Receipted(files)
    /\ files["pending"] \cap files["processing"] = {}
    /\ files["approved"] \cap files["rejected"] = {}
    /\ Cardinality(Open(files) \ Receipted(files)) <= MaxCandidates
    /\ files["memory"] \subseteq files["processing"] \cup Receipted(files)
=============================================================================
