----------------------------- MODULE TaskStorage -----------------------------
(***************************************************************************)
(* koder_agent/harness/tasks/storage.py: one JSON file per task, a         *)
(* high-water mark file and a redo journal, in a directory shared by all   *)
(* processes.  Every public operation holds the directory lock from its    *)
(* first read to its last write, so one operation runs at a time; but a    *)
(* crash or an I/O error can end it between any two file writes, and the   *)
(* next operation starts from whatever is on disk.                         *)
(*                                                                         *)
(* The values of titles, owners, timestamps and metadata are left out:     *)
(* they travel with the record they belong to.                             *)
(***************************************************************************)
EXTENDS Integers, FiniteSets

CONSTANTS
    MaxId,        \* bound: the last identifier
    Legacy,       \* tasks in the directory at the start, no .highwatermark
    Statuses,     \* values of TaskStatus that are told apart
    MaxFailures   \* bound: operations that crash or fail

Ids == 1 .. MaxId

ASSUME StorageConstants ==
    /\ MaxId \in Nat
    /\ \E n \in 0 .. MaxId : Legacy = 1 .. n
    /\ "pending" \in Statuses
    /\ "absent" \notin Statuses
    /\ MaxFailures \in Nat

VARIABLES
    hwm,       \* the number in .highwatermark, 0 when the file is missing
    file,      \* file[t]: the content of <t>.json
    journal,   \* the content of .transaction
    pc,        \* where the operation that holds the lock is
    todo,      \* journal entries the current replay has yet to apply
    target,    \* the task being created or deleted
    failures   \* operations that have failed

vars == <<hwm, file, journal, pc, todo, target, failures>>

Record == [status : Statuses, blocks : SUBSET Ids, blockedBy : SUBSET Ids]
Absent == [status |-> "absent", blocks |-> {}, blockedBy |-> {}]
Created == [status |-> "pending", blocks |-> {}, blockedBy |-> {}]

\* "No .transaction file": the code never publishes an empty journal.
NoJournal == [writes |-> <<>>, deletes |-> {}]
NoTask == 0

Live == {t \in Ids : file[t] # Absent}

Init ==
    /\ hwm = 0
    /\ file = [t \in Ids |-> IF t \in Legacy THEN Created ELSE Absent]
    /\ journal = NoJournal
    /\ pc = "idle"
    /\ todo = {}
    /\ target = NoTask
    /\ failures = 0

-----------------------------------------------------------------------------
(* The lock and the redo journal.                                          *)

JournalIds == DOMAIN journal.writes \cup journal.deletes

\* Mutant: operations start without looking at the journal.
LockUnrecovered ==
    /\ pc = "idle"
    /\ pc' = "op"
    /\ UNCHANGED <<hwm, file, journal, todo, target, failures>>

\* _with_lock: an interrupted edit is replayed before the operation begins.
Lock ==
    /\ pc = "idle"
    /\ pc' = IF journal = NoJournal THEN "op" ELSE "recover"
    /\ todo' = JournalIds
    /\ UNCHANGED <<hwm, file, journal, target, failures>>

ReplayWrite(t) ==
    /\ pc \in {"recover", "replay"}
    /\ t \in todo \cap DOMAIN journal.writes
    /\ file' = [file EXCEPT ![t] = journal.writes[t]]
    /\ todo' = todo \ {t}
    /\ UNCHANGED <<hwm, journal, pc, target, failures>>

\* Files are unlinked after all writes; one that is gone already is fine.
ReplayDelete(t) ==
    /\ pc \in {"recover", "replay"}
    /\ todo \cap DOMAIN journal.writes = {}
    /\ t \in todo
    /\ file' = [file EXCEPT ![t] = Absent]
    /\ todo' = todo \ {t}
    /\ UNCHANGED <<hwm, journal, pc, target, failures>>

\* Mutant: the journal is unlinked before its entries are applied.
ReplayEndEarly ==
    /\ pc \in {"recover", "replay"}
    /\ journal # NoJournal
    /\ journal' = NoJournal
    /\ todo' = {}
    /\ pc' = IF pc = "recover" THEN "op" ELSE "idle"
    /\ UNCHANGED <<hwm, file, target, failures>>

ReplayEnd ==
    /\ pc \in {"recover", "replay"}
    /\ todo = {}
    /\ journal' = NoJournal
    /\ pc' = IF pc = "recover" THEN "op" ELSE "idle"
    /\ UNCHANGED <<hwm, file, todo, target, failures>>

\* _commit_graph_edit: the edit is committed when its journal is written, and
\* is replayed at once.  An edit that changes nothing writes nothing.
Publish(writes, deletes) ==
    IF DOMAIN writes = {} /\ deletes = {}
    THEN /\ pc' = "idle"
         /\ UNCHANGED <<journal, todo>>
    ELSE /\ journal' = [writes |-> writes, deletes |-> deletes]
         /\ todo' = DOMAIN writes \cup deletes
         /\ pc' = "replay"

\* A crash of the process, or an I/O error: the lock is released, every
\* completed write stays.
Fail ==
    /\ pc # "idle"
    /\ failures < MaxFailures
    /\ failures' = failures + 1
    /\ pc' = "idle"
    /\ todo' = {}
    /\ target' = NoTask
    /\ UNCHANGED <<hwm, file, journal>>

-----------------------------------------------------------------------------
(* The operations, each from the moment recovery is over.                  *)

\* get, list_all: reads only.  Also every request that is refused: a missing
\* subject or endpoint, a task depending on itself.
ReadOnly ==
    /\ pc = "op"
    /\ pc' = "idle"
    /\ UNCHANGED <<hwm, file, journal, todo, target, failures>>

\* _next_id takes one more than the mark and than every live identifier.
IsNextId(n) ==
    /\ \A m \in Live \cup {hwm} : m < n
    /\ n - 1 \in Live \cup {hwm}

\* create: the mark is raised first, so a failed creation burns its number.
CreateReserve(n) ==
    /\ pc = "op"
    /\ IsNextId(n)
    /\ hwm' = n
    /\ target' = n
    /\ pc' = "create"
    /\ UNCHANGED <<file, journal, todo, failures>>

CreateWrite ==
    /\ pc = "create"
    /\ file' = [file EXCEPT ![target] = Created]
    /\ target' = NoTask
    /\ pc' = "idle"
    /\ UNCHANGED <<hwm, journal, todo, failures>>

\* The record of u after t got status s and the edges E were added.
Edited(u, t, s, E) ==
    [status |-> IF u = t THEN s ELSE file[u].status,
     blocks |-> file[u].blocks \cup {d \in Ids : <<u, d>> \in E},
     blockedBy |-> file[u].blockedBy \cup {b \in Ids : <<b, u>> \in E}]

\* Edges a request about t may name, endpoints that do not exist included.
EdgesOf(t) == ({t} \X Ids) \cup (Ids \X {t})

\* Mutant: dependencies on missing tasks are accepted.
ValidEdgesUnchecked(E) == \A e \in E : e[1] # e[2] /\ (e[1] \in Live \/ e[2] \in Live)
ValidEdges(E) == \A e \in E : e[1] # e[2] /\ e[1] \in Live /\ e[2] \in Live

\* update_with_dependencies: every endpoint is loaded and checked before the
\* changed records are journaled together.  "other" is {t} when the title,
\* owner, description or metadata of t changes too, {} otherwise.
Update(t, s, E, other) ==
    LET changed == {u \in Live : Edited(u, t, s, E) # file[u]} \cup other IN
    /\ pc = "op"
    /\ t \in Live
    /\ ValidEdges(E)
    /\ Publish([u \in changed |-> Edited(u, t, s, E)], {})
    /\ UNCHANGED <<hwm, file, target, failures>>

\* add_block: one edge, whose absence of an endpoint is a False result.
AddBlock(b, d) ==
    LET E == {<<b, d>>}
        changed == {u \in {b, d} : Edited(u, b, file[b].status, E) # file[u]}
    IN
    /\ pc = "op"
    /\ ValidEdges(E)
    /\ Publish([u \in changed |-> Edited(u, b, file[b].status, E)], {})
    /\ UNCHANGED <<hwm, file, target, failures>>

\* _delete_task: the mark is raised over the deleted number first.
DeleteMarkSkipped(t) ==    \* mutant: the mark is left where it is
    /\ pc = "op"
    /\ t \in Live
    /\ target' = t
    /\ pc' = "delete"
    /\ UNCHANGED <<hwm, file, journal, todo, failures>>
DeleteMark(t) ==
    /\ pc = "op"
    /\ t \in Live
    /\ hwm' = IF t > hwm THEN t ELSE hwm
    /\ target' = t
    /\ pc' = "delete"
    /\ UNCHANGED <<file, journal, todo, failures>>

\* The record of u without its edges to t.
Without(u, t) ==
    [file[u] EXCEPT !.blocks = @ \ {t}, !.blockedBy = @ \ {t}]

DeletePublish ==
    LET touched == {u \in Live \ {target} :
                      target \in file[u].blocks \cup file[u].blockedBy}
    IN
    /\ pc = "delete"
    /\ Publish([u \in touched |-> Without(u, target)], {target})
    /\ target' = NoTask
    /\ UNCHANGED <<hwm, file, failures>>

-----------------------------------------------------------------------------
Replay ==
    \/ \E t \in Ids : ReplayWrite(t) \/ ReplayDelete(t)
    \/ ReplayEnd

Operation ==
    \/ ReadOnly
    \/ CreateWrite
    \/ DeletePublish
    \/ \E t \in Ids :
          \/ CreateReserve(t)
          \/ DeleteMark(t)
          \/ \E d \in Ids : AddBlock(t, d)
          \/ \E s \in Statuses, E \in SUBSET EdgesOf(t), other \in SUBSET {t} :
                Update(t, s, E, other)

Next == Lock \/ Replay \/ Operation \/ Fail

Spec == Init /\ [][Next]_vars

\* Some process keeps using the list, and an operation in progress proceeds.
Fairness == WF_vars(Lock) /\ WF_vars(Replay) /\ WF_vars(Operation)
FairSpec == Spec /\ Fairness

-----------------------------------------------------------------------------
\* The content a task file has once the journal is replayed.
Committed(t) ==
    IF t \in journal.deletes THEN Absent
    ELSE IF t \in DOMAIN journal.writes THEN journal.writes[t]
    ELSE file[t]

Tasks == {t \in Ids : Committed(t) # Absent}
Edges == {e \in Ids \X Ids : e[2] \in Committed(e[1]).blocks}

TypeOK ==
    /\ hwm \in 0 .. MaxId
    /\ file \in [Ids -> Record \cup {Absent}]
    /\ DOMAIN journal.writes \subseteq Ids
    /\ \A t \in DOMAIN journal.writes : journal.writes[t] \in Record
    /\ journal.deletes \subseteq Ids
    /\ journal.deletes \cap DOMAIN journal.writes = {}
    /\ pc \in {"idle", "recover", "op", "create", "delete", "replay"}
    /\ todo \subseteq JournalIds
    /\ target \in Ids \cup {NoTask}
    /\ failures \in 0 .. MaxFailures

\* The two sides of every dependency agree, whatever was interrupted: blocks
\* and blockedBy name each other, both tasks exist and none blocks itself.
DependenciesSymmetric ==
    \A t, u \in Ids :
        /\ u \in Committed(t).blocks <=> t \in Committed(u).blockedBy
        /\ u \in Committed(t).blocks => u \in Tasks /\ t # u

\* An operation that reads (list_all, get, the reads of an update) never sees
\* half of an edit: past recovery the files are the committed list.
ReadersSeeWholeEdits ==
    pc \in {"op", "create", "delete"} => \A t \in Ids : file[t] = Committed(t)

\* A reserved number is free, and above every task of the list.
ReservedIsFresh ==
    pc = "create" => /\ target = hwm
                     /\ \A t \in Tasks : t < target

\* Whatever was interrupted, nobody sees half an edit or gets a used number.
ListIsSound == DependenciesSymmetric /\ ReadersSeeWholeEdits /\ ReservedIsFresh

\* The directory implements the atomic task graph.  A number is issued when
\* the mark or a task has reached it and it is not just being created.
Issued ==
    {n \in Ids : n <= hwm \/ \E t \in Tasks : n <= t}
        \ (IF pc = "create" THEN {target} ELSE {})

Graph == INSTANCE TaskGraph WITH
    issued <- Issued,
    tasks <- Tasks,
    status <- [t \in Tasks |-> Committed(t).status],
    edges <- Edges

ImplementsGraph == Graph!Spec

\* A published edit reaches the task files (storage.py TaskStorage:
\* "interrupted edits roll forward before the next public operation").
JournalDrains == (journal # NoJournal) ~> (journal = NoJournal)
=============================================================================
