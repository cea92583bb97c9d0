-------------------------- MODULE TaskStorageProofs --------------------------
(***************************************************************************)
(* Machine-checked facts about TaskStorage, for any number of tasks and    *)
(* failures: types, edits that commit as a whole, symmetric dependencies.  *)
(***************************************************************************)
EXTENDS TaskStorage, TLAPS

Slot == Record \cup {Absent}

\* Sets, not records, is what the provers should see of a stored task.
LEMMA SlotFields ==
    /\ Created \in Record /\ Absent \in Slot /\ Absent \notin Record
    /\ \A r \in Slot : /\ r.status \in Statuses \cup {"absent"}
                       /\ r.blocks \subseteq Ids /\ r.blockedBy \subseteq Ids
    /\ \A r \in Slot : r # Absent => r \in Record
    /\ Created # Absent
  BY StorageConstants DEF StorageConstants, Slot, Record, Absent, Created

LEMMA EmptyJournal ==
    /\ NoJournal.deletes = {}
    /\ DOMAIN NoJournal.writes = {}
  BY DEF NoJournal

\* What holds between two file writes: an operation past recovery has no
\* journal before it, and a replay has applied all that is not in todo.
Progress ==
    /\ pc \in {"op", "create", "delete"} => journal = NoJournal
    /\ pc \in {"recover", "replay"} =>
          \A t \in JournalIds \ todo : file[t] = Committed(t)
    /\ pc = "create" => target \in Ids
    /\ pc = "delete" => target \in Live /\ target <= hwm

Safe == TypeOK /\ Progress

\* An edited record is a record.
LEMMA EditedType ==
    ASSUME TypeOK, NEW u \in Live, NEW t \in Ids, NEW s \in Statuses, NEW E
    PROVE  Edited(u, t, s, E) \in Record
<1>1. file[u] \in Record
    BY SlotFields DEF TypeOK, Live, Slot
<1> QED
    BY <1>1 DEF Edited, Record

LEMMA WithoutType ==
    ASSUME TypeOK, NEW u \in Live, NEW t \in Ids
    PROVE  /\ Without(u, t) \in Record
           /\ Without(u, t).status = file[u].status
           /\ Without(u, t).blocks = file[u].blocks \ {t}
           /\ Without(u, t).blockedBy = file[u].blockedBy \ {t}
<1>1. file[u] \in Record
    BY SlotFields DEF TypeOK, Live, Slot
<1> QED
    BY <1>1 DEF Without, Record

\* The two ways a published edit can end: nothing to write, or a journal.
LEMMA PublishCommits ==
    ASSUME TypeOK, journal = NoJournal, UNCHANGED file,
           NEW W, NEW D, DOMAIN W \cap D = {}, Publish(W, D)
    PROVE  \A t \in Ids : Committed(t)' =
              IF t \in D THEN Absent ELSE IF t \in DOMAIN W THEN W[t] ELSE file[t]
  BY EmptyJournal DEF Publish, Committed

LEMMA PublishSafe ==
    ASSUME Safe, journal = NoJournal, UNCHANGED <<hwm, file, failures>>,
           NEW W, NEW D, DOMAIN W \cap D = {}, Publish(W, D),
           DOMAIN W \subseteq Ids, D \subseteq Ids, \A t \in DOMAIN W : W[t] \in Record,
           target' \in Ids \cup {NoTask}
    PROVE  Safe'
<1>1. CASE DOMAIN W = {} /\ D = {}
    BY <1>1 DEF Safe, TypeOK, Publish, Progress, JournalIds
<1>2. CASE ~(DOMAIN W = {} /\ D = {})
  <2>1. /\ journal'.writes = W /\ journal'.deletes = D
        /\ todo' = DOMAIN W \cup D /\ pc' = "replay"
      BY <1>2 DEF Publish
  <2> QED
      BY <2>1 DEF Safe, TypeOK, Progress, JournalIds
<1> QED
    BY <1>1, <1>2

\* What an edit of the request (t, s, E) makes of the list.
Becomes(t, s, E) ==
    \A u \in Ids : Committed(u)' = IF u \in Live THEN Edited(u, t, s, E) ELSE file[u]

LEMMA UpdateStep ==
    ASSUME Safe, NEW t \in Ids, NEW s \in Statuses, NEW E \in SUBSET EdgesOf(t),
           NEW other \in SUBSET {t}, Update(t, s, E, other)
    PROVE  Safe' /\ Becomes(t, s, E) /\ ValidEdges(E) /\ t \in Live
<1> DEFINE changed == {u \in Live : Edited(u, t, s, E) # file[u]} \cup other
           W == [u \in changed |-> Edited(u, t, s, E)]
<1>1. /\ pc = "op" /\ t \in Live /\ ValidEdges(E) /\ Publish(W, {})
      /\ UNCHANGED <<hwm, file, target, failures>>
    BY DEF Update
<1>0. changed \subseteq Live
    BY <1>1
<1>2. journal = NoJournal /\ DOMAIN W \subseteq Ids /\ DOMAIN W \cap {} = {}
    BY <1>0, <1>1 DEF Safe, Progress, Live
<1>3. \A u \in DOMAIN W : W[u] \in Record
    BY <1>0, EditedType DEF Safe
<1>4. target' \in Ids \cup {NoTask}
    BY <1>1 DEF Safe, TypeOK
<1>5. Safe'
    BY <1>1, <1>2, <1>3, <1>4, PublishSafe
<1>6. Becomes(t, s, E)
  <2>1. \A u \in Ids : Committed(u)' = IF u \in DOMAIN W THEN W[u] ELSE file[u]
      BY <1>1, <1>2, PublishCommits DEF Safe
  <2> QED
      BY <1>0, <2>1 DEF Becomes
<1> QED
    BY <1>1, <1>5, <1>6

LEMMA AddBlockStep ==
    ASSUME Safe, NEW b \in Ids, NEW d \in Ids, AddBlock(b, d)
    PROVE  /\ Safe' /\ Becomes(b, file[b].status, {<<b, d>>})
           /\ ValidEdges({<<b, d>>}) /\ b \in Live
<1> DEFINE s == file[b].status
           E == {<<b, d>>}
           changed == {u \in {b, d} : Edited(u, b, s, E) # file[u]}
           W == [u \in changed |-> Edited(u, b, s, E)]
<1>1. /\ pc = "op" /\ ValidEdges(E) /\ Publish(W, {})
      /\ UNCHANGED <<hwm, file, target, failures>>
    BY DEF AddBlock
<1>2. journal = NoJournal /\ DOMAIN W \subseteq Ids /\ DOMAIN W \cap {} = {}
    BY <1>1 DEF Safe, Progress, Live
<1>3. b \in Live /\ d \in Live /\ b # d
    BY <1>1 DEF ValidEdges
<1>4. s \in Statuses
    BY <1>3, SlotFields DEF Safe, TypeOK, Live, Slot, Record
<1>5. \A u \in DOMAIN W : W[u] \in Record
    BY <1>3, <1>4, EditedType DEF Safe
<1>6. target' \in Ids \cup {NoTask}
    BY <1>1 DEF Safe, TypeOK
<1>7. Safe'
    BY <1>1, <1>2, <1>5, <1>6, PublishSafe
<1>8. Becomes(b, s, E)
  <2>1. \A u \in Ids : Committed(u)' = IF u \in DOMAIN W THEN W[u] ELSE file[u]
      BY <1>1, <1>2, PublishCommits DEF Safe
  <2>2. ASSUME NEW u \in Live, u \notin {b, d}
        PROVE  Edited(u, b, s, E) = file[u]
    <3>1. file[u] \in Record
        BY SlotFields DEF Safe, TypeOK, Live, Slot
    <3>2. {x \in Ids : <<u, x>> \in E} = {} /\ {x \in Ids : <<x, u>> \in E} = {}
        BY <2>2
    <3> QED
        BY <2>2, <3>1, <3>2 DEF Edited, Record
  <2> QED
      BY <1>3, <2>1, <2>2 DEF Becomes
<1> QED
    BY <1>1, <1>3, <1>7, <1>8

\* What deleting t makes of the list.
Loses(t) ==
    \A u \in Ids : Committed(u)' =
        IF u = t THEN Absent ELSE IF u \in Live THEN Without(u, t) ELSE file[u]

LEMMA DeleteStep ==
    ASSUME Safe, DeletePublish
    PROVE  Safe' /\ Loses(target)
<1> DEFINE touched == {u \in Live \ {target} :
                         target \in file[u].blocks \cup file[u].blockedBy}
           W == [u \in touched |-> Without(u, target)]
<1>1. /\ pc = "delete" /\ Publish(W, {target}) /\ target' = NoTask
      /\ UNCHANGED <<hwm, file, failures>>
    BY DEF DeletePublish
<1>2. journal = NoJournal /\ target \in Live /\ target \in Ids
    BY <1>1 DEF Safe, Progress, Live
<1>3. DOMAIN W \subseteq Ids /\ DOMAIN W \cap {target} = {} /\ {target} \subseteq Ids
    BY <1>2 DEF Live
<1>4. \A u \in DOMAIN W : W[u] \in Record
    BY <1>2, WithoutType DEF Safe
<1>5. Safe'
    BY <1>1, <1>2, <1>3, <1>4, PublishSafe
<1>6. Loses(target)
  <2>1. \A u \in Ids : Committed(u)' =
           IF u = target THEN Absent ELSE IF u \in DOMAIN W THEN W[u] ELSE file[u]
      BY <1>1, <1>2, <1>3, PublishCommits DEF Safe
  <2>2. ASSUME NEW u \in Live \ {target}, u \notin touched
        PROVE  Without(u, target) = file[u]
    <3>1. file[u] \in Record
        BY SlotFields DEF Safe, TypeOK, Live, Slot
    <3> QED
        BY <2>2, <3>1 DEF Without, Record
  <2> QED
      BY <2>1, <2>2 DEF Loses
<1> QED
    BY <1>5, <1>6

\* Every other step leaves the committed list alone, but for a creation.
LEMMA QuietStep ==
    ASSUME Safe,
           \/ Lock \/ Replay \/ Fail \/ ReadOnly \/ UNCHANGED vars
           \/ \E n \in Ids : CreateReserve(n) \/ DeleteMark(n)
    PROVE  Safe' /\ \A u \in Ids : Committed(u)' = Committed(u)
<1>1. CASE Lock
    BY <1>1, EmptyJournal DEF Lock, Safe, TypeOK, Progress, JournalIds, Committed
<1>2. ASSUME NEW t \in Ids, ReplayWrite(t)
      PROVE  Safe' /\ \A u \in Ids : Committed(u)' = Committed(u)
    BY <1>2 DEF ReplayWrite, Safe, TypeOK, Progress, JournalIds, Committed
<1>3. ASSUME NEW t \in Ids, ReplayDelete(t)
      PROVE  Safe' /\ \A u \in Ids : Committed(u)' = Committed(u)
    BY <1>3 DEF ReplayDelete, Safe, TypeOK, Progress, JournalIds, Committed
<1>4. CASE ReplayEnd
  <2>1. \A u \in Ids : file[u] = Committed(u)
      BY <1>4 DEF ReplayEnd, Safe, Progress, JournalIds, Committed
  <2> QED
      BY <1>4, <2>1, EmptyJournal
      DEF ReplayEnd, Safe, TypeOK, Progress, JournalIds, Committed
<1>5. CASE Fail
    BY <1>5, StorageConstants DEF Fail, Safe, TypeOK, Progress, Committed, StorageConstants
<1>6. CASE ReadOnly
    BY <1>6 DEF ReadOnly, Safe, TypeOK, Progress, Committed, JournalIds
<1>7. ASSUME NEW n \in Ids, CreateReserve(n)
      PROVE  Safe' /\ \A u \in Ids : Committed(u)' = Committed(u)
    BY <1>7, StorageConstants
    DEF CreateReserve, Safe, TypeOK, Progress, Committed, JournalIds, StorageConstants, Ids
<1>8. ASSUME NEW t \in Ids, DeleteMark(t)
      PROVE  Safe' /\ \A u \in Ids : Committed(u)' = Committed(u)
    BY <1>8, StorageConstants
    DEF DeleteMark, Safe, TypeOK, Progress, Committed, JournalIds, StorageConstants, Ids, Live
<1>9. CASE UNCHANGED vars
    BY <1>9 DEF vars, Safe, TypeOK, Progress, Committed, JournalIds, Live
<1> QED
    BY <1>1, <1>2, <1>3, <1>4, <1>5, <1>6, <1>7, <1>8, <1>9 DEF Replay

LEMMA CreateStep ==
    ASSUME Safe, CreateWrite
    PROVE  /\ Safe'
           /\ target \in Ids /\ journal = NoJournal
           /\ \A u \in Ids : Committed(u)' = IF u = target THEN Created ELSE Committed(u)
<1>1. target \in Ids /\ journal = NoJournal
    BY DEF CreateWrite, Safe, Progress
<1>2. Safe'
    BY <1>1, SlotFields DEF CreateWrite, Safe, TypeOK, Progress, JournalIds
<1>3. /\ journal' = journal /\ file'[target] = Created
      /\ \A u \in Ids : u # target => file'[u] = file[u]
    BY <1>1 DEF CreateWrite, Safe, TypeOK
<1>4. \A u \in Ids : Committed(u) = file[u] /\ Committed(u)' = file'[u]
    BY <1>1, <1>3, EmptyJournal DEF Committed
<1> QED
    BY <1>1, <1>2, <1>3, <1>4

\* Safe is inductive.
LEMMA SafeStep == Safe /\ [Next]_vars => Safe'
<1> SUFFICES ASSUME Safe, [Next]_vars
             PROVE  Safe'
    OBVIOUS
<1>1. CASE \/ Lock \/ Replay \/ Fail \/ ReadOnly \/ UNCHANGED vars
           \/ \E n \in Ids : CreateReserve(n) \/ DeleteMark(n)
    BY <1>1, QuietStep
<1>2. CASE CreateWrite
    BY <1>2, CreateStep
<1>3. CASE DeletePublish
    BY <1>3, DeleteStep
<1>4. ASSUME NEW b \in Ids, NEW d \in Ids, AddBlock(b, d)
      PROVE  Safe'
    BY <1>4, AddBlockStep
<1>5. ASSUME NEW t \in Ids, NEW s \in Statuses, NEW E \in SUBSET EdgesOf(t),
             NEW other \in SUBSET {t}, Update(t, s, E, other)
      PROVE  Safe'
    BY <1>5, UpdateStep
<1> QED
    BY <1>1, <1>2, <1>3, <1>4, <1>5 DEF Next, Operation

LEMMA SafeAlways == Spec => []Safe
<1>1. Init => Safe
  <2> SUFFICES ASSUME Init PROVE Safe
      OBVIOUS
  <2>1. TypeOK
      BY StorageConstants, SlotFields, EmptyJournal
      DEF Init, TypeOK, StorageConstants, JournalIds, Slot, Ids
  <2> QED
      BY <2>1 DEF Init, Safe, Progress
<1>2. Safe /\ [Next]_vars => Safe'
    BY SafeStep
<1> QED
    BY <1>1, <1>2, PTL DEF Spec

\* The variables of TaskStorage keep their types in every behaviour.
THEOREM StorageTypeCorrect == Spec => []TypeOK
<1>1. Safe => TypeOK
    BY DEF Safe
<1> QED
    BY <1>1, SafeAlways, PTL

\* Past recovery an operation finds the committed list in the files
\* (ReadersSeeWholeEdits), wherever earlier operations were interrupted.
THEOREM ReadersNeverSeeHalfEdits == Spec => []ReadersSeeWholeEdits
<1>1. Safe => ReadersSeeWholeEdits
    BY EmptyJournal DEF Safe, Progress, ReadersSeeWholeEdits, Committed
<1> QED
    BY <1>1, SafeAlways, PTL

-----------------------------------------------------------------------------
\* In a state without a journal the files are the list.
LEMMA FilesAreCommitted ==
    ASSUME journal = NoJournal
    PROVE  /\ \A t \in Ids : Committed(t) = file[t]
           /\ Tasks = Live
  BY EmptyJournal DEF Committed, Tasks, Live

LEMMA SymmetricEdit ==
    ASSUME Safe, DependenciesSymmetric, journal = NoJournal, NEW t \in Ids, NEW s \in Statuses,
           NEW E \in SUBSET (Ids \X Ids), ValidEdges(E), Becomes(t, s, E)
    PROVE  DependenciesSymmetric' /\ Tasks' = Tasks
<1>1. /\ \A u \in Ids : Committed(u) = file[u]
      /\ Tasks = Live
    BY FilesAreCommitted
<1>2. \A u \in Ids : u \in Live => Committed(u)' # Absent
    BY EditedType, SlotFields DEF Becomes, Safe
<1>3. \A u \in Ids : u \notin Live => Committed(u)' = Absent
    BY DEF Becomes, Live
<1>4. Tasks' = Live
    BY <1>2, <1>3 DEF Tasks, Live
<1>5. ASSUME NEW u \in Ids, NEW v \in Ids
      PROVE  /\ v \in Committed(u)'.blocks <=>
                  u \in Live /\ (v \in file[u].blocks \/ <<u, v>> \in E)
             /\ v \in Committed(u)'.blockedBy <=>
                  u \in Live /\ (v \in file[u].blockedBy \/ <<v, u>> \in E)
  <2>1. CASE u \in Live
    <3>1. Committed(u)' = Edited(u, t, s, E)
        BY <2>1 DEF Becomes
    <3>2. /\ Edited(u, t, s, E).blocks = file[u].blocks \cup {d \in Ids : <<u, d>> \in E}
          /\ Edited(u, t, s, E).blockedBy = file[u].blockedBy \cup {b \in Ids : <<b, u>> \in E}
        BY DEF Edited
    <3> QED
        BY <2>1, <3>1, <3>2
  <2>2. CASE u \notin Live
    <3>1. Committed(u)' = Absent
        BY <1>3, <2>2
    <3>2. Absent.blocks = {} /\ Absent.blockedBy = {}
        BY DEF Absent
    <3> QED
        BY <2>2, <3>1, <3>2
  <2> QED
      BY <2>1, <2>2
<1>7. \A u, v \in Ids : <<u, v>> \in E => u \in Live /\ v \in Live /\ u # v
    BY DEF ValidEdges
<1>8. \A u, v \in Ids : /\ v \in file[u].blocks <=> u \in file[v].blockedBy
                        /\ v \in file[u].blocks => v \in Live /\ u # v
    BY <1>1 DEF DependenciesSymmetric
<1>9. \A u, v \in Ids : v \in file[u].blocks => u \in Live
    BY DEF Live, Absent
<1> QED
    BY <1>1, <1>4, <1>5, <1>7, <1>8, <1>9 DEF DependenciesSymmetric

LEMMA SymmetricDelete ==
    ASSUME Safe, DependenciesSymmetric, DeletePublish
    PROVE  DependenciesSymmetric' /\ Tasks' = Tasks \ {target}
<1>1. /\ journal = NoJournal /\ target \in Live /\ target \in Ids
      /\ \A u \in Ids : Committed(u) = file[u]
      /\ Tasks = Live
    BY FilesAreCommitted DEF DeletePublish, Safe, Progress, Live
<1>2. Loses(target)
    BY DeleteStep
<1>3. ASSUME NEW u \in Live, u # target
      PROVE  /\ Committed(u)' # Absent
             /\ Committed(u)'.blocks = Committed(u).blocks \ {target}
             /\ Committed(u)'.blockedBy = Committed(u).blockedBy \ {target}
  <2>1. Committed(u)' = Without(u, target)
      BY <1>2, <1>3 DEF Loses, Live
  <2> QED
      BY <1>1, <1>3, <2>1, WithoutType, SlotFields DEF Safe, Live
<1>4. \A u \in Ids : u \notin Live \/ u = target => Committed(u)' = Absent
    BY <1>2 DEF Loses, Live
<1>5. Tasks' = Tasks \ {target}
    BY <1>1, <1>3, <1>4 DEF Tasks
<1>6. Absent.blocks = {} /\ Absent.blockedBy = {}
    BY DEF Absent
<1>7. \A u, v \in Ids : v \in Committed(u)'.blocks <=>
          u # target /\ v # target /\ v \in Committed(u).blocks
    BY <1>1, <1>3, <1>4, <1>6 DEF Live
<1>8. \A u, v \in Ids : v \in Committed(u)'.blockedBy <=>
          u # target /\ v # target /\ v \in Committed(u).blockedBy
    BY <1>1, <1>3, <1>4, <1>6 DEF Live
<1> QED
    BY <1>5, <1>7, <1>8 DEF DependenciesSymmetric

LEMMA SymmetricCreate ==
    ASSUME Safe, DependenciesSymmetric, ReservedIsFresh, CreateWrite
    PROVE  DependenciesSymmetric' /\ Tasks' = Tasks \cup {target}
<1>1. /\ target \in Ids
      /\ \A u \in Ids : Committed(u)' = IF u = target THEN Created ELSE Committed(u)
    BY CreateStep
<1>2. target \notin Tasks
    BY <1>1 DEF ReservedIsFresh, CreateWrite, Ids
<1>3. Created.blocks = {} /\ Created.blockedBy = {} /\ Created # Absent
    BY SlotFields DEF Created
<1>4. Tasks' = Tasks \cup {target}
    BY <1>1, <1>3 DEF Tasks
<1>5. Committed(target).blocks = {} /\ Committed(target).blockedBy = {}
    BY <1>1, <1>2 DEF Tasks, Absent
<1>6. \A u \in Ids : target \notin Committed(u).blocks /\ target \notin Committed(u).blockedBy
    BY <1>1, <1>2, <1>5 DEF DependenciesSymmetric
<1> QED
    BY <1>1, <1>3, <1>4, <1>5, <1>6 DEF DependenciesSymmetric

LEMMA QuietList ==
    ASSUME Safe, \A u \in Ids : Committed(u)' = Committed(u)
    PROVE  /\ DependenciesSymmetric => DependenciesSymmetric'
           /\ Tasks' = Tasks
<1>1. Tasks' = Tasks
    BY DEF Tasks
<1> QED
    BY <1>1 DEF DependenciesSymmetric

\* The whole inductive invariant of the list.
ListInv == Safe /\ DependenciesSymmetric /\ ReservedIsFresh

LEMMA ListStep == ListInv /\ [Next]_vars => ListInv'
<1> SUFFICES ASSUME ListInv, [Next]_vars
             PROVE  ListInv'
    OBVIOUS
<1>1. Safe'
    BY SafeStep DEF ListInv
<1>2. CASE \/ Lock \/ Replay \/ Fail \/ ReadOnly \/ UNCHANGED vars
           \/ \E n \in Ids : DeleteMark(n)
  <2>1. DependenciesSymmetric' /\ Tasks' = Tasks
      BY <1>2, QuietStep, QuietList DEF ListInv
  <2>2. pc' = "create" => pc = "create" /\ UNCHANGED <<target, hwm>>
      BY <1>2 DEF Lock, Replay, ReplayWrite, ReplayDelete, ReplayEnd, Fail, ReadOnly, vars,
                  DeleteMark
  <2> QED
      BY <1>1, <2>1, <2>2 DEF ListInv, ReservedIsFresh
<1>3. ASSUME NEW n \in Ids, CreateReserve(n)
      PROVE  ListInv'
  <2>1. DependenciesSymmetric' /\ Tasks' = Tasks
      BY <1>3, QuietStep, QuietList DEF ListInv
  <2>2. Tasks = Live
      BY <1>3, FilesAreCommitted DEF ListInv, Safe, Progress, CreateReserve
  <2> QED
      BY <1>1, <1>3, <2>1, <2>2 DEF ListInv, ReservedIsFresh, CreateReserve, IsNextId
<1>4. CASE CreateWrite
    BY <1>1, <1>4, SymmetricCreate DEF ListInv, ReservedIsFresh, CreateWrite
<1>5. CASE DeletePublish
  <2>1. pc' # "create"
      BY <1>5 DEF DeletePublish, Publish
  <2> QED
      BY <1>1, <1>5, <2>1, SymmetricDelete DEF ListInv, ReservedIsFresh
<1>6. ASSUME NEW t \in Ids, NEW s \in Statuses, NEW E \in SUBSET EdgesOf(t),
             NEW other \in SUBSET {t}, Update(t, s, E, other)
      PROVE  ListInv'
  <2>1. pc' # "create" /\ journal = NoJournal /\ E \in SUBSET (Ids \X Ids)
      BY <1>6 DEF Update, Publish, ListInv, Safe, Progress, EdgesOf
  <2>2. Becomes(t, s, E) /\ ValidEdges(E)
      BY <1>6, UpdateStep DEF ListInv
  <2> QED
      BY <1>1, <2>1, <2>2, SymmetricEdit DEF ListInv, ReservedIsFresh
<1>7. ASSUME NEW b \in Ids, NEW d \in Ids, AddBlock(b, d)
      PROVE  ListInv'
  <2>1. pc' # "create" /\ journal = NoJournal
      BY <1>7 DEF AddBlock, Publish, ListInv, Safe, Progress
  <2>2. /\ Becomes(b, file[b].status, {<<b, d>>}) /\ ValidEdges({<<b, d>>})
        /\ b \in Live
      BY <1>7, AddBlockStep DEF ListInv
  <2>3. file[b].status \in Statuses /\ {<<b, d>>} \in SUBSET (Ids \X Ids)
      BY <2>2, SlotFields DEF ListInv, Safe, TypeOK, Live, Slot, Record
  <2> QED
      BY <1>1, <2>1, <2>2, <2>3, SymmetricEdit DEF ListInv, ReservedIsFresh
<1> QED
    BY <1>2, <1>3, <1>4, <1>5, <1>6, <1>7 DEF Next, Operation

LEMMA ListAlways == Spec => []ListInv
<1>1. Init => ListInv
  <2> SUFFICES ASSUME Init PROVE ListInv
      OBVIOUS
  <2>1. Safe
    <3>1. TypeOK
        BY StorageConstants, SlotFields, EmptyJournal
        DEF Init, TypeOK, StorageConstants, JournalIds, Slot, Ids
    <3> QED
        BY <3>1 DEF Init, Safe, Progress
  <2>2. \A t \in Ids : Committed(t).blocks = {} /\ Committed(t).blockedBy = {}
      BY FilesAreCommitted DEF Init, Created, Absent
  <2> QED
      BY <2>1, <2>2 DEF ListInv, DependenciesSymmetric, ReservedIsFresh, Init
<1>2. ListInv /\ [Next]_vars => ListInv'
    BY ListStep
<1> QED
    BY <1>1, <1>2, PTL DEF Spec

\* Both sides of every dependency agree in the committed list
\* (DependenciesSymmetric): no interruption leaves half an edge behind.
THEOREM DependenciesStaySymmetric == Spec => []DependenciesSymmetric
<1>1. ListInv => DependenciesSymmetric
    BY DEF ListInv
<1> QED
    BY <1>1, ListAlways, PTL

\* A number being given to a new task is above every task (ReservedIsFresh).
THEOREM NumbersAreFresh == Spec => []ReservedIsFresh
<1>1. ListInv => ReservedIsFresh
    BY DEF ListInv
<1> QED
    BY <1>1, ListAlways, PTL

\* Readers, dependencies and numbers together (ListIsSound): what the lock and
\* the journal of storage.py are there for.
THEOREM ListStaysSound == Spec => []ListIsSound
<1>1. DependenciesSymmetric /\ ReadersSeeWholeEdits /\ ReservedIsFresh => ListIsSound
    BY DEF ListIsSound
<1> QED
    BY <1>1, ReadersNeverSeeHalfEdits, DependenciesStaySymmetric, NumbersAreFresh, PTL

-----------------------------------------------------------------------------
(* The directory implements the task graph: every step is one of its steps *)
(* or leaves the graph as it is.                                           *)

StatusMap == [t \in Tasks |-> Committed(t).status]

\* The set of edges is what both record fields say.
LEMMA EdgeMembership ==
    /\ Edges \subseteq Ids \X Ids
    /\ \A u, v \in Ids : <<u, v>> \in Edges <=> v \in Committed(u).blocks
  BY DEF Edges

LEMMA SameList ==
    ASSUME Safe, \A u \in Ids : Committed(u)' = Committed(u)
    PROVE  Tasks' = Tasks /\ Edges' = Edges /\ StatusMap' = StatusMap
<1>1. Tasks' = Tasks
    BY DEF Tasks
<1>2. Edges' = Edges
    BY DEF Edges
<1>3. StatusMap' = StatusMap
    BY <1>1 DEF StatusMap, Tasks
<1> QED
    BY <1>1, <1>2, <1>3

\* A number below the mark or a task stays issued; reserving one is invisible.
LEMMA IssuedStays ==
    ASSUME ListInv, Tasks' = Tasks,
           \/ UNCHANGED hwm /\ pc # "create" /\ pc' # "create"
           \/ UNCHANGED <<hwm, pc, target>>
           \/ \E t \in Ids : DeleteMark(t)
           \/ \E n \in Ids : CreateReserve(n)
    PROVE  Issued' = Issued
<1>1. CASE UNCHANGED hwm /\ pc # "create" /\ pc' # "create"
    BY <1>1 DEF Issued
<1>2. CASE UNCHANGED <<hwm, pc, target>>
    BY <1>2 DEF Issued
<1>3. ASSUME NEW t \in Ids, DeleteMark(t)
      PROVE  Issued' = Issued
  <2>1. t \in Tasks /\ pc # "create" /\ pc' # "create"
      BY <1>3, FilesAreCommitted DEF DeleteMark, ListInv, Safe, Progress
  <2> QED
      BY <1>3, <2>1 DEF DeleteMark, Issued, ListInv, Safe, TypeOK, Ids
<1>4. ASSUME NEW n \in Ids, CreateReserve(n)
      PROVE  Issued' = Issued
  <2>1. Tasks = Live /\ pc # "create" /\ pc' = "create" /\ hwm' = n /\ target' = n
      BY <1>4, FilesAreCommitted DEF CreateReserve, ListInv, Safe, Progress
  <2>2. /\ \A m \in Tasks \cup {hwm} : m < n
        /\ n - 1 \in Tasks \cup {hwm}
      BY <1>4, <2>1 DEF CreateReserve, IsNextId
  <2>3. hwm \in Nat /\ \A m \in Tasks : m \in Nat
      BY DEF ListInv, Safe, TypeOK, Tasks, Ids
  <2> QED
      BY <2>1, <2>2, <2>3 DEF Issued, Ids
<1> QED
    BY <1>1, <1>2, <1>3, <1>4

LEMMA MapQuiet ==
    ASSUME ListInv,
           \/ Lock \/ Replay \/ ReadOnly \/ UNCHANGED vars
           \/ \E n \in Ids : CreateReserve(n) \/ DeleteMark(n)
    PROVE  UNCHANGED Graph!graph
<1>1. Tasks' = Tasks /\ Edges' = Edges /\ StatusMap' = StatusMap
    BY QuietStep, SameList DEF ListInv
<1>2. Issued' = Issued
    BY <1>1, IssuedStays
    DEF Lock, Replay, ReplayWrite, ReplayDelete, ReplayEnd, ReadOnly, vars
<1> QED
    BY <1>1, <1>2 DEF Graph!graph, StatusMap

LEMMA MapFail ==
    ASSUME ListInv, Fail
    PROVE  [Graph!Next]_Graph!graph
<1>1. Tasks' = Tasks /\ Edges' = Edges /\ StatusMap' = StatusMap
    BY QuietStep, SameList DEF ListInv
<1>2. CASE pc # "create"
  <2>1. Issued' = Issued
      BY <1>1, <1>2, IssuedStays DEF Fail
  <2> QED
      BY <1>1, <2>1 DEF Graph!graph, StatusMap
<1>3. CASE pc = "create"
  <2>1. target \in Ids /\ target \notin Issued
      BY <1>3 DEF ListInv, Safe, Progress, Issued
  <2>2. Issued' = Issued \cup {target}
      BY <1>1, <1>3, <2>1 DEF Fail, Issued, ListInv, ReservedIsFresh, Ids
  <2>3. Graph!Burn(target)
      BY <1>1, <2>1, <2>2 DEF Graph!Burn, StatusMap
  <2> QED
      BY <2>1, <2>3 DEF Graph!Next
<1> QED
    BY <1>2, <1>3

LEMMA MapCreate ==
    ASSUME ListInv, CreateWrite
    PROVE  Graph!Next
<1>1. /\ target \in Ids /\ pc = "create" /\ target = hwm
      /\ \A u \in Ids : Committed(u)' = IF u = target THEN Created ELSE Committed(u)
    BY CreateStep DEF ListInv, CreateWrite, ReservedIsFresh
<1>2. Tasks' = Tasks \cup {target} /\ target \notin Tasks
    BY <1>1, SymmetricCreate DEF ListInv, ReservedIsFresh, Ids
<1>3. target \notin Issued /\ Issued' = Issued \cup {target}
    BY <1>1, <1>2 DEF Issued, CreateWrite, ListInv, ReservedIsFresh, Ids
<1>4. Edges' = Edges
  <2>1. Created.blocks = {} /\ Committed(target).blocks = {}
      BY <1>1, <1>2 DEF Created, Tasks, Absent
  <2> QED
      BY <1>1, <2>1 DEF Edges
<1>5. StatusMap' = [u \in Tasks' |-> IF u = target THEN "pending" ELSE StatusMap[u]]
  <2>1. Created.status = "pending"
      BY DEF Created
  <2>2. \A u \in Tasks' : u \in Ids
      BY <1>1, <1>2 DEF Tasks
  <2>3. \A u \in Tasks' : u # target => u \in Tasks
      BY <1>2
  <2> QED
      BY <1>1, <2>1, <2>2, <2>3 DEF StatusMap
<1>6. Graph!Create(target)
    BY <1>2, <1>3, <1>4, <1>5 DEF Graph!Create, StatusMap
<1> QED
    BY <1>1, <1>6 DEF Graph!Next

\* An edit of t to status s with the edges E is one Edit of the graph.
LEMMA MapEdit ==
    ASSUME ListInv, journal = NoJournal, pc # "create", pc' # "create", UNCHANGED hwm,
           NEW t \in Live, NEW s \in Statuses, NEW E \in SUBSET EdgesOf(t),
           ValidEdges(E), Becomes(t, s, E)
    PROVE  Graph!Next
<1>1. t \in Ids /\ E \in SUBSET (Ids \X Ids)
    BY DEF Live, EdgesOf
<1>2. /\ \A u \in Ids : Committed(u) = file[u]
      /\ Tasks = Live
    BY FilesAreCommitted
<1>3. Tasks' = Tasks
    BY <1>1, SymmetricEdit DEF ListInv
<1>4. Issued' = Issued
    BY <1>3, IssuedStays
<1>5. \A e \in E : e \in Tasks \X Tasks /\ e[1] # e[2] /\ t \in {e[1], e[2]}
    BY <1>1, <1>2 DEF ValidEdges, EdgesOf
<1>6. \A u \in Live : /\ Committed(u)' = Edited(u, t, s, E)
                      /\ Edited(u, t, s, E).status = IF u = t THEN s ELSE file[u].status
                      /\ Edited(u, t, s, E).blocks =
                            file[u].blocks \cup {d \in Ids : <<u, d>> \in E}
    BY DEF Becomes, Edited, Live
<1>7. StatusMap' = [StatusMap EXCEPT ![t] = s]
  <2>1. /\ StatusMap = [u \in Live |-> file[u].status]
        /\ StatusMap' = [u \in Live |-> Committed(u)'.status]
      BY <1>2, <1>3 DEF StatusMap, Live
  <2>2. \A u \in Live : Committed(u)'.status = IF u = t THEN s ELSE file[u].status
      BY <1>6
  <2> QED
      BY <2>1, <2>2
<1>8. Edges' = Edges \cup E
  <2>1. /\ Edges = {e \in Ids \X Ids : e[2] \in Committed(e[1]).blocks}
        /\ Edges' = {e \in Ids \X Ids : e[2] \in Committed(e[1])'.blocks}
      BY DEF Edges
  <2>2. ASSUME NEW u \in Ids, NEW v \in Ids
        PROVE  v \in Committed(u)'.blocks <=> v \in Committed(u).blocks \/ <<u, v>> \in E
    <3>1. CASE u \in Live
        BY <1>2, <1>6, <3>1
    <3>2. CASE u \notin Live
      <4>1. Committed(u)' = Committed(u) /\ \A w \in Ids : <<u, w>> \notin E
          BY <1>2, <3>2 DEF Becomes, ValidEdges
      <4> QED
          BY <4>1
    <3> QED
        BY <3>1, <3>2
  <2> QED
      BY <1>1, <2>1, <2>2
<1>9. Graph!Edit(t, s, E)
    BY <1>2, <1>3, <1>4, <1>5, <1>7, <1>8 DEF Graph!Edit, StatusMap
<1> QED
    BY <1>1, <1>9 DEF Graph!Next, EdgesOf

LEMMA MapDelete ==
    ASSUME ListInv, DeletePublish
    PROVE  Graph!Next
<1>1. /\ journal = NoJournal /\ target \in Live /\ target \in Ids /\ target <= hwm
      /\ pc # "create" /\ pc' # "create" /\ UNCHANGED hwm
      /\ \A u \in Ids : Committed(u) = file[u]
      /\ Tasks = Live
    BY FilesAreCommitted DEF DeletePublish, Publish, ListInv, Safe, Progress, Live
<1>2. Tasks' = Tasks \ {target}
    BY SymmetricDelete DEF ListInv
<1>3. \A u \in Ids : Committed(u)' =
          IF u = target THEN Absent ELSE IF u \in Live THEN Without(u, target) ELSE file[u]
    BY DeleteStep DEF ListInv, Loses
<1>4. Issued' = Issued
  <2>1. \A n \in Ids : n <= target => n <= hwm
      BY <1>1 DEF ListInv, Safe, TypeOK, Ids
  <2> QED
      BY <1>1, <1>2, <2>1 DEF Issued
<1>5. \A u \in Live : /\ Without(u, target).status = file[u].status
                      /\ Without(u, target).blocks = file[u].blocks \ {target}
    BY <1>1, WithoutType DEF ListInv, Safe
<1>6. StatusMap' = [u \in Tasks' |-> StatusMap[u]]
  <2>1. StatusMap = [u \in Tasks |-> file[u].status]
      BY <1>1 DEF StatusMap, Live
  <2>2. StatusMap' = [u \in Tasks' |-> Committed(u)'.status]
      BY DEF StatusMap
  <2>3. \A u \in Tasks' : u \in Tasks /\ u \in Ids /\ u # target /\ u \in Live
      BY <1>1, <1>2 DEF Live
  <2>4. \A u \in Tasks' : Committed(u)'.status = file[u].status
      BY <1>3, <1>5, <2>3
  <2> QED
      BY <2>1, <2>2, <2>3, <2>4
<1>7. Edges' = {e \in Edges : target \notin {e[1], e[2]}}
  <2>1. /\ Edges = {e \in Ids \X Ids : e[2] \in Committed(e[1]).blocks}
        /\ Edges' = {e \in Ids \X Ids : e[2] \in Committed(e[1])'.blocks}
      BY DEF Edges
  <2>2. ASSUME NEW u \in Ids, NEW v \in Ids
        PROVE  v \in Committed(u)'.blocks <=>
                 v \in Committed(u).blocks /\ u # target /\ v # target
    <3>1. Absent.blocks = {}
        BY DEF Absent
    <3>2. CASE u = target
        BY <1>3, <3>1, <3>2
    <3>3. CASE u # target /\ u \in Live
        BY <1>1, <1>3, <1>5, <3>3
    <3>4. CASE u # target /\ u \notin Live
      <4>1. Committed(u)' = Absent /\ Committed(u) = Absent
          BY <1>1, <1>3, <3>4 DEF Live
      <4> QED
          BY <3>1, <4>1
    <3> QED
        BY <3>2, <3>3, <3>4
  <2> QED
      BY <2>1, <2>2
<1>8. Graph!Delete(target)
    BY <1>1, <1>2, <1>4, <1>6, <1>7 DEF Graph!Delete, StatusMap
<1> QED
    BY <1>1, <1>8 DEF Graph!Next

LEMMA MapInit == Init => Graph!Init
<1> SUFFICES ASSUME Init PROVE Graph!Init
    OBVIOUS
<1>1. \A u \in Ids : Committed(u) = IF u \in Legacy THEN Created ELSE Absent
    BY FilesAreCommitted DEF Init
<1>2. Created.blocks = {} /\ Absent.blocks = {} /\ Created.status = "pending"
    BY DEF Created, Absent
<1>3. Legacy \subseteq Ids
    BY StorageConstants DEF StorageConstants, Ids
<1>4. Tasks = Legacy
    BY <1>1, <1>3, SlotFields DEF Tasks
<1>5. Edges = {}
    BY <1>1, <1>2 DEF Edges
<1>6. Issued = Legacy
  <2>1. PICK n \in 0 .. MaxId : Legacy = 1 .. n
      BY StorageConstants DEF StorageConstants
  <2>2. Issued = {m \in Ids : m <= 0 \/ \E t \in Legacy : m <= t}
      BY <1>4 DEF Issued, Init
  <2> QED
      BY <2>1, <2>2, StorageConstants DEF Ids, StorageConstants
<1>7. [t \in Tasks |-> Committed(t).status] = [t \in Legacy |-> "pending"]
    BY <1>1, <1>2, <1>3, <1>4
<1> QED
    BY <1>4, <1>5, <1>6, <1>7 DEF Graph!Init

\* Every step of the directory, crashes and replays included, is a step of
\* the atomic task graph or invisible to it (ImplementsGraph).
THEOREM StorageImplementsGraph == Spec => ImplementsGraph
<1>1. Init => Graph!Init
    BY MapInit
<1>2. ListInv /\ [Next]_vars => [Graph!Next]_Graph!graph
  <2> SUFFICES ASSUME ListInv, [Next]_vars
               PROVE  [Graph!Next]_Graph!graph
      OBVIOUS
  <2>1. CASE \/ Lock \/ Replay \/ ReadOnly \/ UNCHANGED vars
             \/ \E n \in Ids : CreateReserve(n) \/ DeleteMark(n)
      BY <2>1, MapQuiet
  <2>2. CASE Fail
      BY <2>2, MapFail
  <2>3. CASE CreateWrite
      BY <2>3, MapCreate
  <2>4. CASE DeletePublish
      BY <2>4, MapDelete
  <2>5. ASSUME NEW t \in Ids, NEW s \in Statuses, NEW E \in SUBSET EdgesOf(t),
             NEW other \in SUBSET {t}, Update(t, s, E, other)
        PROVE  Graph!Next
    <3>1. /\ pc # "create" /\ pc' # "create" /\ journal = NoJournal /\ UNCHANGED hwm
        BY <2>5 DEF Update, Publish, ListInv, Safe, Progress
    <3>2. Becomes(t, s, E) /\ ValidEdges(E) /\ t \in Live
        BY <2>5, UpdateStep DEF ListInv
    <3> QED
        BY <3>1, <3>2, MapEdit
  <2>6. ASSUME NEW b \in Ids, NEW d \in Ids, AddBlock(b, d)
        PROVE  Graph!Next
    <3>1. /\ pc # "create" /\ pc' # "create" /\ journal = NoJournal /\ UNCHANGED hwm
        BY <2>6 DEF AddBlock, Publish, ListInv, Safe, Progress
    <3>2. /\ Becomes(b, file[b].status, {<<b, d>>}) /\ ValidEdges({<<b, d>>})
          /\ b \in Live
        BY <2>6, AddBlockStep DEF ListInv
    <3>3. file[b].status \in Statuses /\ {<<b, d>>} \in SUBSET EdgesOf(b)
        BY <3>2, SlotFields DEF ListInv, Safe, TypeOK, Live, Slot, Record, EdgesOf
    <3> QED
        BY <3>1, <3>2, <3>3, MapEdit
  <2> QED
      BY <2>1, <2>2, <2>3, <2>4, <2>5, <2>6 DEF Next, Operation
<1> QED
    BY <1>1, <1>2, ListAlways, PTL DEF Spec, Graph!Spec, ImplementsGraph
=============================================================================
