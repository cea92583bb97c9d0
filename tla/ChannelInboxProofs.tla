-------------------------- MODULE ChannelInboxProofs --------------------------
(***************************************************************************)
(* Machine-checked facts about ChannelInbox, for any number of messages,   *)
(* any limits and any sizes: types, limits and counters, agreement of the  *)
(* directory with the books, order of delivery, what may happen to a file. *)
(***************************************************************************)
EXTENDS ChannelInbox, FiniteSetTheorems, WellFoundedInduction, TLAPS

InFlight == {"created", "queued", "writing"}

\* Identifiers are numbers, and nobody's name is one.
LEMMA Names ==
    /\ Ids \subseteq Nat /\ NoId \notin Ids
    /\ NoOne \notin Ids /\ Consumer \notin Ids /\ Closer \notin Ids
    /\ NoOne # Consumer /\ NoOne # Closer /\ Consumer # Closer
  BY InboxConstants DEF InboxConstants, Ids, NoId, NoOne, Consumer, Closer

-----------------------------------------------------------------------------
(* Records: what the provers need of the three of them.                    *)

LEMMA IoFields ==
    /\ NoIo \in IoRecords /\ NoIo.at = "idle"
    /\ \A r \in IoRecords : /\ r.at \in {"idle", "busy", "done", "failed"}
                            /\ r.id \in Ids \cup {NoId}
                            /\ r.id # NoId => r.id \in Ids
                            /\ r.to \in EntryStates \cup {"rmdir", "manifest"}
    /\ \A r \in IoRecords, a \in {"done", "failed"} :
          /\ [r EXCEPT !.at = a] \in IoRecords
          /\ [r EXCEPT !.at = a].at = a
          /\ [r EXCEPT !.at = a].id = r.id
          /\ [r EXCEPT !.at = a].to = r.to
  BY DEF NoIo, IoRecords, EntryStates

LEMMA StartsIo ==
    ASSUME NEW p, NEW i \in Ids \cup {NoId},
           NEW to \in EntryStates \cup {"rmdir", "manifest"}, Starts(p, i, to)
    PROVE  /\ holder' = p /\ io' \in IoRecords
           /\ io'.at = "busy" /\ io'.id = i /\ io'.to = to
  BY DEF Starts, IoRecords

LEMMA ConsumerFields ==
    ASSUME NEW r \in ConsumerRecords
    PROVE  /\ r.pc \in ConsumerPcs /\ r.msg \in Ids \cup {NoId}
           /\ r.outcome \in Outcomes \cup {"none"}
           /\ r.cancel \in BOOLEAN /\ r.queued \in BOOLEAN
           /\ r.ahead \in SUBSET Ids
  BY DEF ConsumerRecords

LEMMA ConsumerGoes ==
    ASSUME consumer \in ConsumerRecords, NEW pc \in ConsumerPcs
    PROVE  /\ Goes(pc) \in ConsumerRecords
           /\ Goes(pc).pc = pc /\ Goes(pc).msg = consumer.msg
           /\ Goes(pc).outcome = consumer.outcome
  BY DEF ConsumerRecords, Goes

LEMMA CloserFields ==
    /\ \A r \in CloserRecords : /\ r.pc \in {"off", "join", "mark", "marked", "settle"}
                                /\ r.id \in Ids \cup {NoId}
    /\ \A pc \in {"off", "join", "mark", "marked", "settle"}, i \in Ids \cup {NoId} :
          LET r == [pc |-> pc, id |-> i] IN r \in CloserRecords /\ r.pc = pc /\ r.id = i
    /\ \A r \in CloserRecords, pc \in {"off", "join"} :
          /\ [r EXCEPT !.pc = pc] \in CloserRecords /\ [r EXCEPT !.pc = pc].pc = pc
  BY DEF CloserRecords

\* Where a step leaves the consumer, what it holds and with which outcome.
At(pc, m, o) ==
    /\ consumer' \in ConsumerRecords
    /\ consumer'.pc = pc /\ consumer'.msg = m /\ consumer'.outcome = o

LEMMA ConsumerMoves ==
    ASSUME consumer \in ConsumerRecords
    PROVE
        /\ ConsumerWaits => At(consumer.pc, consumer.msg, consumer.outcome)
        /\ ConsumerStarts => At("get", consumer.msg, consumer.outcome)
        /\ GetStops => At("ended", consumer.msg, consumer.outcome)
        /\ GetWaits => At("idle", consumer.msg, consumer.outcome)
        /\ GetWakes => At("get", consumer.msg, consumer.outcome)
        /\ NextMessage \in Ids /\ GetClaims =>
            At("claim", NextMessage, consumer.outcome)
        /\ Claimed =>
            At("ended", consumer.msg, consumer.outcome) \/ At("turn", consumer.msg, consumer.outcome)
        /\ ClaimFails => At("ended", NoId, consumer.outcome)
        /\ \A o \in Outcomes : TurnEnds(o) \/ TurnAbsorbs(o) =>
            At("finish", consumer.msg, o)
        /\ TurnInterrupted => At("finish", consumer.msg, "interrupted")
        /\ FinishBegins => At("finishing", consumer.msg, consumer.outcome)
        /\ Finished => At("ended", NoId, "none") \/ At("get", NoId, "none")
        /\ FinishFails => At("ended", consumer.msg, consumer.outcome)
        /\ Shutdown => \/ At(consumer.pc, consumer.msg, consumer.outcome)
                       \/ /\ consumer.pc \in {"get", "finish", "idle"}
                          /\ At("ended", consumer.msg, consumer.outcome)
<1>1. ConsumerWaits => At(consumer.pc, consumer.msg, consumer.outcome)
    BY DEF At, ConsumerRecords, ConsumerPcs, Goes, ConsumerWaits, Queued
<1>2. ConsumerStarts => At("get", consumer.msg, consumer.outcome)
    BY DEF At, ConsumerRecords, ConsumerPcs, Goes, ConsumerStarts
<1>3. GetStops => At("ended", consumer.msg, consumer.outcome)
    BY DEF At, ConsumerRecords, ConsumerPcs, Goes, GetStops
<1>4. GetWaits => At("idle", consumer.msg, consumer.outcome)
    BY DEF At, ConsumerRecords, ConsumerPcs, Goes, GetWaits
<1>5. GetWakes => At("get", consumer.msg, consumer.outcome)
    BY DEF At, ConsumerRecords, ConsumerPcs, Goes, GetWakes
<1>6. NextMessage \in Ids /\ GetClaims =>
        At("claim", NextMessage, consumer.outcome)
    BY DEF At, ConsumerRecords, ConsumerPcs, Goes, GetClaims
<1>7. Claimed =>
        At("ended", consumer.msg, consumer.outcome) \/ At("turn", consumer.msg, consumer.outcome)
    BY DEF At, ConsumerRecords, ConsumerPcs, Goes, Claimed
<1>8. ClaimFails => At("ended", NoId, consumer.outcome)
    BY DEF At, ConsumerRecords, ConsumerPcs, Goes, ClaimFails
<1>9. \A o \in Outcomes : TurnEnds(o) \/ TurnAbsorbs(o) =>
        At("finish", consumer.msg, o)
  <2> TAKE o \in Outcomes
  <2>1. CASE TurnEnds(o)
      BY <2>1 DEF At, ConsumerRecords, ConsumerPcs, Goes, TurnEnds
  <2>2. CASE TurnAbsorbs(o)
      BY <2>2 DEF At, ConsumerRecords, ConsumerPcs, Goes, TurnAbsorbs
  <2> QED
      BY <2>1, <2>2
<1>10. TurnInterrupted => At("finish", consumer.msg, "interrupted")
    BY DEF At, ConsumerRecords, ConsumerPcs, Goes, TurnInterrupted, Outcomes
<1>11. FinishBegins => At("finishing", consumer.msg, consumer.outcome)
    BY DEF At, ConsumerRecords, ConsumerPcs, Goes, FinishBegins
<1>12. Finished => At("ended", NoId, "none") \/ At("get", NoId, "none")
    BY DEF At, ConsumerRecords, ConsumerPcs, Goes, Finished
<1>13. FinishFails => At("ended", consumer.msg, consumer.outcome)
    BY DEF At, ConsumerRecords, ConsumerPcs, Goes, FinishFails
<1>14. Shutdown => \/ At(consumer.pc, consumer.msg, consumer.outcome)
                   \/ /\ consumer.pc \in {"get", "finish", "idle"}
                      /\ At("ended", consumer.msg, consumer.outcome)
  <2> SUFFICES ASSUME Shutdown
               PROVE  \/ At(consumer.pc, consumer.msg, consumer.outcome)
                      \/ /\ consumer.pc \in {"get", "finish", "idle"}
                         /\ At("ended", consumer.msg, consumer.outcome)
      OBVIOUS
  <2>1. CASE consumer.pc = "off"
      BY <2>1, ConsumerFields DEF At, Shutdown, CancelledConsumer
  <2>2. CASE consumer.pc \in {"get", "finish", "idle"}
      BY <2>2, ConsumerGoes DEF At, Shutdown, CancelledConsumer, ConsumerPcs
  <2>3. CASE consumer.pc \notin {"off", "get", "finish", "idle"}
    <3>1. consumer' = [consumer EXCEPT !.cancel = (consumer.pc # "ended")]
        BY <2>3 DEF Shutdown, CancelledConsumer
    <3> QED
        BY <3>1 DEF At, ConsumerRecords
  <2> QED
      BY <2>1, <2>2, <2>3
<1> QED
    BY <1>1, <1>2, <1>3, <1>4, <1>5, <1>6, <1>7, <1>8, <1>9, <1>10, <1>11, <1>12, <1>13, <1>14

-----------------------------------------------------------------------------
(* The inductive invariant.                                                *)

\* Messages are admitted in the order of their identifiers, and only a stored
\* one has an entry.
Arrivals ==
    /\ \A i \in Ids : adm[i] = "none" <=> nextId <= i
    /\ \A i \in Ids : adm[i] # "stored" => entries[i] = "none"
    /\ reserved = {i \in Ids : adm[i] \in InFlight}

\* An admission is never ahead of an earlier one that is still in flight.
AdmissionOrder ==
    \A i, j \in Ids : j < i =>
        /\ adm[j] = "created" => adm[i] \in {"none", "created"}
        /\ adm[j] \in {"queued", "writing"} => adm[i] \in {"none", "created", "queued"}

\* Whoever is inside an operation holds the lock, and nobody else.
LockOwner ==
    /\ \A i \in Ids : holder = i <=> adm[i] = "writing"
    /\ holder = Consumer <=> consumer.pc \in {"claim", "finishing"}
    /\ holder = Closer <=> closer.pc \in {"mark", "marked", "settle"}

\* The disk operation is the one its holder asked for.
Operation ==
    /\ io.at = "idle" <=> (holder = NoOne \/ closer.pc = "marked")
    /\ (io.at # "idle" /\ holder \in Ids) => io.id = holder /\ io.to = "pending"
    /\ (io.at # "idle" /\ consumer.pc = "claim") => io.id = consumer.msg /\ io.to = "running"
    /\ (io.at # "idle" /\ consumer.pc = "finishing") =>
          io.id = consumer.msg /\ io.to = FileAfter(consumer.outcome)
    /\ (io.at # "idle" /\ closer.pc = "mark") => io.id = closer.id /\ io.to = "interrupted"
    /\ (io.at # "idle" /\ closer.pc = "settle") => io.id = NoId

\* The consumer holds nothing, the oldest message, or the running one.
Holding ==
    /\ consumer.pc \in {"off", "get", "idle"} => consumer.msg = NoId
    /\ consumer.pc = "claim" => pending # <<>> /\ consumer.msg = Head(pending)
    /\ consumer.pc \in {"turn", "finish", "finishing"} =>
          consumer.msg \in Ids /\ entries[consumer.msg] = "running"
    /\ consumer.pc \in {"finish", "finishing"} => consumer.outcome \in Outcomes

\* Closing starts when the consumer has ended, and marks what it left running.
Closing ==
    /\ owner \in {"closing", "closed"} => consumer.pc \in {"off", "ended"}
    /\ closer.pc # "off" => owner = "closing"
    /\ closer.pc = "mark" => closer.id \in Ids /\ entries[closer.id] = "running"

Core ==
    /\ Typed
    /\ Arrivals /\ AdmissionOrder
    /\ LockOwner /\ Operation
    /\ Holding /\ Closing
    /\ DiskMatchesEntries /\ PendingExact /\ RunningIsHeld

-----------------------------------------------------------------------------
(* Which steps touch what.                                                 *)

LEMMA BooksFrame ==
    Next => \/ \E s \in Sizes : Arrive(s)
            \/ \E i \in Ids : AdmissionStep(i)
            \/ Claimed \/ Finished \/ CloseMarked
            \/ UNCHANGED <<books, adm>>
  BY DEF Next, OpenStep, OpenSucceeds, OpenFails, Reject, ConsumerStarts, ConsumerStep,
     ConsumerWaits, GetStops, GetWaits, GetWakes, GetClaims, ClaimFails, TurnEnds, TurnAbsorbs,
     TurnInterrupted, FinishBegins, FinishFails, Shutdown, CloserStep, CloseBegins, CloseJoins,
     CloseUnopened, CloseGoesOn, CloseEnds, CloseFails, DiskStep, DiskDone, DiskFails,
     Over, vars, books

LEMMA AdmissionFrame ==
    ASSUME NEW i \in Ids, AdmissionStep(i)
    PROVE  UNCHANGED <<owner, files, dir, size, nextId, consumer, closer>>
  BY DEF AdmissionStep, AdmissionWaits, AdmissionWrites, AdmissionRefused, Stored, StoreFailed,
     books

\* Outside the consumer's, the closer's and the owner's steps nothing of
\* theirs changes.
LEMMA ControlFrame ==
    Next => \/ ConsumerStarts \/ ConsumerStep \/ Shutdown \/ CloserStep
            \/ OpenStep /\ UNCHANGED <<consumer, closer, holder, io, files, books, adm>>
            \/ UNCHANGED <<consumer, closer, owner>>
  BY AdmissionFrame DEF Next, OpenStep, OpenSucceeds, OpenFails, Arrive, Reject, DiskStep,
     DiskDone, DiskFails, Over, vars

-----------------------------------------------------------------------------
(* The four steps that change an entry.                                    *)

LEMMA OldestPending ==
    ASSUME Typed, PendingExact, pending # <<>>
    PROVE  /\ Head(pending) \in Ids /\ entries[Head(pending)] = "pending"
           /\ Len(pending) \in Nat /\ 1 \in DOMAIN pending /\ Head(pending) = pending[1]
           /\ Tail(pending) \in Seq(Ids)
           /\ DOMAIN Tail(pending) = 1 .. Len(pending) - 1
           /\ \A k \in DOMAIN Tail(pending) :
                 k + 1 \in DOMAIN pending /\ Tail(pending)[k] = pending[k + 1]
<1>1. pending \in Seq(Ids)
    BY DEF Typed
<1>2. /\ Head(pending) \in Ids /\ Len(pending) \in Nat /\ 1 \in DOMAIN pending
      /\ Head(pending) = pending[1]
      /\ Tail(pending) \in Seq(Ids) /\ DOMAIN Tail(pending) = 1 .. Len(pending) - 1
      /\ \A k \in DOMAIN Tail(pending) :
            k + 1 \in DOMAIN pending /\ Tail(pending)[k] = pending[k + 1]
    BY <1>1
<1> QED
    BY <1>2 DEF PendingExact

LEMMA StoredFacts ==
    ASSUME Core, NEW i \in Ids, Stored(i)
    PROVE  /\ adm[i] = "writing" /\ adm' = [adm EXCEPT ![i] = "stored"]
           /\ entries[i] = "none" /\ entries' = [entries EXCEPT ![i] = "pending"]
           /\ reserved' = reserved \ {i} /\ i \in reserved
           /\ pending' = Append(pending, i)
           /\ io.at = "done" /\ io.id = i /\ io.to = "pending"
           /\ UNCHANGED <<files, nextId>>
<1>1. holder = i /\ io.at = "done"
    BY DEF Stored, Did
<1>2. adm[i] = "writing"
    BY <1>1 DEF Core, LockOwner
<1>3. io.id = i /\ io.to = "pending"
    BY <1>1 DEF Core, Operation
<1>4. entries[i] = "none" /\ i \in reserved
    BY <1>2 DEF Core, Arrivals, InFlight
<1> QED
    BY <1>1, <1>2, <1>3, <1>4 DEF Stored, Released

LEMMA ClaimedFacts ==
    ASSUME Core, Claimed
    PROVE  /\ consumer.msg \in Ids /\ pending # <<>> /\ consumer.msg = Head(pending)
           /\ entries[consumer.msg] = "pending"
           /\ entries' = [entries EXCEPT ![consumer.msg] = "running"]
           /\ pending' = Tail(pending)
           /\ io.at = "done" /\ io.id = consumer.msg /\ io.to = "running"
           /\ UNCHANGED <<files, nextId, adm, reserved, size, bytes, reservedBytes>>
<1>1. pending # <<>> /\ consumer.msg = Head(pending)
    BY DEF Core, Holding, Claimed
<1>2. consumer.msg \in Ids /\ entries[consumer.msg] = "pending"
    BY <1>1, OldestPending DEF Core
<1>3. io.at = "done" /\ io.id = consumer.msg /\ io.to = "running"
    BY DEF Claimed, Did, Core, Operation
<1> QED
    BY <1>1, <1>2, <1>3 DEF Claimed

LEMMA FinishedFacts ==
    ASSUME Core, Finished
    PROVE  /\ consumer.msg \in Ids /\ entries[consumer.msg] = "running"
           /\ consumer.outcome \in Outcomes
           /\ FileAfter(consumer.outcome) \in EntryStates \ {"pending", "running"}
           /\ entries' = [entries EXCEPT ![consumer.msg] = FileAfter(consumer.outcome)]
           /\ io.at = "done" /\ io.id = consumer.msg /\ io.to = FileAfter(consumer.outcome)
           /\ UNCHANGED <<files, nextId, adm, reserved, pending, size, reservedBytes>>
<1>1. /\ consumer.msg \in Ids /\ entries[consumer.msg] = "running"
      /\ consumer.outcome \in Outcomes
    BY DEF Finished, Core, Holding
<1>2. FileAfter(consumer.outcome) \in EntryStates \ {"pending", "running"}
    BY <1>1 DEF FileAfter, Outcomes, EntryStates, Retained
<1>3. io.at = "done" /\ io.id = consumer.msg /\ io.to = FileAfter(consumer.outcome)
    BY DEF Finished, Did, Core, Operation
<1> QED
    BY <1>1, <1>2, <1>3 DEF Finished

LEMMA MarkedFacts ==
    ASSUME Core, CloseMarked
    PROVE  /\ closer.id \in Ids /\ entries[closer.id] = "running"
           /\ entries' = [entries EXCEPT ![closer.id] = "interrupted"]
           /\ io.at = "done" /\ io.id = closer.id /\ io.to = "interrupted"
           /\ consumer.pc \in {"off", "ended"}
           /\ UNCHANGED <<files, nextId, adm, reserved, pending, size, bytes, reservedBytes>>
<1>1. closer.id \in Ids /\ entries[closer.id] = "running" /\ consumer.pc \in {"off", "ended"}
    BY DEF CloseMarked, Core, Closing
<1>2. io.at = "done" /\ io.id = closer.id /\ io.to = "interrupted"
    BY DEF CloseMarked, Did, Core, Operation
<1> QED
    BY <1>1, <1>2 DEF CloseMarked

-----------------------------------------------------------------------------
(* Admissions keep their order.                                            *)

\* The admission that enters the lock is the oldest one in flight.
LEMMA EntersInOrder ==
    ASSUME Core, NEW i \in Ids, AdmissionMayEnter(i)
    PROVE  /\ adm[i] \in {"created", "queued"} /\ holder = NoOne
           /\ \A j \in Ids : j < i => adm[j] \notin InFlight
           /\ \A j \in Ids : i < j => adm[j] \in {"none", "created", "queued"}
<1>1. /\ \A j \in Ids : adm[j] # "writing"
      /\ holder = NoOne
    BY Names DEF AdmissionMayEnter, Free, Core, LockOwner
<1>2. CASE StartsNext(i) /\ Free
    BY <1>1, <1>2, Names DEF StartsNext, Free, Queued, Core, AdmissionOrder, InFlight
<1>3. CASE adm[i] = "queued" /\ \A j \in Queued : i <= j
    BY <1>1, <1>3, Names DEF Queued, Core, AdmissionOrder, InFlight
<1> QED
    BY <1>1, <1>2, <1>3 DEF AdmissionMayEnter

LEMMA AdmissionKinds ==
    ASSUME Core, NEW i \in Ids, AdmissionStep(i)
    PROVE  \/ /\ adm[i] = "created" /\ \A j \in Ids : j < i => adm[j] # "created"
              /\ adm' = [adm EXCEPT ![i] = "queued"]
              /\ UNCHANGED <<entries, reserved, pending, holder, io>>
           \/ /\ AdmissionMayEnter(i) /\ adm' = [adm EXCEPT ![i] = "writing"]
              /\ Starts(i, i, "pending")
              /\ UNCHANGED <<entries, reserved, pending>>
           \/ /\ adm[i] \in InFlight /\ adm' = [adm EXCEPT ![i] = "refused"]
              /\ reserved' = reserved \ {i}
              /\ UNCHANGED <<entries, pending>>
              /\ \/ AdmissionMayEnter(i) /\ UNCHANGED <<holder, io>>
                 \/ adm[i] = "writing" /\ io.at = "failed" /\ holder = i /\ Releases
           \/ Stored(i)
<1>1. CASE AdmissionWaits(i)
    BY <1>1 DEF AdmissionWaits, StartsNext, books
<1>2. CASE AdmissionWrites(i)
    BY <1>2 DEF AdmissionWrites, books
<1>3. CASE AdmissionRefused(i)
    BY <1>3, EntersInOrder DEF AdmissionRefused, Released, InFlight
<1>4. CASE StoreFailed(i)
    BY <1>4 DEF StoreFailed, Failed, Released, InFlight, Core, LockOwner
<1> QED
    BY <1>1, <1>2, <1>3, <1>4 DEF AdmissionStep

LEMMA ArrivalsStep == Core /\ Next => Arrivals'
<1> SUFFICES ASSUME Core, Next PROVE Arrivals'
    OBVIOUS
<1>a. /\ Arrivals /\ nextId \in Nat /\ reserved \subseteq Ids
      /\ adm \in [Ids -> {"none", "created", "queued", "writing", "stored", "refused"}]
      /\ entries \in [Ids -> EntryStates]
    BY Names, InboxConstants DEF Core, Typed, InboxConstants
<1>1. ASSUME NEW s \in Sizes, Arrive(s) PROVE Arrivals'
    BY <1>a, <1>1, Names DEF Arrive, Arrivals, InFlight
<1>2. ASSUME NEW i \in Ids, AdmissionStep(i) PROVE Arrivals'
  <2>1. nextId' = nextId
      BY <1>2, AdmissionFrame
  <2>2. CASE Stored(i)
      BY <1>a, <2>1, <2>2, StoredFacts DEF Arrivals, InFlight
  <2>3. ASSUME NEW a \in {"queued", "writing", "refused"}, adm[i] \in InFlight,
               adm' = [adm EXCEPT ![i] = a], entries' = entries,
               reserved' = IF a = "refused" THEN reserved \ {i} ELSE reserved
        PROVE  Arrivals'
      BY <1>a, <2>1, <2>3 DEF Arrivals, InFlight
  <2> QED
      BY <1>2, <2>2, <2>3, AdmissionKinds, EntersInOrder DEF InFlight
<1>3. CASE Claimed
    BY <1>a, <1>3, ClaimedFacts DEF Arrivals
<1>4. CASE Finished
    BY <1>a, <1>4, FinishedFacts DEF Arrivals
<1>5. CASE CloseMarked
    BY <1>a, <1>5, MarkedFacts DEF Arrivals
<1>6. CASE UNCHANGED <<books, adm>>
    BY <1>a, <1>6 DEF Arrivals, books
<1> QED
    BY <1>1, <1>2, <1>3, <1>4, <1>5, <1>6, BooksFrame

LEMMA AdmissionOrderStep == Core /\ Next => AdmissionOrder'
<1> SUFFICES ASSUME Core, Next PROVE AdmissionOrder'
    OBVIOUS
<1>a. /\ AdmissionOrder /\ Arrivals /\ nextId \in Nat
      /\ adm \in [Ids -> {"none", "created", "queued", "writing", "stored", "refused"}]
    BY Names, InboxConstants DEF Core, Typed, InboxConstants
<1>1. ASSUME NEW s \in Sizes, Arrive(s) PROVE AdmissionOrder'
  <2>1. nextId \in Ids /\ adm' = [adm EXCEPT ![nextId] = "created"]
      BY <1>1 DEF Arrive
  <2> QED
      BY <1>a, <2>1, Names DEF AdmissionOrder, Arrivals
<1>2. ASSUME NEW i \in Ids, AdmissionStep(i) PROVE AdmissionOrder'
  <2>1. ASSUME adm[i] = "created", \A j \in Ids : j < i => adm[j] # "created",
               adm' = [adm EXCEPT ![i] = "queued"]
        PROVE  AdmissionOrder'
      BY <1>a, <2>1, Names DEF AdmissionOrder
  <2>2. ASSUME AdmissionMayEnter(i), NEW a \in {"writing", "refused"},
               adm' = [adm EXCEPT ![i] = a]
        PROVE  AdmissionOrder'
      BY <1>a, <2>2, EntersInOrder, Names DEF AdmissionOrder, InFlight
  <2>3. ASSUME adm[i] = "writing", NEW a \in {"stored", "refused"},
               adm' = [adm EXCEPT ![i] = a], \A j \in Ids : j # i => adm[j] # "writing"
        PROVE  AdmissionOrder'
      BY <1>a, <2>3, Names DEF AdmissionOrder, InFlight
  <2>4. adm[i] = "writing" => \A j \in Ids : j # i => adm[j] # "writing"
      BY DEF Core, LockOwner
  <2> QED
      BY <1>2, <2>1, <2>2, <2>3, <2>4, AdmissionKinds, StoredFacts
<1>3. CASE UNCHANGED adm
    BY <1>a, <1>3 DEF AdmissionOrder
<1> QED
    BY <1>1, <1>2, <1>3, BooksFrame, ClaimedFacts, FinishedFacts, MarkedFacts DEF books

-----------------------------------------------------------------------------
(* The lock, the operation, and what the consumer and the closer hold.     *)

Control == LockOwner /\ Operation /\ Holding /\ Closing

\* What the steps below may assume.
LEMMA ControlNow ==
    ASSUME Core
    PROVE  /\ LockOwner /\ Operation /\ Holding /\ Closing
           /\ consumer \in ConsumerRecords /\ consumer.pc \in ConsumerPcs
           /\ io \in IoRecords /\ closer \in CloserRecords
           /\ entries \in [Ids -> EntryStates]
           /\ adm \in [Ids -> {"none", "created", "queued", "writing", "stored", "refused"}]
           /\ holder \in Ids \cup {NoOne, Consumer, Closer}
  BY ConsumerFields DEF Core, Typed

LEMMA ControlAdmission ==
    ASSUME Core, NEW i \in Ids, AdmissionStep(i)
    PROVE  Control'
<1>a. UNCHANGED <<owner, consumer, closer>>
    BY AdmissionFrame
<1>1. CASE /\ adm[i] = "created" /\ adm' = [adm EXCEPT ![i] = "queued"]
           /\ UNCHANGED <<entries, reserved, pending, holder, io>>
    BY <1>a, <1>1, ControlNow DEF Control, LockOwner, Operation, Holding, Closing
<1>2. CASE /\ AdmissionMayEnter(i) /\ adm' = [adm EXCEPT ![i] = "writing"]
           /\ Starts(i, i, "pending") /\ UNCHANGED <<entries, reserved, pending>>
  <2>1. holder = NoOne
      BY <1>2, EntersInOrder
  <2>2. holder' = i /\ io'.at = "busy" /\ io'.id = i /\ io'.to = "pending"
      BY <1>2, StartsIo DEF EntryStates, Retained
  <2>3. LockOwner'
      BY <1>a, <1>2, <2>1, <2>2, ControlNow, Names DEF LockOwner
  <2>4. Operation'
      BY <1>a, <2>1, <2>2, ControlNow, Names DEF LockOwner, Operation
  <2>5. Holding' /\ Closing'
      BY <1>a, <1>2, ControlNow DEF Holding, Closing
  <2> QED
      BY <2>3, <2>4, <2>5 DEF Control
<1>3. CASE /\ AdmissionMayEnter(i) /\ adm' = [adm EXCEPT ![i] = "refused"]
           /\ UNCHANGED <<entries, pending, holder, io>>
  <2>1. holder = NoOne
      BY <1>3, EntersInOrder
  <2> QED
      BY <1>a, <1>3, <2>1, ControlNow, Names
      DEF Control, LockOwner, Operation, Holding, Closing
<1>4. CASE /\ holder = i /\ Releases /\ entries' = entries /\ pending' = pending
           /\ adm' = [adm EXCEPT ![i] = "refused"]
  <2>1. holder' = NoOne /\ io'.at = "idle"
      BY <1>4, IoFields DEF Releases
  <2>2. LockOwner'
      BY <1>a, <1>4, <2>1, ControlNow, Names DEF LockOwner
  <2>3. Operation'
      BY <1>a, <1>4, <2>1, ControlNow, Names DEF LockOwner, Operation
  <2>4. Holding' /\ Closing'
      BY <1>a, <1>4, ControlNow DEF Holding, Closing
  <2> QED
      BY <2>2, <2>3, <2>4 DEF Control
<1>5. CASE Stored(i)
  <2>1. holder = i /\ holder' = NoOne /\ io'.at = "idle"
      BY <1>5, IoFields DEF Stored, Did, Releases
  <2>2. adm' = [adm EXCEPT ![i] = "stored"] /\ entries' = [entries EXCEPT ![i] = "pending"]
        /\ entries[i] = "none"
      BY <1>5, StoredFacts
  <2>3. LockOwner'
      BY <1>a, <2>1, <2>2, ControlNow, Names DEF LockOwner
  <2>4. Operation'
      BY <1>a, <2>1, ControlNow, Names DEF LockOwner, Operation
  <2>5. consumer.pc \notin {"claim", "finishing"}
      BY <2>1, ControlNow, Names DEF LockOwner
  <2>6. Holding' /\ Closing'
      BY <1>a, <2>2, <2>5, ControlNow DEF Holding, Closing
  <2> QED
      BY <2>3, <2>4, <2>6 DEF Control
<1> QED
    BY <1>1, <1>2, <1>3, <1>4, <1>5, AdmissionKinds

\* A step of the consumer that leaves the lock, the disk and the books alone.
LEMMA ControlQuiet ==
    ASSUME Core, UNCHANGED <<owner, books, adm, holder, io, closer>>,
           NEW pc \in {"get", "idle", "turn", "finish", "ended"}, NEW o,
           At(pc, consumer.msg, o),
           consumer.pc \notin {"claim", "finishing"},
           pc \in {"get", "idle"} => consumer.pc \in {"off", "get", "idle"},
           pc \in {"turn", "finish"} => consumer.pc \in {"turn", "finish"},
           pc = "finish" => o \in Outcomes,
           consumer.pc \in {"off", "ended"} => owner = "serving"
    PROVE  Control'
<1>1. LockOwner'
    BY ControlNow DEF LockOwner, At
<1>2. Operation'
    BY ControlNow DEF Operation, At
<1>3. Holding'
    BY ControlNow DEF Holding, At, books
<1>4. Closing'
    BY ControlNow DEF Closing, At, books
<1> QED
    BY <1>1, <1>2, <1>3, <1>4 DEF Control

\* The consumer enters the lock.
LEMMA ControlEnters ==
    ASSUME Core, UNCHANGED <<owner, books, adm, closer>>, holder = NoOne,
           holder' = Consumer, io'.at = "busy", io'.id = consumer'.msg,
           consumer.pc \in {"get", "finish"}
    PROVE  /\ (At("claim", Head(pending), consumer.outcome)
               /\ pending # <<>> /\ io'.to = "running") => Control'
           /\ (At("finishing", consumer.msg, consumer.outcome)
               /\ consumer.pc = "finish" /\ io'.to = FileAfter(consumer.outcome)) => Control'
<1> DEFINE C == At("claim", Head(pending), consumer.outcome)
                /\ pending # <<>> /\ io'.to = "running"
           F == At("finishing", consumer.msg, consumer.outcome)
                /\ consumer.pc = "finish" /\ io'.to = FileAfter(consumer.outcome)
<1>1. SUFFICES ASSUME C \/ F PROVE Control'
    OBVIOUS
<1>2. closer.pc \notin {"mark", "marked", "settle"} /\ \A i \in Ids : adm[i] # "writing"
    BY ControlNow, Names DEF LockOwner
<1>3. LockOwner'
    BY <1>1, <1>2, ControlNow, Names DEF LockOwner, At
<1>4. Operation'
    BY <1>1, <1>2, ControlNow, Names DEF Operation, At
<1>5. Holding'
    BY <1>1, ControlNow DEF Holding, At, books
<1>6. Closing'
    BY <1>2, ControlNow DEF Closing, At, books
<1> QED
    BY <1>3, <1>4, <1>5, <1>6 DEF Control

\* The consumer leaves the lock; nothing but its own message is touched.
LEMMA ControlLeaves ==
    ASSUME Core, UNCHANGED <<owner, adm, closer>>, holder = Consumer,
           holder' = NoOne, io'.at = "idle",
           NEW pc \in {"get", "turn", "ended"}, NEW m \in {NoId, consumer.msg}, NEW o,
           At(pc, m, o),
           pc = "get" => m = NoId,
           pc = "turn" => m \in Ids /\ entries'[m] = "running"
    PROVE  Control'
<1>1. consumer.pc \in {"claim", "finishing"} /\ closer.pc \notin {"mark", "marked", "settle"}
      /\ \A i \in Ids : adm[i] # "writing"
    BY ControlNow, Names DEF LockOwner
<1>2. LockOwner'
    BY <1>1, ControlNow, Names DEF LockOwner, At
<1>3. Operation'
    BY <1>1, ControlNow, Names DEF Operation, At
<1>4. Holding'
    BY ControlNow DEF Holding, At
<1>5. Closing'
    BY <1>1, ControlNow DEF Closing, At
<1> QED
    BY <1>2, <1>3, <1>4, <1>5 DEF Control

LEMMA ControlConsumer == Core /\ (ConsumerStarts \/ ConsumerStep) => Control'
<1> SUFFICES ASSUME Core PROVE (ConsumerStarts \/ ConsumerStep) => Control'
    OBVIOUS
<1>a. consumer \in ConsumerRecords
    BY ControlNow
<1>1. ASSUME ConsumerStarts PROVE Control'
    BY <1>a, <1>1, ConsumerMoves, ControlQuiet DEF ConsumerStarts
<1>2. ASSUME ConsumerWaits PROVE Control'
  <2>1. At(consumer.pc, consumer.msg, consumer.outcome) /\ consumer.pc \in {"get", "finish"}
      BY <1>a, <1>2, ConsumerMoves DEF ConsumerWaits
  <2> QED
      BY <1>2, <2>1, ControlNow, ControlQuiet DEF ConsumerWaits, Holding, Closing
<1>3. ASSUME GetStops PROVE Control'
    BY <1>a, <1>3, ConsumerMoves, ControlNow, ControlQuiet DEF GetStops, Closing
<1>4. ASSUME GetWaits PROVE Control'
    BY <1>a, <1>4, ConsumerMoves, ControlQuiet DEF GetWaits
<1>5. ASSUME GetWakes PROVE Control'
    BY <1>a, <1>5, ConsumerMoves, ControlQuiet DEF GetWakes
<1>6. ASSUME GetClaims PROVE Control'
  <2>1. /\ pending # <<>> /\ consumer.pc = "get" /\ holder = NoOne
        /\ NextMessage = Head(pending) /\ Head(pending) \in Ids
      BY <1>6, OldestPending DEF GetClaims, ConsumerMayEnter, Free, NextMessage, Core
  <2>2. At("claim", Head(pending), consumer.outcome)
      BY <1>a, <1>6, <2>1, ConsumerMoves
  <2>3. /\ holder' = Consumer /\ io'.at = "busy" /\ io'.id = Head(pending)
        /\ io'.to = "running"
      BY <1>6, <2>1, StartsIo DEF GetClaims, EntryStates, Retained
  <2> QED
      BY <1>6, <2>1, <2>2, <2>3, ControlEnters DEF GetClaims, At
<1>7. ASSUME Claimed PROVE Control'
  <2>1. /\ consumer.msg \in Ids /\ entries'[consumer.msg] = "running"
        /\ holder = Consumer /\ holder' = NoOne /\ io'.at = "idle"
      BY <1>7, ClaimedFacts, ControlNow, IoFields DEF Claimed, Did, Releases
  <2>2. \E pc \in {"ended", "turn"} : At(pc, consumer.msg, consumer.outcome)
      BY <1>a, <1>7, ConsumerMoves
  <2> QED
      BY <1>7, <2>1, <2>2, ControlLeaves DEF Claimed
<1>8. ASSUME ClaimFails PROVE Control'
  <2>1. holder = Consumer /\ holder' = NoOne /\ io'.at = "idle"
      BY <1>8, IoFields DEF ClaimFails, Failed, Releases
  <2>2. At("ended", NoId, consumer.outcome)
      BY <1>a, <1>8, ConsumerMoves
  <2> QED
      BY <1>8, <2>1, <2>2, ControlLeaves DEF ClaimFails
<1>9. ASSUME NEW o \in Outcomes, TurnEnds(o) \/ TurnAbsorbs(o) PROVE Control'
  <2>1. At("finish", consumer.msg, o)
      BY <1>a, <1>9, ConsumerMoves
  <2> QED
      BY <1>9, <2>1, ControlNow, ControlQuiet DEF TurnEnds, TurnAbsorbs
<1>10. ASSUME TurnInterrupted PROVE Control'
  <2>1. At("finish", consumer.msg, "interrupted")
      BY <1>a, <1>10, ConsumerMoves
  <2> QED
      BY <1>10, <2>1, ControlQuiet DEF TurnInterrupted, Outcomes
<1>11. ASSUME FinishBegins PROVE Control'
  <2>1. /\ consumer.pc = "finish" /\ holder = NoOne
        /\ consumer.msg \in Ids /\ FileAfter(consumer.outcome) \in EntryStates
      BY <1>11, ControlNow
      DEF FinishBegins, ConsumerMayEnter, Free, Holding, FileAfter, Outcomes, EntryStates, Retained
  <2>2. At("finishing", consumer.msg, consumer.outcome)
      BY <1>a, <1>11, ConsumerMoves
  <2>3. /\ holder' = Consumer /\ io'.at = "busy" /\ io'.id = consumer.msg
        /\ io'.to = FileAfter(consumer.outcome)
      BY <1>11, <2>1, StartsIo DEF FinishBegins
  <2> QED
      BY <1>11, <2>1, <2>2, <2>3, ControlEnters DEF FinishBegins, At
<1>12. ASSUME Finished PROVE Control'
  <2>1. holder = Consumer /\ holder' = NoOne /\ io'.at = "idle"
      BY <1>12, IoFields DEF Finished, Did, Releases
  <2>2. \E pc \in {"ended", "get"} : At(pc, NoId, "none")
      BY <1>a, <1>12, ConsumerMoves
  <2> QED
      BY <1>12, <2>1, <2>2, ControlLeaves DEF Finished
<1>13. ASSUME FinishFails PROVE Control'
  <2>1. holder = Consumer /\ holder' = NoOne /\ io'.at = "idle"
      BY <1>13, IoFields DEF FinishFails, Failed, Releases
  <2>2. At("ended", consumer.msg, consumer.outcome)
      BY <1>a, <1>13, ConsumerMoves
  <2> QED
      BY <1>13, <2>1, <2>2, ControlLeaves DEF FinishFails
<1> QED
    BY <1>1, <1>2, <1>3, <1>4, <1>5, <1>6, <1>7, <1>8, <1>9, <1>10, <1>11, <1>12, <1>13
    DEF ConsumerStep

LEMMA ControlShutdown == Core /\ Shutdown => Control'
<1> SUFFICES ASSUME Core, Shutdown PROVE Control'
    OBVIOUS
<1>1. /\ UNCHANGED <<books, adm, holder, io, closer>>
      /\ owner = "serving" /\ owner' = "stopping"
    BY DEF Shutdown
<1>2. \/ At(consumer.pc, consumer.msg, consumer.outcome)
      \/ consumer.pc \in {"get", "finish", "idle"} /\ At("ended", consumer.msg, consumer.outcome)
    BY ControlNow, ConsumerMoves
<1>3. LockOwner'
    BY <1>1, <1>2, ControlNow DEF LockOwner, At
<1>4. Operation'
    BY <1>1, <1>2, ControlNow DEF Operation, At
<1>5. Holding'
    BY <1>1, <1>2, ControlNow DEF Holding, At, books
<1>6. Closing'
    BY <1>1, <1>2, ControlNow DEF Closing, At, books
<1> QED
    BY <1>3, <1>4, <1>5, <1>6 DEF Control

\* The closer takes the lock, or goes on with it.
LEMMA ControlSettles ==
    ASSUME Core, Settles, UNCHANGED <<owner, books, adm, consumer>>,
           holder \in {NoOne, Closer}, closer.pc # "off"
    PROVE  Control' /\ closer' \in CloserRecords /\ io' \in IoRecords
<1>1. /\ owner = "closing" /\ consumer.pc \notin {"claim", "finishing"}
      /\ \A i \in Ids : adm[i] # "writing"
    BY ControlNow, Names DEF Closing, LockOwner
<1>2. CASE \E i \in Running : /\ closer' = [pc |-> "mark", id |-> i]
                             /\ Starts(Closer, i, "interrupted")
  <2>1. PICK i \in Running : /\ closer' = [pc |-> "mark", id |-> i]
                             /\ Starts(Closer, i, "interrupted")
      BY <1>2
  <2>2. i \in Ids /\ entries[i] = "running"
      BY DEF Running
  <2>3. /\ holder' = Closer /\ io' \in IoRecords /\ closer' \in CloserRecords
        /\ io'.at = "busy" /\ io'.id = i /\ io'.to = "interrupted"
        /\ closer'.pc = "mark" /\ closer'.id = i
      BY <2>1, <2>2, StartsIo, CloserFields DEF EntryStates, Retained
  <2> QED
      BY <1>1, <2>2, <2>3, ControlNow, Names
      DEF Control, LockOwner, Operation, Holding, Closing, books
<1>3. CASE /\ closer' = [pc |-> "settle", id |-> NoId]
           /\ Starts(Closer, NoId,
                     IF (\A i \in Ids : entries[i] = "none") /\ ~rejected /\ ~fault
                     THEN "rmdir" ELSE "manifest")
  <2>1. \E to \in {"rmdir", "manifest"} : Starts(Closer, NoId, to)
      BY <1>3
  <2>2. /\ holder' = Closer /\ io' \in IoRecords /\ closer' \in CloserRecords
        /\ io'.at = "busy" /\ io'.id = NoId
        /\ closer'.pc = "settle"
      BY <1>3, <2>1, StartsIo, CloserFields
  <2> QED
      BY <1>1, <2>2, ControlNow, Names
      DEF Control, LockOwner, Operation, Holding, Closing, books
<1> QED
    BY <1>2, <1>3 DEF Settles

LEMMA ControlCloser == Core /\ CloserStep => Control' /\ closer' \in CloserRecords
<1> SUFFICES ASSUME Core PROVE CloserStep => Control' /\ closer' \in CloserRecords
    OBVIOUS
<1> DEFINE Goal == Control' /\ closer' \in CloserRecords
<1>1. ASSUME CloseBegins PROVE Goal
  <2>1. /\ UNCHANGED <<books, adm, holder, io, consumer>>
        /\ owner = "stopping" /\ owner' = "closing" /\ consumer.pc \in {"off", "ended"}
        /\ closer' \in CloserRecords /\ closer'.pc = "join"
      BY <1>1, ControlNow, CloserFields DEF CloseBegins
  <2>2. closer.pc = "off"
      BY <2>1, ControlNow DEF Closing
  <2> QED
      BY <2>1, <2>2, ControlNow DEF Control, LockOwner, Operation, Holding, Closing, books
<1>2. ASSUME CloseJoins PROVE Goal
    BY <1>2, ControlSettles DEF CloseJoins
<1>3. ASSUME CloseUnopened PROVE Goal
  <2>1. /\ UNCHANGED <<books, adm, holder, io, consumer>>
        /\ owner' = "closed" /\ closer.pc = "join"
        /\ closer' \in CloserRecords /\ closer'.pc = "off"
      BY <1>3, ControlNow, CloserFields DEF CloseUnopened
  <2> QED
      BY <2>1, ControlNow DEF Control, LockOwner, Operation, Holding, Closing, books
<1>4. ASSUME CloseMarked PROVE Goal
  <2>1. /\ UNCHANGED <<owner, adm, consumer, pending>>
        /\ closer' \in CloserRecords /\ closer'.pc = "marked" /\ closer.pc = "mark"
        /\ holder' = Closer /\ holder = Closer /\ io'.at = "idle"
      BY <1>4, CloserFields, IoFields DEF CloseMarked, Did
  <2>2. LockOwner' /\ Operation'
      BY <2>1, ControlNow, Names DEF LockOwner, Operation
  <2>3. Holding' /\ Closing'
      BY <1>4, <2>1, MarkedFacts, ControlNow DEF Holding, Closing
  <2> QED
      BY <2>1, <2>2, <2>3 DEF Control
<1>5. ASSUME CloseGoesOn PROVE Goal
    BY <1>5, ControlSettles, ControlNow DEF CloseGoesOn, LockOwner
<1>6. ASSUME CloseEnds \/ CloseFails PROVE Goal
  <2>1. /\ UNCHANGED <<books, adm, consumer>>
        /\ owner' = "closed" /\ closer.pc \in {"mark", "settle"}
        /\ closer' \in CloserRecords /\ closer'.pc = "off"
        /\ holder = Closer /\ holder' = NoOne /\ io'.at = "idle"
      BY <1>6, CloserFields, IoFields DEF CloseEnds, CloseFails, Did, Failed, Releases
  <2>2. LockOwner'
      BY <2>1, ControlNow, Names DEF LockOwner
  <2>3. Operation'
      BY <2>1, <2>2, ControlNow, Names DEF LockOwner, Operation
  <2>4. Holding' /\ Closing'
      BY <2>1, ControlNow DEF Holding, Closing, books
  <2> QED
      BY <2>1, <2>2, <2>3, <2>4 DEF Control
<1> QED
    BY <1>1, <1>2, <1>3, <1>4, <1>5, <1>6 DEF CloserStep

LEMMA ControlStep == Core /\ Next => Control'
<1> SUFFICES ASSUME Core, Next PROVE Control'
    OBVIOUS
<1>1. ASSUME NEW s \in Sizes, Arrive(s) PROVE Control'
  <2>1. /\ UNCHANGED <<owner, consumer, closer, holder, io, entries, pending>>
        /\ nextId \in Ids /\ adm' = [adm EXCEPT ![nextId] = "created"]
      BY <1>1 DEF Arrive
  <2>2. adm[nextId] # "writing"
      BY <2>1, Names DEF Core, Arrivals
  <2> QED
      BY <2>1, <2>2, ControlNow DEF Control, LockOwner, Operation, Holding, Closing
<1>2. ASSUME OpenStep \/ UNCHANGED vars \/ \E s \in Sizes : Reject(s) PROVE Control'
  <2>1. /\ UNCHANGED <<books, adm, holder, io, consumer, closer>>
        /\ \/ owner' = owner
           \/ owner' \in {"serving", "stopping"} /\ owner = "opening"
    <3>1. CASE OpenStep
        BY <3>1 DEF OpenStep, OpenSucceeds, OpenFails, books
    <3>2. CASE UNCHANGED vars
        BY <3>2 DEF vars, books
    <3>3. CASE \E s \in Sizes : Reject(s)
        BY <3>3 DEF Reject, books
    <3> QED
        BY <1>2, <3>1, <3>2, <3>3
  <2> QED
      BY <2>1, ControlNow DEF Control, LockOwner, Operation, Holding, Closing, books
<1>3. ASSUME DiskStep PROVE Control'
  <2>1. PICK a \in {"done", "failed"} :
            /\ UNCHANGED <<owner, books, adm, holder, consumer, closer>>
            /\ io.at = "busy" /\ io' = [io EXCEPT !.at = a]
      BY <1>3 DEF DiskStep, DiskDone, DiskFails
  <2>2. io'.at = a /\ io'.id = io.id /\ io'.to = io.to
      BY <2>1, ControlNow, IoFields
  <2> QED
      BY <2>1, <2>2, ControlNow DEF Control, LockOwner, Operation, Holding, Closing, books
<1> QED
    BY <1>1, <1>2, <1>3, ControlAdmission, ControlConsumer, ControlShutdown, ControlCloser
    DEF Next, Over

-----------------------------------------------------------------------------
(* The directory, the queue and the running entry.                         *)

\* Steps that begin or give up an operation, or are about something else.
LEMMA OperationKinds ==
    ASSUME Core, Next
    PROVE  \/ \E i \in Ids : Stored(i)
           \/ Claimed \/ Finished \/ CloseMarked \/ DiskDone
           \/ /\ UNCHANGED <<files, entries, pending>>
              /\ \/ io' = io
                 \/ /\ io.at # "done" \/ io.id = NoId
                    /\ io'.at # "done"
<1> DEFINE Other == /\ UNCHANGED <<files, entries, pending>>
                    /\ \/ io' = io
                       \/ /\ io.at # "done" \/ io.id = NoId
                          /\ io'.at # "done"
<1>a. NoIo.at = "idle"
    BY IoFields
<1>b. \A p, i, to : Starts(p, i, to) => io'.at # "done"
    BY DEF Starts
<1>c. holder = NoOne \/ closer.pc = "marked" => io.at = "idle"
    BY ControlNow DEF Operation
<1>1. ASSUME NEW i \in Ids, AdmissionStep(i) PROVE Stored(i) \/ Other
  <2>1. AdmissionMayEnter(i) => io.at = "idle"
      BY EntersInOrder, <1>c
  <2> QED
      BY <1>1, <1>a, <1>b, <2>1
      DEF AdmissionStep, AdmissionWaits, AdmissionWrites, AdmissionRefused, StoreFailed, Failed,
          Releases, books
<1>2. ASSUME ConsumerStarts \/ Shutdown PROVE Other
    BY <1>2 DEF ConsumerStarts, Shutdown, books
<1>3. ASSUME ConsumerStep PROVE Claimed \/ Finished \/ Other
  <2>1. ConsumerMayEnter => io.at = "idle"
      BY <1>c DEF ConsumerMayEnter, Free
  <2>2. ASSUME GetClaims \/ FinishBegins PROVE Other
      BY <1>b, <2>1, <2>2 DEF GetClaims, FinishBegins, books
  <2>3. ASSUME ClaimFails \/ FinishFails PROVE Other
      BY <1>a, <2>3 DEF ClaimFails, FinishFails, Failed, Releases, books
  <2>4. ASSUME \/ ConsumerWaits \/ GetStops \/ GetWaits \/ GetWakes \/ TurnInterrupted
               \/ \E o \in Outcomes : TurnEnds(o) \/ TurnAbsorbs(o)
        PROVE  Other
      BY <2>4 DEF ConsumerWaits, GetStops, GetWaits, GetWakes, TurnInterrupted, TurnEnds,
                  TurnAbsorbs, books
  <2> QED
      BY <1>3, <2>2, <2>3, <2>4 DEF ConsumerStep
<1>4. ASSUME CloserStep PROVE CloseMarked \/ Other
  <2>1. ASSUME CloseJoins \/ CloseGoesOn PROVE Other
    <3>1. io.at = "idle"
        BY <1>c, <2>1 DEF CloseJoins, CloseGoesOn
    <3>2. io'.at # "done"
        BY <1>b, <2>1 DEF CloseJoins, CloseGoesOn, Settles
    <3> QED
        BY <2>1, <3>1, <3>2 DEF CloseJoins, CloseGoesOn, books
  <2>2. ASSUME CloseEnds PROVE Other
      BY <1>a, <2>2, ControlNow DEF CloseEnds, Did, Operation, Releases, books
  <2>3. ASSUME CloseFails PROVE Other
      BY <1>a, <2>3 DEF CloseFails, Failed, Releases, books
  <2>4. ASSUME CloseBegins \/ CloseUnopened PROVE Other
      BY <2>4 DEF CloseBegins, CloseUnopened, books
  <2> QED
      BY <1>4, <2>1, <2>2, <2>3, <2>4 DEF CloserStep
<1>5. ASSUME OpenStep \/ Over \/ \E s \in Sizes : Arrive(s) \/ Reject(s) PROVE Other
    BY <1>5 DEF OpenStep, OpenSucceeds, OpenFails, Over, Arrive, Reject, vars, books
<1>6. ASSUME DiskFails PROVE Other
    BY <1>6, ControlNow, IoFields DEF DiskFails, books
<1> QED
    BY <1>1, <1>2, <1>3, <1>4, <1>5, <1>6 DEF Next, DiskStep

LEMMA DiskStepMatches == Core /\ Next => DiskMatchesEntries'
<1> SUFFICES ASSUME Core, Next PROVE DiskMatchesEntries'
    OBVIOUS
<1>a. /\ DiskMatchesEntries /\ NoIo.at = "idle"
      /\ entries \in [Ids -> EntryStates] /\ NoId \notin Ids
    BY IoFields, Names, ControlNow DEF Core
<1>1. ASSUME NEW i \in Ids, Stored(i) PROVE DiskMatchesEntries'
    BY <1>a, <1>1, StoredFacts DEF DiskMatchesEntries, Stored, Releases
<1>2. CASE Claimed
    BY <1>a, <1>2, ClaimedFacts DEF DiskMatchesEntries, Claimed, Releases
<1>3. CASE Finished
    BY <1>a, <1>3, FinishedFacts DEF DiskMatchesEntries, Finished, Releases
<1>4. CASE CloseMarked
    BY <1>a, <1>4, MarkedFacts DEF DiskMatchesEntries, CloseMarked
<1>5. CASE DiskDone
  <2>1. io'.at = "done" /\ io'.id = io.id /\ io'.to = io.to
      BY <1>5, ControlNow, IoFields DEF DiskDone
  <2> QED
      BY <1>a, <1>5, <2>1 DEF DiskMatchesEntries, DiskDone, books
<1>6. CASE /\ UNCHANGED <<files, entries>>
           /\ \/ io' = io
              \/ /\ io.at # "done" \/ io.id = NoId
                 /\ io'.at # "done"
    BY <1>a, <1>6 DEF DiskMatchesEntries
<1> QED
    BY <1>1, <1>2, <1>3, <1>4, <1>5, <1>6, OperationKinds

LEMMA AppendFacts ==
    ASSUME NEW q \in Seq(Ids), NEW i \in Ids
    PROVE  /\ Append(q, i) \in Seq(Ids) /\ Len(q) \in Nat
           /\ DOMAIN q = 1 .. Len(q)
           /\ DOMAIN Append(q, i) = 1 .. Len(q) + 1
           /\ \A k \in DOMAIN q : Append(q, i)[k] = q[k] /\ q[k] \in Ids
           /\ Append(q, i)[Len(q) + 1] = i
  OBVIOUS

LEMMA PendingStep == Core /\ Next => PendingExact'
<1> SUFFICES ASSUME Core, Next PROVE PendingExact'
    OBVIOUS
<1>a. /\ PendingExact /\ pending \in Seq(Ids)
      /\ entries \in [Ids -> EntryStates]
    BY ControlNow DEF Core, Typed
<1>1. ASSUME NEW i \in Ids, Stored(i) PROVE PendingExact'
  <2>1. /\ adm[i] = "writing" /\ entries[i] = "none"
        /\ entries' = [entries EXCEPT ![i] = "pending"] /\ pending' = Append(pending, i)
      BY <1>1, StoredFacts
  <2>2. \A k \in DOMAIN pending : pending[k] \in Ids /\ pending[k] < i
    <3> SUFFICES ASSUME NEW k \in DOMAIN pending PROVE pending[k] \in Ids /\ pending[k] < i
        OBVIOUS
    <3>1. pending[k] \in Ids /\ entries[pending[k]] = "pending"
        BY <1>a, AppendFacts DEF PendingExact
    <3>2. adm[pending[k]] = "stored"
        BY <3>1 DEF Core, Arrivals
    <3>3. ~(i < pending[k])
        BY <2>1, <3>1, <3>2 DEF Core, AdmissionOrder
    <3>4. pending[k] # i
        BY <2>1, <3>1
    <3>5. pending[k] \in Nat /\ i \in Nat
        BY <3>1, Names
    <3> QED
        BY <3>1, <3>3, <3>4, <3>5
  <2>3. /\ DOMAIN pending = 1 .. Len(pending) /\ DOMAIN pending' = 1 .. Len(pending) + 1
        /\ Len(pending) \in Nat
        /\ \A k \in 1 .. Len(pending) : pending'[k] = pending[k]
        /\ pending'[Len(pending) + 1] = i
      BY <1>a, <2>1, AppendFacts
  <2>4. \A k, l \in DOMAIN pending' : k < l => pending'[k] < pending'[l]
      BY <1>a, <2>2, <2>3, Names DEF PendingExact
  <2>5. \A j \in Ids : entries'[j] = "pending" <=> \E k \in DOMAIN pending' : pending'[k] = j
    <3> SUFFICES ASSUME NEW j \in Ids
                 PROVE  entries'[j] = "pending" <=> \E k \in DOMAIN pending' : pending'[k] = j
        OBVIOUS
    <3>1. entries'[j] = "pending" <=> j = i \/ entries[j] = "pending"
        BY <1>a, <2>1
    <3>2. entries[j] = "pending" <=> \E k \in 1 .. Len(pending) : pending[k] = j
        BY <1>a, <2>3 DEF PendingExact
    <3>3. (\E k \in DOMAIN pending' : pending'[k] = j)
          <=> j = i \/ \E k \in 1 .. Len(pending) : pending[k] = j
        BY <2>3
    <3> QED
        BY <3>1, <3>2, <3>3
  <2> QED
      BY <2>4, <2>5 DEF PendingExact
<1>2. CASE Claimed
  <2>1. /\ consumer.msg \in Ids /\ pending # <<>> /\ pending' = Tail(pending)
        /\ consumer.msg = pending[1] /\ entries' = [entries EXCEPT ![consumer.msg] = "running"]
      BY <1>a, <1>2, ClaimedFacts, OldestPending DEF Core
  <2>2. /\ Len(pending) \in Nat /\ DOMAIN pending = 1 .. Len(pending)
        /\ 1 \in DOMAIN pending
        /\ DOMAIN pending' = 1 .. Len(pending) - 1
        /\ \A k \in DOMAIN pending' :
              k + 1 \in DOMAIN pending /\ pending'[k] = pending[k + 1]
      BY <1>a, <2>1, OldestPending, AppendFacts DEF Core
  <2>3. \A k, l \in DOMAIN pending' : k < l => pending'[k] < pending'[l]
      BY <1>a, <2>2 DEF PendingExact
  <2>4. \A j \in Ids : entries'[j] = "pending" <=> \E k \in DOMAIN pending' : pending'[k] = j
    <3> SUFFICES ASSUME NEW j \in Ids
                 PROVE  entries'[j] = "pending" <=> \E k \in DOMAIN pending' : pending'[k] = j
        OBVIOUS
    <3>1. entries'[j] = "pending" <=> j # consumer.msg /\ entries[j] = "pending"
        BY <1>a, <2>1
    <3>2. entries[j] = "pending" <=> \E k \in DOMAIN pending : pending[k] = j
        BY <1>a DEF PendingExact
    <3>3. ASSUME NEW k \in DOMAIN pending, pending[k] = j, j # consumer.msg
          PROVE  \E l \in DOMAIN pending' : pending'[l] = j
      <4>1. k # 1 /\ k - 1 \in DOMAIN pending' /\ (k - 1) + 1 = k
          BY <2>1, <2>2, <3>3
      <4> QED
          BY <2>2, <3>3, <4>1
    <3>4. ASSUME NEW l \in DOMAIN pending', pending'[l] = j
          PROVE  j # consumer.msg /\ \E k \in DOMAIN pending : pending[k] = j
      <4>1. l + 1 \in DOMAIN pending /\ pending[l + 1] = j /\ 1 < l + 1
          BY <2>2, <3>4
      <4>2. pending[1] < j
          BY <1>a, <2>2, <4>1 DEF PendingExact
      <4> QED
          BY <2>1, <4>1, <4>2, Names
    <3> QED
        BY <3>1, <3>2, <3>3, <3>4
  <2> QED
      BY <2>3, <2>4 DEF PendingExact
<1>3. ASSUME NEW i \in Ids, NEW e \in EntryStates \ {"pending"}, entries[i] # "pending",
             entries' = [entries EXCEPT ![i] = e], pending' = pending
      PROVE  PendingExact'
    BY <1>a, <1>3 DEF PendingExact
<1>4. CASE Finished
    BY <1>3, <1>4, FinishedFacts
<1>5. CASE CloseMarked
    BY <1>3, <1>5, MarkedFacts DEF EntryStates, Retained
<1>6. CASE UNCHANGED <<entries, pending>>
    BY <1>a, <1>6 DEF PendingExact
<1>7. CASE DiskDone
    BY <1>6, <1>7 DEF DiskDone, books
<1> QED
    BY <1>1, <1>2, <1>4, <1>5, <1>6, <1>7, OperationKinds

\* No entry is running while the consumer holds nothing or is still claiming.
LEMMA NothingRuns ==
    ASSUME Core, consumer.pc \in {"off", "get", "idle", "claim"}
    PROVE  \A i \in Ids : entries[i] # "running"
<1>1. CASE consumer.pc = "claim"
  <2>1. entries[consumer.msg] = "pending"
      BY <1>1, ControlNow, OldestPending DEF Holding, Core
  <2> QED
      BY <2>1 DEF Core, RunningIsHeld
<1>2. CASE consumer.pc \in {"off", "get", "idle"}
    BY <1>2, ControlNow, Names DEF Holding, Core, RunningIsHeld
<1> QED
    BY <1>1, <1>2

LEMMA RunningStep == Core /\ Next => RunningIsHeld'
<1> SUFFICES ASSUME Core, Next PROVE RunningIsHeld'
    OBVIOUS
<1>a. RunningIsHeld /\ entries \in [Ids -> EntryStates] /\ consumer \in ConsumerRecords
    BY ControlNow DEF Core
<1>1. ASSUME NEW i \in Ids, Stored(i) PROVE RunningIsHeld'
    BY <1>a, <1>1, StoredFacts DEF RunningIsHeld, Stored
<1>2. CASE Claimed
  <2>1. \A i \in Ids : entries[i] # "running"
      BY <1>2, NothingRuns DEF Claimed
  <2>2. consumer'.msg = consumer.msg
      BY <1>a, <1>2, ConsumerMoves DEF At
  <2> QED
      BY <1>a, <1>2, <2>1, <2>2, ClaimedFacts DEF RunningIsHeld
<1>3. CASE Finished
    BY <1>a, <1>3, FinishedFacts DEF RunningIsHeld
<1>4. CASE CloseMarked
    BY <1>a, <1>4, MarkedFacts DEF RunningIsHeld, CloseMarked
<1>5. ASSUME entries' = entries, ~Claimed, ~Finished PROVE RunningIsHeld'
  <2>1. \/ consumer'.msg = consumer.msg
        \/ consumer.pc \in {"get", "claim"}
    <3>1. CASE ConsumerStep
        BY <1>a, <1>5, <3>1, ConsumerMoves
        DEF ConsumerStep, At, GetClaims, ClaimFails
    <3>2. CASE ConsumerStarts \/ Shutdown
        BY <1>a, <3>2, ConsumerMoves DEF At
    <3>3. CASE CloserStep
        BY <3>3 DEF CloserStep, CloseBegins, CloseJoins, CloseUnopened, CloseMarked, CloseGoesOn,
                    CloseEnds, CloseFails
    <3> QED
        BY <3>1, <3>2, <3>3, ControlFrame
  <2> QED
      BY <1>a, <1>5, <2>1, NothingRuns DEF RunningIsHeld
<1>6. CASE DiskDone
    BY <1>5, <1>6 DEF DiskDone, books, Claimed, Finished, Did
<1> QED
    BY <1>1, <1>2, <1>3, <1>4, <1>5, <1>6, OperationKinds

-----------------------------------------------------------------------------
(* Types.                                                                  *)

LEMMA TypedRecords == Core /\ Next => /\ io' \in IoRecords /\ consumer' \in ConsumerRecords
                                      /\ closer' \in CloserRecords
<1> SUFFICES ASSUME Core, Next
             PROVE  /\ io' \in IoRecords /\ consumer' \in ConsumerRecords
                    /\ closer' \in CloserRecords
    OBVIOUS
<1>a. consumer \in ConsumerRecords /\ closer \in CloserRecords /\ io \in IoRecords
    BY ControlNow
<1>1. consumer' \in ConsumerRecords
  <2>1. CASE ConsumerStep
    <3>1. GetClaims => NextMessage \in Ids
        BY OldestPending DEF GetClaims, NextMessage, Core
    <3> QED
        BY <1>a, <2>1, <3>1, ConsumerMoves DEF ConsumerStep, At
  <2>2. CASE ConsumerStarts \/ Shutdown
      BY <1>a, <2>2, ConsumerMoves DEF At
  <2>3. CASE CloserStep
      BY <1>a, <2>3 DEF CloserStep, CloseBegins, CloseJoins, CloseUnopened, CloseMarked,
                        CloseGoesOn, CloseEnds, CloseFails
  <2> QED
      BY <1>a, <2>1, <2>2, <2>3, ControlFrame
<1>2. closer' \in CloserRecords
  <2>1. CASE ConsumerStarts \/ ConsumerStep \/ Shutdown
      BY <1>a, <2>1 DEF ConsumerStarts, Shutdown, ConsumerStep, ConsumerWaits, GetStops, GetWaits,
         GetWakes, GetClaims, Claimed, ClaimFails, TurnEnds, TurnAbsorbs, TurnInterrupted,
         FinishBegins, Finished, FinishFails
  <2> QED
      BY <1>a, <2>1, ControlFrame, ControlCloser
<1>3. io' \in IoRecords
  <2>1. ASSUME NEW i \in Ids, AdmissionStep(i) PROVE io' \in IoRecords
    <3>1. CASE AdmissionWrites(i)
        BY <3>1, StartsIo DEF AdmissionWrites, EntryStates, Retained
    <3> QED
        BY <1>a, <2>1, <3>1, IoFields
        DEF AdmissionStep, AdmissionWaits, AdmissionRefused, Stored, StoreFailed, Releases
  <2>2. CASE ConsumerStep
    <3>1. CASE GetClaims
      <4>1. NextMessage \in Ids
          BY <3>1, OldestPending DEF GetClaims, NextMessage, Core
      <4> QED
          BY <3>1, <4>1, StartsIo DEF GetClaims, EntryStates, Retained
    <3>2. CASE FinishBegins
      <4>1. consumer.msg \in Ids /\ FileAfter(consumer.outcome) \in EntryStates
          BY <3>2, ControlNow
          DEF FinishBegins, Holding, FileAfter, Outcomes, EntryStates, Retained
      <4> QED
          BY <3>2, <4>1, StartsIo DEF FinishBegins
    <3> QED
        BY <1>a, <2>2, <3>1, <3>2, IoFields
        DEF ConsumerStep, ConsumerWaits, GetStops, GetWaits, GetWakes, Claimed, ClaimFails,
            TurnEnds, TurnAbsorbs, TurnInterrupted, Finished, FinishFails, Releases
  <2>3. CASE CloserStep
    <3>1. CASE CloseJoins \/ CloseGoesOn
        BY <3>1, ControlSettles, ControlNow DEF CloseJoins, CloseGoesOn, LockOwner
    <3> QED
        BY <1>a, <2>3, <3>1, IoFields
        DEF CloserStep, CloseBegins, CloseUnopened, CloseMarked, CloseEnds, CloseFails, Releases
  <2>4. CASE DiskStep
    <3>1. PICK a \in {"done", "failed"} : io' = [io EXCEPT !.at = a]
        BY <2>4 DEF DiskStep, DiskDone, DiskFails
    <3> QED
        BY <1>a, <3>1, IoFields
  <2>5. CASE \/ OpenStep \/ Over \/ ConsumerStarts \/ Shutdown
             \/ \E s \in Sizes : Arrive(s) \/ Reject(s)
      BY <1>a, <2>5
      DEF OpenStep, OpenSucceeds, OpenFails, Over, ConsumerStarts, Shutdown, Arrive, Reject, vars
  <2> QED
      BY <2>1, <2>2, <2>3, <2>4, <2>5 DEF Next
<1> QED
    BY <1>1, <1>2, <1>3

\* The flags of the owner.
LEMMA TypedFlags ==
    Typed /\ Next => /\ owner' \in {"opening", "serving", "stopping", "closing", "closed"}
                     /\ dir' \in BOOLEAN /\ fault' \in BOOLEAN /\ rejected' \in BOOLEAN
                     /\ ready' \in BOOLEAN
<1> SUFFICES ASSUME Typed, Next
             PROVE  /\ owner' \in {"opening", "serving", "stopping", "closing", "closed"}
                    /\ dir' \in BOOLEAN /\ fault' \in BOOLEAN /\ rejected' \in BOOLEAN
                    /\ ready' \in BOOLEAN
    OBVIOUS
<1>a. /\ owner \in {"opening", "serving", "stopping", "closing", "closed"}
      /\ dir \in BOOLEAN /\ fault \in BOOLEAN /\ rejected \in BOOLEAN /\ ready \in BOOLEAN
    BY DEF Typed
<1>1. CASE OpenStep \/ Over \/ DiskStep \/ \E s \in Sizes : Arrive(s) \/ Reject(s)
    BY <1>a, <1>1 DEF OpenStep, OpenSucceeds, OpenFails, Over, DiskStep, DiskDone, DiskFails,
                      Arrive, Reject, vars
<1>2. CASE \E i \in Ids : AdmissionStep(i)
    BY <1>a, <1>2 DEF AdmissionStep, AdmissionWaits, AdmissionWrites, AdmissionRefused, Stored,
                      StoreFailed
<1>3. CASE ConsumerStarts \/ ConsumerStep
    BY <1>a, <1>3 DEF ConsumerStarts, ConsumerStep, ConsumerWaits, GetStops, GetWaits, GetWakes,
                      GetClaims, Claimed, ClaimFails, TurnEnds, TurnAbsorbs, TurnInterrupted,
                      FinishBegins, Finished, FinishFails
<1>4. CASE Shutdown \/ CloserStep
    BY <1>a, <1>4 DEF Shutdown, CloserStep, CloseBegins, CloseJoins, CloseUnopened, CloseMarked,
                      CloseGoesOn, CloseEnds, CloseFails
<1> QED
    BY <1>1, <1>2, <1>3, <1>4 DEF Next

LEMMA TypedBooks ==
    Core /\ Next => /\ files' \in [Ids -> EntryStates] /\ entries' \in [Ids -> EntryStates]
                    /\ size' \in [Ids -> Nat] /\ pending' \in Seq(Ids)
                    /\ nextId' \in 1 .. MaxId + 1 /\ reserved' \subseteq Ids
                    /\ adm' \in [Ids -> {"none", "created", "queued", "writing", "stored", "refused"}]
                    /\ reservedBytes' \in Int /\ bytes' \in Int
<1> DEFINE Goal == /\ files' \in [Ids -> EntryStates] /\ entries' \in [Ids -> EntryStates]
                   /\ size' \in [Ids -> Nat] /\ pending' \in Seq(Ids)
                   /\ nextId' \in 1 .. MaxId + 1 /\ reserved' \subseteq Ids
                   /\ adm' \in [Ids -> {"none", "created", "queued", "writing", "stored", "refused"}]
                   /\ reservedBytes' \in Int /\ bytes' \in Int
<1> SUFFICES ASSUME Core, Next PROVE Goal
    OBVIOUS
<1>a. /\ files \in [Ids -> EntryStates] /\ entries \in [Ids -> EntryStates]
      /\ size \in [Ids -> Nat] /\ pending \in Seq(Ids)
      /\ nextId \in 1 .. MaxId + 1 /\ reserved \subseteq Ids
      /\ adm \in [Ids -> {"none", "created", "queued", "writing", "stored", "refused"}]
      /\ reservedBytes \in Int /\ bytes \in Int
    BY DEF Core, Typed
<1>b. {"pending", "running", "interrupted", "none"} \subseteq EntryStates
    BY DEF EntryStates, Retained
<1>c. MaxId \in Nat /\ Sizes \subseteq Nat
    BY InboxConstants DEF InboxConstants
<1>1. ASSUME NEW s \in Sizes, Arrive(s) PROVE Goal
  <2>1. nextId \in Ids /\ nextId + 1 \in 1 .. MaxId + 1
      BY <1>1, <1>c DEF Arrive, Ids
  <2> QED
      BY <1>a, <1>c, <1>1, <2>1 DEF Arrive
<1>2. ASSUME NEW i \in Ids, AdmissionStep(i) PROVE Goal
  <2>1. size[i] \in Nat /\ files' = files /\ size' = size /\ nextId' = nextId
      BY <1>a, <1>2, AdmissionFrame
  <2>2. CASE Stored(i)
    <3>1. /\ adm' = [adm EXCEPT ![i] = "stored"] /\ entries' = [entries EXCEPT ![i] = "pending"]
          /\ reserved' = reserved \ {i} /\ pending' = Append(pending, i)
        BY <2>2, StoredFacts
    <3>2. reservedBytes' \in Int /\ bytes' \in Int
        BY <1>a, <2>1, <2>2 DEF Stored, Released
    <3> QED
        BY <1>a, <1>b, <2>1, <3>1, <3>2, AppendFacts
  <2>3. CASE AdmissionRefused(i) \/ StoreFailed(i)
    <3>1. /\ adm' = [adm EXCEPT ![i] = "refused"] /\ reserved' = reserved \ {i}
          /\ UNCHANGED <<entries, pending, bytes>>
        BY <2>3 DEF AdmissionRefused, StoreFailed, Released
    <3>2. reservedBytes' \in Int
        BY <1>a, <2>1, <2>3 DEF AdmissionRefused, StoreFailed, Released
    <3> QED
        BY <1>a, <2>1, <3>1, <3>2
  <2>4. CASE AdmissionWaits(i) \/ AdmissionWrites(i)
    <3>1. /\ \E a \in {"queued", "writing"} : adm' = [adm EXCEPT ![i] = a]
          /\ UNCHANGED <<files, entries, size, pending, nextId, reserved, reservedBytes, bytes>>
        BY <2>4 DEF AdmissionWaits, AdmissionWrites, books
    <3> QED
        BY <1>a, <3>1
  <2> QED
      BY <1>2, <2>2, <2>3, <2>4 DEF AdmissionStep
<1>3. CASE Claimed
  <2>1. Tail(pending) \in Seq(Ids)
      BY <1>3, ClaimedFacts, OldestPending DEF Core
  <2> QED
      BY <1>a, <1>b, <1>3, <2>1, ClaimedFacts
<1>4. CASE Finished
  <2>1. size[consumer.msg] \in Nat
      BY <1>a, <1>4, FinishedFacts
  <2>2. bytes' \in Int
      BY <1>a, <1>4, <2>1 DEF Finished
  <2> QED
      BY <1>a, <1>4, <2>2, FinishedFacts
<1>5. CASE CloseMarked
    BY <1>a, <1>b, <1>5, MarkedFacts
<1>6. CASE DiskDone
  <2>1. io.id # NoId => io.id \in Ids /\ io.to \in EntryStates
    <3>1. holder \in Ids => io.to = "pending"
        BY <1>6, ControlNow DEF DiskDone, Operation
    <3>2. holder = Consumer =>
            (consumer.pc = "claim" /\ io.to = "running")
            \/ (consumer.outcome \in Outcomes /\ io.to = FileAfter(consumer.outcome))
        BY <1>6, ControlNow DEF DiskDone, Operation, LockOwner, Holding
    <3>3. holder = Closer /\ io.id # NoId => io.to = "interrupted"
        BY <1>6, ControlNow, Names DEF DiskDone, Operation, LockOwner
    <3>4. holder # NoOne
        BY <1>6, ControlNow DEF DiskDone, Operation
    <3>5. \A o \in Outcomes : FileAfter(o) \in EntryStates
        BY DEF FileAfter, Outcomes, EntryStates, Retained
    <3> QED
        BY <1>b, <3>1, <3>2, <3>3, <3>4, <3>5, ControlNow, IoFields
  <2> QED
      BY <1>a, <1>6, <2>1 DEF DiskDone, books
<1>7. CASE UNCHANGED <<files, books, adm>>
    BY <1>a, <1>7 DEF books
<1> QED
  <2>1. files' = files \/ DiskDone
    <3>1. (\E i \in Ids : Stored(i)) \/ Claimed \/ Finished \/ CloseMarked => files' = files
        BY StoredFacts, ClaimedFacts, FinishedFacts, MarkedFacts
    <3> QED
        BY <3>1, OperationKinds
  <2> QED
      BY <1>1, <1>2, <1>3, <1>4, <1>5, <1>6, <1>7, <2>1, BooksFrame

LEMMA TypedHolder == Core /\ Next => holder' \in Ids \cup {NoOne, Consumer, Closer}
<1> SUFFICES ASSUME Core, Next PROVE holder' \in Ids \cup {NoOne, Consumer, Closer}
    OBVIOUS
<1>a. holder \in Ids \cup {NoOne, Consumer, Closer}
    BY ControlNow
<1>1. CASE \E i \in Ids : AdmissionStep(i)
    BY <1>a, <1>1 DEF AdmissionStep, AdmissionWaits, AdmissionWrites, AdmissionRefused, Stored,
                      StoreFailed, Starts, Releases
<1>2. CASE ConsumerStarts \/ ConsumerStep
    BY <1>a, <1>2 DEF ConsumerStarts, ConsumerStep, ConsumerWaits, GetStops, GetWaits, GetWakes,
                      GetClaims, Claimed, ClaimFails, TurnEnds, TurnAbsorbs, TurnInterrupted,
                      FinishBegins, Finished, FinishFails, Starts, Releases
<1>3. CASE Shutdown \/ CloserStep
    BY <1>a, <1>3 DEF Shutdown, CloserStep, CloseBegins, CloseJoins, CloseUnopened, CloseMarked,
                      CloseGoesOn, CloseEnds, CloseFails, Settles, Starts, Releases
<1>4. CASE OpenStep \/ Over \/ DiskStep \/ \E s \in Sizes : Arrive(s) \/ Reject(s)
    BY <1>a, <1>4 DEF OpenStep, OpenSucceeds, OpenFails, Over, DiskStep, DiskDone, DiskFails,
                      Arrive, Reject, vars
<1> QED
    BY <1>1, <1>2, <1>3, <1>4 DEF Next

LEMMA CoreInit == Init => Core
<1> SUFFICES ASSUME Init PROVE Core
    OBVIOUS
<1>1. /\ consumer \in ConsumerRecords /\ consumer.pc = "off" /\ consumer.msg = NoId
      /\ io \in IoRecords /\ io.at = "idle"
      /\ closer \in CloserRecords /\ closer.pc = "off"
    BY IoFields, CloserFields DEF Init, Off, ConsumerRecords, ConsumerPcs
<1>2. 1 \in 1 .. MaxId + 1 /\ pending \in Seq(Ids) /\ pending = <<>>
    BY InboxConstants DEF InboxConstants, Init
<1>3. Typed
  <2>1. /\ files \in [Ids -> EntryStates] /\ entries \in [Ids -> EntryStates]
        /\ size \in [Ids -> Nat]
        /\ adm \in [Ids -> {"none", "created", "queued", "writing", "stored", "refused"}]
      BY DEF Init, EntryStates
  <2>2. /\ reserved \subseteq Ids /\ reservedBytes \in Int /\ bytes \in Int
        /\ nextId \in 1 .. MaxId + 1 /\ holder \in {NoOne}
        /\ owner = "opening" /\ dir = FALSE /\ fault = FALSE /\ rejected = FALSE
        /\ ready = FALSE
      BY <1>2 DEF Init
  <2> QED
      BY <1>1, <1>2, <2>1, <2>2 DEF Typed
<1>4. Arrivals /\ AdmissionOrder
    BY DEF Init, Arrivals, AdmissionOrder, InFlight, Ids
<1>5. LockOwner /\ Operation /\ Holding /\ Closing
    BY <1>1, Names DEF Init, LockOwner, Operation, Holding, Closing
<1>6. DiskMatchesEntries /\ RunningIsHeld
    BY <1>1 DEF Init, DiskMatchesEntries, RunningIsHeld
<1>7. PendingExact
    BY <1>2 DEF Init, PendingExact
<1> QED
    BY <1>3, <1>4, <1>5, <1>6, <1>7 DEF Core

LEMMA CoreStep == Core /\ [Next]_vars => Core'
<1> SUFFICES ASSUME Core, [Next]_vars PROVE Core'
    OBVIOUS
<1>1. CASE Next
  <2>1. Typed'
      BY <1>1, TypedFlags, TypedBooks, TypedHolder, TypedRecords DEF Typed, Core
  <2> QED
      BY <1>1, <2>1, ArrivalsStep, AdmissionOrderStep, ControlStep, DiskStepMatches,
         PendingStep, RunningStep DEF Core, Control
<1>2. CASE UNCHANGED vars
    BY <1>2 DEF vars, Core, Typed, Arrivals, AdmissionOrder, LockOwner, Operation, Holding, Closing,
                DiskMatchesEntries, PendingExact, RunningIsHeld
<1> QED
    BY <1>1, <1>2

LEMMA CoreAlways == Spec => []Core
  BY CoreInit, CoreStep, PTL DEF Spec

-----------------------------------------------------------------------------
(* Results.                                                                *)

\* The directory, the entries, the queue and the consumer agree in every
\* reachable state (RecordsAgree): no failing write, rename or unlink, no
\* cancellation and no shutdown lets _entries, _pending and the files drift.
THEOREM BooksMatchDirectory == Spec => []RecordsAgree
<1>1. Core => RecordsAgree
    BY DEF Core, RecordsAgree
<1> QED
    BY <1>1, CoreAlways, PTL

\* Messages reach turns in the order of arrival (FirstComeFirstServed),
\* although their admissions queue behind the disk and may fail one by one.
THEOREM DeliveredInOrder == Spec => []FirstComeFirstServed
<1>1. Core /\ FirstComeFirstServed /\ [Next]_vars => FirstComeFirstServed'
  <2> SUFFICES ASSUME Core, FirstComeFirstServed, [Next]_vars,
                      NEW i \in Ids, NEW j \in Ids, j < i,
                      \/ adm'[j] \in InFlight \/ entries'[j] = "pending",
                      adm'[i] = "stored"
               PROVE  entries'[i] = "pending"
      BY DEF FirstComeFirstServed, InFlight
  <2>1. Core'
      BY CoreStep
  <2>2. entries'[j] = "pending"
      BY <2>1, Names DEF Core, AdmissionOrder, InFlight
  <2>a. entries \in [Ids -> EntryStates] /\ i \in Nat /\ j \in Nat
      BY Names, ControlNow
  <2>3. ASSUME NEW k \in Ids, Stored(k) PROVE entries'[i] = "pending"
    <3>1. /\ adm[k] = "writing" /\ adm' = [adm EXCEPT ![k] = "stored"]
          /\ entries' = [entries EXCEPT ![k] = "pending"]
        BY <2>3, StoredFacts
    <3>2. CASE k = j
      <4>1. adm[i] = "stored"
          BY <3>1, <3>2, <2>a, ControlNow
      <4> QED
          BY <3>1, <3>2, <4>1 DEF Core, AdmissionOrder
    <3>3. CASE k # j
        BY <2>2, <2>a, <3>1, <3>3, ControlNow DEF FirstComeFirstServed
    <3> QED
        BY <3>2, <3>3
  <2>4. CASE Claimed
    <3>1. /\ consumer.msg \in Ids /\ consumer.msg = pending[1] /\ 1 \in DOMAIN pending
          /\ entries' = [entries EXCEPT ![consumer.msg] = "running"] /\ adm' = adm
        BY <2>4, ClaimedFacts, OldestPending DEF Core
    <3>2. entries[j] = "pending" /\ j # consumer.msg
        BY <2>2, <2>a, <3>1
    <3>3. entries[i] = "pending"
        BY <3>1, <3>2 DEF FirstComeFirstServed
    <3>4. i # consumer.msg
      <4>1. PICK k \in DOMAIN pending : pending[k] = j
          BY <3>2 DEF Core, PendingExact
      <4>2. pending[1] < j
          BY <3>1, <3>2, <4>1, AppendFacts DEF Core, Typed, PendingExact
      <4> QED
          BY <2>a, <3>1, <4>2
    <3> QED
        BY <2>a, <3>1, <3>3, <3>4
  <2>5. CASE Finished
      BY <2>2, <2>5, <2>a, FinishedFacts DEF FirstComeFirstServed
  <2>6. CASE CloseMarked
      BY <2>2, <2>6, <2>a, MarkedFacts DEF FirstComeFirstServed
  <2>7. CASE entries' = entries /\ \A k \in Ids : ~Stored(k)
    <3>1. ASSUME NEW k \in Ids, AdmissionStep(k) PROVE adm[i] = "stored"
      <4>1. \E a \in {"queued", "writing", "refused"} : adm' = [adm EXCEPT ![k] = a]
          BY <2>7, <3>1, AdmissionKinds
      <4> QED
          BY <4>1, ControlNow
    <3>2. ASSUME NEW s \in Sizes, Arrive(s) PROVE adm[i] = "stored"
        BY <3>2, ControlNow DEF Arrive
    <3>3. adm[i] = "stored"
        BY <3>1, <3>2, BooksFrame, ClaimedFacts, FinishedFacts, MarkedFacts DEF vars
    <3> QED
        BY <2>2, <2>7, <3>3 DEF FirstComeFirstServed
  <2> QED
      BY <2>3, <2>4, <2>5, <2>6, <2>7, OperationKinds DEF DiskDone, books, vars
<1>2. Init => FirstComeFirstServed
    BY DEF Init, FirstComeFirstServed
<1> QED
    BY <1>1, <1>2, CoreAlways, PTL DEF Spec

\* The messages that are retained.
Kept == {i \in Ids : entries[i] # "none"}

LEMMA FiniteBooks ==
    ASSUME Core
    PROVE  /\ IsFiniteSet(Kept) /\ Cardinality(Kept) \in Nat
           /\ IsFiniteSet(reserved) /\ Cardinality(reserved) \in Nat
<1>1. IsFiniteSet(Ids)
    BY InboxConstants, FS_Interval DEF InboxConstants, Ids
<1>2. Kept \in SUBSET Ids /\ reserved \in SUBSET Ids
    BY DEF Kept, Core, Typed
<1> QED
    BY <1>1, <1>2, FS_Subset, FS_CardinalityType

\* However many admissions wait for the disk, retained and reserved messages
\* together stay within the two limits (WithinLimits).
THEOREM NeverOverLimits == Spec => []WithinLimits
<1>1. Core /\ WithinLimits /\ [Next]_vars => WithinLimits'
  <2> SUFFICES ASSUME Core, WithinLimits, [Next]_vars PROVE WithinLimits'
      OBVIOUS
  <2> DEFINE K == Cardinality(Kept)
             R == Cardinality(reserved)
             K1 == Cardinality(Kept')
             R1 == Cardinality(reserved')
             Fits == K1 + R1 <= MaxMessages /\ bytes' + reservedBytes' <= MaxBytes
  <2>a. /\ K + R <= MaxMessages /\ bytes + reservedBytes <= MaxBytes
        /\ bytes \in Int /\ reservedBytes \in Int /\ size \in [Ids -> Nat]
        /\ entries \in [Ids -> EntryStates]
        /\ MaxMessages \in Nat /\ MaxBytes \in Nat /\ Sizes \subseteq Nat
      BY InboxConstants DEF WithinLimits, Kept, Core, Typed, InboxConstants
  <2>b. K \in Nat /\ R \in Nat /\ IsFiniteSet(Kept) /\ IsFiniteSet(reserved)
      BY FiniteBooks
  <2>c. \A i \in reserved : i \in Ids /\ entries[i] = "none"
      BY DEF Core, Arrivals, InFlight
  <2>1. ASSUME NEW s \in Sizes, Arrive(s) PROVE Fits
    <3>1. Kept' = Kept /\ reserved' = reserved \cup {nextId} /\ nextId \notin reserved
        BY <2>1, Names DEF Arrive, Kept, Core, Arrivals, InFlight
    <3>2. R1 = R + 1 /\ K1 = K
        BY <2>b, <3>1, FS_AddElement
    <3>3. K + R < MaxMessages /\ bytes + reservedBytes + s <= MaxBytes
        BY <2>1 DEF Arrive, Admissible, Kept
    <3>4. bytes' = bytes /\ reservedBytes' = reservedBytes + s
        BY <2>1 DEF Arrive
    <3> QED
        BY <2>a, <2>b, <3>2, <3>3, <3>4
  <2>2. ASSUME NEW i \in Ids, AdmissionStep(i) PROVE Fits
    <3>1. CASE Stored(i)
      <4>1. Kept' = Kept \cup {i} /\ i \notin Kept /\ reserved' = reserved \ {i} /\ i \in reserved
          BY <2>a, <3>1, StoredFacts DEF Kept
      <4>2. K1 = K + 1 /\ R1 = R - 1
          BY <2>b, <4>1, FS_AddElement, FS_RemoveElement
      <4>3. bytes' = bytes + size[i] /\ reservedBytes' = reservedBytes - size[i] /\ size[i] \in Nat
          BY <2>a, <3>1, <4>1 DEF Stored, Released
      <4>4. K1 + R1 = K + R
          BY <2>b, <4>2
      <4>5. bytes' + reservedBytes' = bytes + reservedBytes
          BY <2>a, <4>3
      <4> QED
          BY <2>a, <4>4, <4>5
    <3>2. CASE AdmissionRefused(i) \/ StoreFailed(i)
      <4>1. Kept' = Kept /\ reserved' = reserved \ {i}
          BY <3>2 DEF AdmissionRefused, StoreFailed, Released, Kept
      <4>2. K1 = K /\ R1 <= R /\ R1 \in Int
          BY <2>b, <4>1, FS_RemoveElement
      <4>3. /\ bytes' = bytes /\ size[i] \in Nat
            /\ reservedBytes' = reservedBytes \/ reservedBytes' = reservedBytes - size[i]
          BY <2>a, <3>2 DEF AdmissionRefused, StoreFailed, Released
      <4>4. K1 + R1 <= K + R /\ K1 + R1 \in Int /\ K + R \in Int
          BY <2>b, <4>2
      <4>5. K1 + R1 <= MaxMessages
          BY <2>a, <4>4
      <4>6. CASE reservedBytes' = reservedBytes
          BY <2>a, <4>3, <4>5, <4>6
      <4>7. CASE reservedBytes' = reservedBytes - size[i]
        <5>1. bytes' + reservedBytes' <= MaxBytes
            BY <2>a, <4>3, <4>7
        <5> QED
            BY <4>5, <5>1
      <4> QED
          BY <4>3, <4>6, <4>7
    <3>3. CASE AdmissionWaits(i) \/ AdmissionWrites(i)
        BY <2>a, <3>3 DEF AdmissionWaits, AdmissionWrites, books, Kept
    <3> QED
        BY <2>2, <3>1, <3>2, <3>3 DEF AdmissionStep
  <2>3. ASSUME Claimed \/ CloseMarked PROVE Fits
    <3>1. Kept' = Kept
        BY <2>a, <2>3, ClaimedFacts, MarkedFacts DEF Kept
    <3>2. UNCHANGED <<reserved, bytes, reservedBytes>>
        BY <2>3, ClaimedFacts, MarkedFacts
    <3>3. K1 = K /\ R1 = R
        BY <3>1, <3>2
    <3> QED
        BY <2>a, <3>2, <3>3
  <2>4. ASSUME Finished PROVE Fits
    <3>1. /\ reserved' = reserved /\ reservedBytes' = reservedBytes
          /\ Kept' = Kept \/ Kept' = Kept \ {consumer.msg}
        BY <2>a, <2>4, FinishedFacts DEF Kept
    <3>2. K1 <= K /\ K1 \in Int
        BY <2>b, <3>1, FS_RemoveElement
    <3>3. /\ bytes' = bytes \/ bytes' = bytes - size[consumer.msg]
          /\ size[consumer.msg] \in Nat
        BY <2>a, <2>4, FinishedFacts DEF Finished
    <3>4. K1 + R1 <= K + R /\ K1 + R1 \in Int /\ K + R \in Int
        BY <2>b, <3>1, <3>2
    <3>5. K1 + R1 <= MaxMessages
        BY <2>a, <3>4
    <3>6. bytes' + reservedBytes' <= MaxBytes
        BY <2>a, <3>1, <3>3
    <3> QED
        BY <3>5, <3>6
  <2>5. ASSUME UNCHANGED books PROVE Fits
    <3>1. K1 = K /\ R1 = R /\ bytes' = bytes /\ reservedBytes' = reservedBytes
        BY <2>5 DEF books, Kept
    <3> QED
        BY <2>a, <3>1
  <2>6. Fits
      BY <2>1, <2>2, <2>3, <2>4, <2>5, BooksFrame DEF vars, books
  <2> QED
      BY <2>6 DEF WithinLimits, Kept
<1>2. Init => WithinLimits
  <2> SUFFICES ASSUME Init PROVE WithinLimits
      OBVIOUS
  <2>1. {i \in Ids : entries[i] # "none"} = {} /\ reserved = {} /\ bytes + reservedBytes = 0
      BY DEF Init
  <2> QED
      BY <2>1, InboxConstants, FS_EmptySet DEF WithinLimits, InboxConstants
<1> QED
    BY <1>1, <1>2, CoreAlways, PTL DEF Spec

\* Which file a finished operation may change, and to what.
LEMMA DiskChanges ==
    ASSUME Core, [Next]_vars, NEW i \in Ids, files'[i] # files[i]
    PROVE  \/ files[i] = "none" /\ files'[i] = "pending"
           \/ files[i] = "pending" /\ files'[i] = "running"
           \/ /\ files[i] = "running" /\ consumer.msg = i /\ consumer.outcome \in Outcomes
              /\ files'[i] = FileAfter(consumer.outcome)
           \/ files[i] = "running" /\ files'[i] = "interrupted"
<1>1. DiskDone
  <2>1. (\E j \in Ids : Stored(j)) \/ Claimed \/ Finished \/ CloseMarked => files' = files
      BY StoredFacts, ClaimedFacts, FinishedFacts, MarkedFacts
  <2> QED
      BY <2>1, OperationKinds DEF vars
<1>2. files = entries /\ io.id = i /\ files'[i] = io.to
    BY <1>1, ControlNow DEF DiskDone, Core, DiskMatchesEntries
<1>3. CASE holder \in Ids
    BY <1>1, <1>2, <1>3, ControlNow DEF DiskDone, Operation, LockOwner, Core, Arrivals
<1>4. CASE holder = Consumer
  <2>1. CASE consumer.pc = "claim"
      BY <1>1, <1>2, <2>1, ControlNow, OldestPending DEF DiskDone, Operation, Holding, Core
  <2>2. CASE consumer.pc = "finishing"
      BY <1>1, <1>2, <2>2, ControlNow DEF DiskDone, Operation, Holding
  <2> QED
      BY <1>4, <2>1, <2>2, ControlNow DEF LockOwner
<1>5. CASE holder = Closer
    BY <1>1, <1>2, <1>5, ControlNow, Names DEF DiskDone, Operation, LockOwner, Closing
<1>6. holder # NoOne
    BY <1>1, ControlNow DEF DiskDone, Operation
<1> QED
    BY <1>3, <1>4, <1>5, <1>6, ControlNow

\* No message is lost (KeptUntilCompleted): only a completed turn removes the
\* file of its message.
THEOREM NoMessageIsLost == Spec => KeptUntilCompleted
<1>1. Core /\ [Next]_vars =>
        \A i \in Ids : (files[i] # "none" /\ files'[i] = "none")
                        => (consumer.msg = i /\ consumer.outcome = "completed")
    BY DiskChanges DEF FileAfter, Outcomes
<1> QED
    BY <1>1, CoreAlways, PTL DEF Spec, KeptUntilCompleted

\* No message is handed to a second turn, and a recorded outcome is final
\* (NeverReplayed), across failures, cancellations and shutdown.
THEOREM NoMessageRunsTwice == Spec => NeverReplayed
<1>1. Core /\ [Next]_vars => MovesOn
    BY DiskChanges DEF MovesOn, FileAfter, Outcomes, Retained
<1> QED
    BY <1>1, CoreAlways, PTL DEF Spec, NeverReplayed

\* The two together (MessagesKept): a message on disk is delivered once.
THEOREM MessagesStayKept == Spec => MessagesKept
    BY NoMessageIsLost, NoMessageRunsTwice, PTL DEF MessagesKept

-----------------------------------------------------------------------------
(* What a closed inbox leaves behind.                                      *)

\* The directory is there until it is removed, and it is removed only when the
\* closer, after the admissions, found nothing to report.
Settling ==
    /\ (owner \in {"serving", "stopping", "closing"} /\ ~dir)
          => fault \/ (closer.pc = "settle" /\ io.at = "done" /\ io.to = "rmdir")
    /\ closer.pc \in {"mark", "marked", "settle"} => AdmissionsDone
    /\ closer.pc = "settle" =>
          /\ Running = {}
          /\ io.to = "rmdir" <=> ((\A i \in Ids : entries[i] = "none") /\ ~rejected /\ ~fault)
          /\ (io.at = "done" /\ io.to = "rmdir") => ~dir

\* Once closing has joined the admissions, only the closer and its thread move.
LEMMA OnlyCloserMoves ==
    ASSUME Core, Next, owner \in {"closing", "closed"}, AdmissionsDone
    PROVE  CloserStep \/ DiskStep \/ UNCHANGED vars
<1>1. ASSUME NEW i \in Ids, AdmissionStep(i) PROVE FALSE
  <2>1. adm[i] \notin InFlight
      BY DEF AdmissionsDone, InFlight
  <2> QED
      BY <1>1, <2>1, AdmissionKinds, EntersInOrder, StoredFacts DEF InFlight
<1>2. ~ConsumerStep
  <2>1. consumer.pc \in {"off", "ended"}
      BY ControlNow DEF Closing
  <2> QED
      BY <2>1
      DEF ConsumerStep, ConsumerWaits, GetStops, GetWaits, GetWakes, GetClaims, Claimed,
          ClaimFails, TurnEnds, TurnAbsorbs, TurnInterrupted, FinishBegins, Finished, FinishFails
<1>3. ~OpenStep /\ ~Shutdown /\ ~ConsumerStarts /\ \A s \in Sizes : ~Arrive(s) /\ ~Reject(s)
    BY DEF OpenStep, OpenSucceeds, OpenFails, Shutdown, ConsumerStarts, Arrive, Reject
<1> QED
    BY <1>1, <1>2, <1>3 DEF Next, Over

LEMMA FaultStays == Typed /\ Next => (fault => fault')
<1> SUFFICES ASSUME Typed, Next, fault PROVE fault'
    OBVIOUS
<1>1. CASE OpenStep \/ Over \/ DiskStep \/ \E s \in Sizes : Arrive(s) \/ Reject(s)
    BY <1>1 DEF OpenStep, OpenSucceeds, OpenFails, Over, DiskStep, DiskDone, DiskFails,
                Arrive, Reject, vars
<1>2. CASE \E i \in Ids : AdmissionStep(i)
    BY <1>2 DEF AdmissionStep, AdmissionWaits, AdmissionWrites, AdmissionRefused, Stored,
                StoreFailed
<1>3. CASE ConsumerStarts \/ ConsumerStep
    BY <1>3 DEF ConsumerStarts, ConsumerStep, ConsumerWaits, GetStops, GetWaits, GetWakes,
                GetClaims, Claimed, ClaimFails, TurnEnds, TurnAbsorbs, TurnInterrupted,
                FinishBegins, Finished, FinishFails
<1>4. CASE Shutdown \/ CloserStep
    BY <1>4 DEF Shutdown, CloserStep, CloseBegins, CloseJoins, CloseUnopened, CloseMarked,
                CloseGoesOn, CloseEnds, CloseFails
<1> QED
    BY <1>1, <1>2, <1>3, <1>4 DEF Next

LEMMA DirectoryStays ==
    ASSUME Core, Next, ~DiskDone, ~OpenSucceeds
    PROVE  dir' = dir
<1>1. CASE OpenStep \/ Over \/ DiskStep \/ \E s \in Sizes : Arrive(s) \/ Reject(s)
    BY <1>1 DEF OpenStep, OpenFails, Over, DiskStep, DiskFails, Arrive, Reject, vars
<1>2. CASE \E i \in Ids : AdmissionStep(i)
    BY <1>2, AdmissionFrame
<1>3. CASE ConsumerStarts \/ ConsumerStep
    BY <1>3 DEF ConsumerStarts, ConsumerStep, ConsumerWaits, GetStops, GetWaits, GetWakes,
                GetClaims, Claimed, ClaimFails, TurnEnds, TurnAbsorbs, TurnInterrupted,
                FinishBegins, Finished, FinishFails
<1>4. CASE Shutdown \/ CloserStep
    BY <1>4 DEF Shutdown, CloserStep, CloseBegins, CloseJoins, CloseUnopened, CloseMarked,
                CloseGoesOn, CloseEnds, CloseFails
<1> QED
    BY <1>1, <1>2, <1>3, <1>4 DEF Next

\* The closer's next operation is the one its findings call for.
LEMMA SettlesRight ==
    ASSUME Core, Settles, UNCHANGED <<entries, adm, rejected, fault>>, AdmissionsDone
    PROVE  /\ AdmissionsDone' /\ io'.at = "busy"
           /\ closer'.pc = "settle" =>
                 /\ Running' = {}
                 /\ io'.to = "rmdir" <=>
                       ((\A i \in Ids : entries'[i] = "none") /\ ~rejected' /\ ~fault')
<1>1. AdmissionsDone' /\ Running' = Running
    BY DEF AdmissionsDone, Running
<1>2. CASE \E i \in Running : /\ closer' = [pc |-> "mark", id |-> i]
                             /\ Starts(Closer, i, "interrupted")
    BY <1>1, <1>2 DEF Starts
<1>3. CASE /\ Running = {}
           /\ Starts(Closer, NoId,
                     IF (\A i \in Ids : entries[i] = "none") /\ ~rejected /\ ~fault
                     THEN "rmdir" ELSE "manifest")
    BY <1>1, <1>3 DEF Starts
<1> QED
    BY <1>2, <1>3 DEF Settles

\* A disk operation that ends, under the closer or anybody else.
LEMMA SettlingDisk == Core /\ Settling /\ DiskStep => Settling'
<1> SUFFICES ASSUME Core, Settling, DiskStep PROVE Settling'
    OBVIOUS
<1>1. PICK a \in {"done", "failed"} :
         /\ UNCHANGED <<owner, fault, rejected, entries, adm, closer>>
         /\ io.at = "busy" /\ io' = [io EXCEPT !.at = a]
         /\ dir' <=> (dir /\ ~(a = "done" /\ io.to = "rmdir"))
  <2>1. CASE DiskDone
    <3>1. dir' <=> (dir /\ io.to # "rmdir")
        BY <2>1 DEF DiskDone
    <3> QED
        BY <2>1, <3>1 DEF DiskDone, books
  <2>2. CASE DiskFails
    <3>1. dir' <=> dir
        BY <2>2 DEF DiskFails
    <3> QED
        BY <2>2, <3>1 DEF DiskFails, books
  <2> QED
      BY <2>1, <2>2 DEF DiskStep
<1>2. io'.at = a /\ io'.to = io.to
    BY <1>1, ControlNow, IoFields
<1>3. AdmissionsDone' = AdmissionsDone /\ Running' = Running
    BY <1>1 DEF AdmissionsDone, Running
<1>4. io.to = "rmdir" => closer.pc = "settle"
  <2>1. holder # NoOne
      BY <1>1, ControlNow DEF Operation
  <2>2. CASE holder \in Ids
      BY <1>1, <2>2, ControlNow DEF Operation
  <2>3. CASE holder = Consumer
      BY <1>1, <2>3, ControlNow DEF Operation, LockOwner, Holding, FileAfter, Outcomes
  <2>4. CASE holder = Closer
      BY <1>1, <2>4, ControlNow DEF Operation, LockOwner
  <2> QED
      BY <2>1, <2>2, <2>3, <2>4, ControlNow
<1>5. ((owner \in {"serving", "stopping", "closing"} /\ ~dir)
         => fault \/ (closer.pc = "settle" /\ io.at = "done" /\ io.to = "rmdir"))'
    BY <1>1, <1>2, <1>4 DEF Settling
<1>6. (closer.pc \in {"mark", "marked", "settle"} => AdmissionsDone)'
    BY <1>1, <1>3 DEF Settling
<1>7. (closer.pc = "settle" =>
          /\ Running = {}
          /\ io.to = "rmdir" <=> ((\A i \in Ids : entries[i] = "none") /\ ~rejected /\ ~fault)
          /\ (io.at = "done" /\ io.to = "rmdir") => ~dir)'
    BY <1>1, <1>2, <1>3 DEF Settling
<1> QED
    BY <1>5, <1>6, <1>7 DEF Settling

LEMMA SettlingCloser == Core /\ Settling /\ CloserStep => Settling'
<1> SUFFICES ASSUME Core, Settling PROVE CloserStep => Settling'
    OBVIOUS
<1>a. closer.pc # "off" => owner = "closing"
    BY ControlNow DEF Closing
<1>1. ASSUME CloseBegins PROVE Settling'
    BY <1>1, ControlNow, CloserFields DEF CloseBegins, Settling, Closing
<1>2. ASSUME Settles, UNCHANGED <<owner, dir, fault, rejected, entries, adm>>, AdmissionsDone,
             closer.pc \in {"join", "marked"}
      PROVE  Settling'
  <2>1. /\ AdmissionsDone' /\ io'.at = "busy"
        /\ closer'.pc = "settle" =>
              /\ Running' = {}
              /\ io'.to = "rmdir" <=>
                    ((\A i \in Ids : entries'[i] = "none") /\ ~rejected' /\ ~fault')
      BY <1>2, SettlesRight
  <2> QED
      BY <1>2, <2>1 DEF Settling
<1>3. ASSUME CloseJoins \/ CloseGoesOn PROVE Settling'
    BY <1>2, <1>3 DEF CloseJoins, CloseGoesOn, Settling, books
<1>4. ASSUME CloseUnopened \/ CloseEnds \/ CloseFails PROVE Settling'
  <2>1. owner' = "closed" /\ closer'.pc = "off"
    <3>1. CASE CloseUnopened
        BY <3>1, ControlNow, CloserFields DEF CloseUnopened
    <3>2. CASE CloseEnds \/ CloseFails
        BY <3>2 DEF CloseEnds, CloseFails
    <3> QED
        BY <1>4, <3>1, <3>2
  <2> QED
      BY <2>1 DEF Settling
<1>5. ASSUME CloseMarked PROVE Settling'
  <2>1. /\ UNCHANGED <<owner, dir, fault, adm>> /\ closer.pc = "mark" /\ closer'.pc = "marked"
      BY <1>5, CloserFields DEF CloseMarked
  <2> QED
      BY <2>1 DEF Settling, AdmissionsDone
<1> QED
    BY <1>1, <1>3, <1>4, <1>5 DEF CloserStep

LEMMA SettlingStep == Core /\ Settling /\ [Next]_vars => Settling'
<1> SUFFICES ASSUME Core, Settling, [Next]_vars PROVE Settling'
    OBVIOUS
<1>1. CASE UNCHANGED vars
    BY <1>1 DEF vars, Settling, AdmissionsDone, Running
<1>2. CASE CloserStep \/ DiskStep
    BY <1>2, SettlingCloser, SettlingDisk
<1>3. CASE Next /\ ~CloserStep /\ ~DiskStep /\ ~UNCHANGED vars
  <2>1. closer.pc \notin {"mark", "marked", "settle"}
      BY <1>3, OnlyCloserMoves, ControlNow DEF Settling, Closing
  <2>2. closer' = closer
    <3>1. CASE ConsumerStarts \/ ConsumerStep \/ Shutdown
        BY <3>1 DEF ConsumerStarts, Shutdown, ConsumerStep, ConsumerWaits, GetStops, GetWaits,
           GetWakes, GetClaims, Claimed, ClaimFails, TurnEnds, TurnAbsorbs, TurnInterrupted,
           FinishBegins, Finished, FinishFails
    <3> QED
        BY <1>3, <3>1, ControlFrame
  <2>3. CASE OpenStep
      BY <2>1, <2>2, <2>3 DEF OpenStep, OpenSucceeds, OpenFails, Settling
  <2>4. CASE ~OpenStep
    <3>1. dir' = dir
        BY <1>3, <2>4, DirectoryStays DEF DiskStep, OpenStep
    <3>2. fault => fault'
        BY <1>3, FaultStays DEF Core
    <3>3. owner' = owner \/ (owner = "serving" /\ owner' = "stopping")
      <4>1. CASE ConsumerStarts \/ ConsumerStep \/ Shutdown
          BY <4>1 DEF ConsumerStarts, Shutdown, ConsumerStep, ConsumerWaits, GetStops, GetWaits,
             GetWakes, GetClaims, Claimed, ClaimFails, TurnEnds, TurnAbsorbs, TurnInterrupted,
             FinishBegins, Finished, FinishFails
      <4> QED
          BY <1>3, <2>4, <4>1, ControlFrame
    <3> QED
        BY <2>1, <2>2, <3>1, <3>2, <3>3 DEF Settling
  <2> QED
      BY <2>3, <2>4
<1> QED
    BY <1>1, <1>2, <1>3

\* An inbox that closed without a storage failure left nothing running or
\* half admitted, and removed its directory exactly when there was nothing in
\* it and no rejection to report (ClosedIsSettled).
THEOREM ClosingSettles == Spec => []ClosedIsSettled
<1>1. Init => Settling /\ ClosedIsSettled
    BY CloserFields DEF Init, Settling, ClosedIsSettled
<1>2. Core /\ Settling /\ ClosedIsSettled /\ [Next]_vars => ClosedIsSettled'
  <2> SUFFICES ASSUME Core, Settling, ClosedIsSettled, [Next]_vars, owner' = "closed", ~fault'
               PROVE  /\ AdmissionsDone'
                      /\ \A i \in Ids : files'[i] # "running"
                      /\ dir' <=> (rejected' \/ \E i \in Ids : files'[i] # "none")
      BY DEF ClosedIsSettled
  <2>a. ~fault
      BY FaultStays DEF Core, vars
  <2>1. CASE owner = "closed"
    <3>1. AdmissionsDone
        BY <2>1, <2>a DEF ClosedIsSettled
    <3>2. ~CloserStep
        BY <2>1, ControlNow DEF CloserStep, CloseBegins, CloseJoins, CloseUnopened, CloseMarked,
           CloseGoesOn, CloseEnds, CloseFails, Closing
    <3>3. ~DiskStep
      <4>1. holder = NoOne
          BY <2>1, <3>1, ControlNow DEF LockOwner, Closing, AdmissionsDone
      <4> QED
          BY <4>1, ControlNow DEF Operation, DiskStep, DiskDone, DiskFails
    <3>4. UNCHANGED vars
        BY <2>1, <3>1, <3>2, <3>3, OnlyCloserMoves
    <3> QED
        BY <2>1, <2>a, <3>4 DEF ClosedIsSettled, AdmissionsDone, vars
  <2>2. CASE owner # "closed"
    <3>1. CloseUnopened \/ CloseEnds
      <4>1. CASE ConsumerStarts \/ ConsumerStep \/ Shutdown
          BY <2>2, <4>1 DEF ConsumerStarts, Shutdown, ConsumerStep, ConsumerWaits, GetStops,
             GetWaits, GetWakes, GetClaims, Claimed, ClaimFails, TurnEnds, TurnAbsorbs,
             TurnInterrupted, FinishBegins, Finished, FinishFails
      <4>2. CASE CloserStep
          BY <2>2, <4>2 DEF CloserStep, CloseBegins, CloseJoins, CloseMarked, CloseGoesOn,
             CloseFails
      <4>3. CASE OpenStep
          BY <4>3 DEF OpenStep, OpenSucceeds, OpenFails
      <4> QED
          BY <2>2, <4>1, <4>2, <4>3, ControlFrame DEF vars
    <3>2. ~CloseUnopened
        BY <2>a, ControlNow DEF CloseUnopened, Settling, Closing
    <3>3. /\ CloseEnds /\ closer.pc = "settle" /\ io.at = "done" /\ owner = "closing"
        BY <3>1, <3>2, ControlNow DEF CloseEnds, Did, Closing
    <3>4. /\ AdmissionsDone /\ Running = {}
          /\ dir <=> io.to # "rmdir"
          /\ io.to = "rmdir" <=> ((\A i \in Ids : entries[i] = "none") /\ ~rejected)
        BY <2>a, <3>3 DEF Settling
    <3>5. files = entries
        BY <3>3, ControlNow DEF Core, DiskMatchesEntries, Operation
    <3>6. UNCHANGED <<files, dir, rejected, adm>>
        BY <3>3 DEF CloseEnds
    <3> QED
        BY <3>4, <3>5, <3>6 DEF AdmissionsDone, Running
  <2> QED
      BY <2>1, <2>2
<1> QED
    BY <1>1, <1>2, SettlingStep, CoreAlways, PTL DEF Spec
-----------------------------------------------------------------------------
(* The byte counters.                                                      *)

\* Induction on the naturals up to a bound, for the members of a set.
LEMMA CountUp ==
    ASSUME NEW N \in Nat, NEW H, 0 \in H, \A n \in 0 .. N - 1 : n \in H => n + 1 \in H
    PROVE  \A n \in 0 .. N : n \in H
<1> DEFINE T == {n \in 0 .. N : n \notin H}
<1> SUFFICES ASSUME T # {} PROVE FALSE
  OBVIOUS
<1>1. T \subseteq Nat /\ T # {}
  OBVIOUS
<1>2. \E x \in T : \A y \in T : <<y, x>> \notin OpToRel(<, Nat)
  <2> HIDE DEF T
  <2> QED
    BY <1>1, WFMin, NatLessThanWellFounded, Zenon
<1>3. PICK x \in T : \A y \in T : <<y, x>> \notin OpToRel(<, Nat)
  BY ONLY <1>2, Zenon
<1>4. \A y \in T : ~(y < x)
  <2> HIDE DEF T
  <2>1. \A y \in T : y \in Nat /\ x \in Nat
    BY <1>1
  <2> QED
    BY ONLY <1>3, <2>1, Zenon DEF OpToRel
<1>5. x # 0 /\ x \in 0 .. N /\ x \notin H
  OBVIOUS
<1>6. x - 1 \in 0 .. N - 1 /\ x - 1 + 1 = x
  BY <1>5
<1>7. x - 1 \notin H
  BY <1>5, <1>6
<1>8. x - 1 \in T
  BY <1>6, <1>7
<1> QED
  BY <1>4, <1>8, <1>5

TotalStep(w, ids, f, n) ==
    IF n = 0 THEN 0 ELSE f[n - 1] + (IF n \in ids THEN w[n] ELSE 0)

\* The function by which Total is defined exists.
LEMMA TotalUnfolds ==
    ASSUME NEW w, NEW ids
    PROVE  \E f : /\ f = [n \in 0 .. MaxId |-> TotalStep(w, ids, f, n)]
                  /\ Total(w, ids) = f[MaxId]
<1> MaxId \in Nat
  BY InboxConstants DEF InboxConstants
<1> DEFINE H == {m \in 0 .. MaxId : \E f : f = [n \in 0 .. m |-> TotalStep(w, ids, f, n)]}
<1>1. 0 \in H
  <2> DEFINE g == [n \in 0 .. 0 |-> 0]
  <2>1. g = [n \in 0 .. 0 |-> TotalStep(w, ids, g, n)]
    BY DEF TotalStep
  <2> QED
    BY <2>1
<1>2. ASSUME NEW m \in 0 .. MaxId - 1, m \in H
      PROVE  m + 1 \in H
  <2>1. PICK f : f = [n \in 0 .. m |-> TotalStep(w, ids, f, n)]
    BY <1>2
  <2> DEFINE g == [n \in 0 .. m + 1 |-> IF n = m + 1 THEN TotalStep(w, ids, f, n) ELSE f[n]]
  <2>2. \A n \in 0 .. m + 1 : g[n] = TotalStep(w, ids, g, n)
    <3> SUFFICES ASSUME NEW n \in 0 .. m + 1 PROVE g[n] = TotalStep(w, ids, g, n)
      OBVIOUS
    <3>1. CASE n = 0
      BY <2>1, <3>1 DEF TotalStep
    <3>2. CASE n # 0
      <4>1. n - 1 \in 0 .. m /\ n - 1 \in 0 .. m + 1 /\ n - 1 # m + 1
        BY <3>2
      <4>2. g[n - 1] = f[n - 1]
        BY <4>1
      <4>3. TotalStep(w, ids, g, n) = TotalStep(w, ids, f, n)
        BY <4>2 DEF TotalStep
      <4>4. g[n] = TotalStep(w, ids, f, n)
        BY <2>1
      <4> QED
        BY <4>3, <4>4
    <3> QED
      BY <3>1, <3>2
  <2>3. g = [n \in 0 .. m + 1 |-> TotalStep(w, ids, g, n)]
    BY <2>2
  <2>4. m + 1 \in 0 .. MaxId
    OBVIOUS
  <2> QED
    BY <2>3, <2>4
<1>3. MaxId \in H
  <2> HIDE DEF H
  <2>1. \A m \in 0 .. MaxId : m \in H
    BY ONLY <1>1, <1>2, CountUp, MaxId \in Nat
  <2> QED
    BY <2>1
<1>4. PICK f : f = [n \in 0 .. MaxId |-> TotalStep(w, ids, f, n)]
  BY <1>3
<1> DEFINE h == CHOOSE g : g = [n \in 0 .. MaxId |-> TotalStep(w, ids, g, n)]
<1>5. h = [n \in 0 .. MaxId |-> TotalStep(w, ids, h, n)]
  BY <1>4
<1>6. Total(w, ids) = h[MaxId]
  BY DEF Total, TotalStep
<1> QED
  BY <1>5, <1>6

\* Nothing weighs nothing.
LEMMA TotalNone == ASSUME NEW w PROVE Total(w, {}) = 0
<1>1. MaxId \in Nat
  BY InboxConstants DEF InboxConstants
<1>2. PICK f : f = [n \in 0 .. MaxId |-> TotalStep(w, {}, f, n)] /\ Total(w, {}) = f[MaxId]
  BY TotalUnfolds
<1> DEFINE H == {n \in 0 .. MaxId : f[n] = 0}
<1>3. 0 \in H
  BY <1>1, <1>2 DEF TotalStep
<1>4. ASSUME NEW n \in 0 .. MaxId - 1, n \in H PROVE n + 1 \in H
  BY <1>1, <1>2, <1>4 DEF TotalStep
<1>5. MaxId \in H
  <2> HIDE DEF H
  <2>1. \A n \in 0 .. MaxId : n \in H
    BY ONLY <1>1, <1>3, <1>4, CountUp
  <2> QED
    BY <1>1, <2>1
<1> QED
  BY <1>2, <1>5

\* The total of some messages depends on their own weights.
LEMMA TotalSame ==
    ASSUME NEW v \in [Ids -> Nat], NEW w \in [Ids -> Nat], NEW S, \A j \in S \cap Ids : w[j] = v[j]
    PROVE  Total(w, S) = Total(v, S) /\ Total(v, S) \in Nat
<1>1. MaxId \in Nat
  BY InboxConstants DEF InboxConstants
<1>2. PICK f : f = [n \in 0 .. MaxId |-> TotalStep(v, S, f, n)] /\ Total(v, S) = f[MaxId]
  BY TotalUnfolds
<1>3. PICK g : g = [n \in 0 .. MaxId |-> TotalStep(w, S, g, n)] /\ Total(w, S) = g[MaxId]
  BY TotalUnfolds
<1> DEFINE H == {n \in 0 .. MaxId : f[n] \in Nat /\ g[n] = f[n]}
<1>4. 0 \in H
  BY <1>1, <1>2, <1>3 DEF TotalStep
<1>5. ASSUME NEW n \in 0 .. MaxId - 1, n \in H PROVE n + 1 \in H
  <2>1. n + 1 \in 0 .. MaxId /\ n + 1 # 0 /\ n + 1 - 1 = n /\ n + 1 \in Ids
    BY <1>1 DEF Ids
  <2>2. f[n + 1] = TotalStep(v, S, f, n + 1) /\ g[n + 1] = TotalStep(w, S, g, n + 1)
    BY <1>2, <1>3, <2>1
  <2>3. v[n + 1] \in Nat /\ (n + 1 \in S => w[n + 1] = v[n + 1])
    BY <2>1
  <2> QED
    BY <1>5, <2>1, <2>2, <2>3 DEF TotalStep
<1>6. MaxId \in H
  <2> HIDE DEF H
  <2>1. \A n \in 0 .. MaxId : n \in H
    BY ONLY <1>1, <1>4, <1>5, CountUp
  <2> QED
    BY <1>1, <2>1
<1> QED
  BY <1>2, <1>3, <1>6

\* One more message adds its weight.
LEMMA TotalMore ==
    ASSUME NEW w \in [Ids -> Nat], NEW S, NEW i \in Ids, i \notin S
    PROVE  Total(w, S \cup {i}) = Total(w, S) + w[i]
<1> DEFINE T == S \cup {i}
<1>1. MaxId \in Nat /\ i \in 1 .. MaxId /\ w[i] \in Nat
  BY InboxConstants DEF InboxConstants, Ids
<1>2. PICK f : f = [n \in 0 .. MaxId |-> TotalStep(w, S, f, n)] /\ Total(w, S) = f[MaxId]
  BY TotalUnfolds
<1>3. PICK g : g = [n \in 0 .. MaxId |-> TotalStep(w, T, g, n)] /\ Total(w, T) = g[MaxId]
  BY TotalUnfolds
<1> DEFINE H == {n \in 0 .. MaxId : f[n] \in Nat /\ g[n] = f[n] + (IF i <= n THEN w[i] ELSE 0)}
<1>4. 0 \in H
  BY <1>1, <1>2, <1>3 DEF TotalStep
<1>5. ASSUME NEW n \in 0 .. MaxId - 1, n \in H PROVE n + 1 \in H
  <2>1. n + 1 \in 0 .. MaxId /\ n + 1 # 0 /\ n + 1 - 1 = n /\ n + 1 \in Ids
    BY <1>1 DEF Ids
  <2>2. f[n + 1] = TotalStep(w, S, f, n + 1) /\ g[n + 1] = TotalStep(w, T, g, n + 1)
    BY <1>2, <1>3, <2>1
  <2>3. w[n + 1] \in Nat
    BY <2>1
  <2>4. CASE n + 1 = i
    BY <1>1, <1>5, <2>1, <2>2, <2>3, <2>4 DEF TotalStep
  <2>5. CASE n + 1 # i
    <3>1. (i <= n + 1) = (i <= n) /\ (n + 1 \in T) = (n + 1 \in S)
      BY <1>1, <2>1, <2>5
    <3> QED
      BY <1>1, <1>5, <2>1, <2>2, <2>3, <3>1 DEF TotalStep
  <2> QED
    BY <2>4, <2>5
<1>6. MaxId \in H
  <2> HIDE DEF H
  <2>1. \A n \in 0 .. MaxId : n \in H
    BY ONLY <1>1, <1>4, <1>5, CountUp
  <2> QED
    BY <1>1, <2>1
<1> QED
  BY <1>1, <1>2, <1>3, <1>6

\* What the counters are once one message more is counted, or one less.
LEMMA CountersMove ==
    ASSUME Core, NEW S, NEW i \in Ids, i \notin S
    PROVE  /\ size[i] \in Nat /\ Total(size, S) \in Nat
           /\ Total(size, S \cup {i}) = Total(size, S) + size[i]
<1> size \in [Ids -> Nat]
  BY DEF Core, Typed
<1> QED
  BY TotalMore, TotalSame

LEMMA CountersStart == Init => BytesExact
<1> SUFFICES ASSUME Init PROVE BytesExact
  OBVIOUS
<1>1. /\ {i \in Ids : entries[i] # "none"} = {} /\ reserved = {}
      /\ {i \in Ids : adm[i] \in {"created", "queued", "writing"}} = {}
  BY DEF Init
<1>2. bytes = 0 /\ reservedBytes = 0
  BY DEF Init
<1> QED
  BY <1>1, <1>2, TotalNone DEF BytesExact

\* Every step that changes an entry, a reservation or a size counts it once.
LEMMA CountersStep ==
    ASSUME Core, BytesExact, Core', [Next]_vars
    PROVE  BytesExact'
<1>1. /\ reserved = {i \in Ids : adm[i] \in {"created", "queued", "writing"}}
      /\ (reserved = {i \in Ids : adm[i] \in {"created", "queued", "writing"}})'
  BY DEF Core, Arrivals, InFlight
<1>2. /\ bytes = Total(size, Kept) /\ reservedBytes = Total(size, reserved)
      /\ bytes \in Int /\ reservedBytes \in Int
  BY DEF BytesExact, Kept, Core, Typed
<1>3. /\ size \in [Ids -> Nat] /\ entries \in [Ids -> EntryStates]
      /\ size' \in [Ids -> Nat] /\ Kept \subseteq Ids /\ reserved \subseteq Ids
  BY DEF Core, Typed, Kept
<1> DEFINE Counted == bytes' = Total(size', Kept') /\ reservedBytes' = Total(size', reserved')
<1>4. ASSUME NEW s \in Sizes, Arrive(s) PROVE Counted
  <2>1. /\ nextId \in Ids /\ nextId \notin reserved /\ nextId \notin Kept
        /\ Kept' = Kept /\ reserved' = reserved \cup {nextId}
    BY <1>4, Names DEF Arrive, Kept, Core, Arrivals, InFlight
  <2>2. /\ size' = [size EXCEPT ![nextId] = s] /\ bytes' = bytes
        /\ reservedBytes' = reservedBytes + s
    BY <1>4 DEF Arrive
  <2>3. /\ size'[nextId] = s /\ \A j \in Ids : j # nextId => size'[j] = size[j]
    BY <1>3, <2>1, <2>2
  <2>4. Total(size', Kept) = Total(size, Kept) /\ Total(size', reserved) = Total(size, reserved)
    BY <1>3, <2>1, <2>3, TotalSame
  <2>5. Total(size', reserved \cup {nextId}) = Total(size', reserved) + s
    BY <1>3, <2>1, <2>3, TotalMore
  <2> QED
    BY <1>2, <2>1, <2>2, <2>4, <2>5
<1>5. ASSUME NEW i \in Ids, Released(i), i \in reserved, size' = size
      PROVE  reservedBytes' = Total(size', reserved') /\ reservedBytes' = reservedBytes - size[i]
  <2>1. reserved' = reserved \ {i} /\ reservedBytes' = reservedBytes - size[i]
    BY <1>5 DEF Released
  <2>2. reserved = (reserved \ {i}) \cup {i} /\ i \notin reserved \ {i}
    BY <1>5
  <2> DEFINE less == reserved \ {i}
  <2> HIDE DEF less
  <2>3. /\ Total(size, less \cup {i}) = Total(size, less) + size[i]
        /\ Total(size, less) \in Nat /\ size[i] \in Nat
    BY <2>2, CountersMove DEF less
  <2>4. reservedBytes = Total(size, less) + size[i] /\ reserved' = less
    BY <1>2, <2>1, <2>2, <2>3 DEF less
  <2>5. reservedBytes - size[i] = Total(size, less)
    BY <2>3, <2>4
  <2> QED
    BY <1>5, <2>1, <2>4, <2>5
<1>6. ASSUME NEW i \in Ids, AdmissionStep(i) PROVE Counted
  <2>1. size' = size
    BY <1>6, AdmissionFrame
  <2>2. CASE Stored(i)
    <3>1. /\ i \notin Kept /\ Kept' = Kept \cup {i} /\ i \in reserved
      BY <1>3, <2>2, StoredFacts DEF Kept
    <3>2. bytes' = bytes + size[i] /\ Released(i)
      BY <2>2 DEF Stored
    <3>3. Total(size, Kept \cup {i}) = Total(size, Kept) + size[i]
      BY <3>1, CountersMove
    <3> QED
      BY <1>2, <1>5, <2>1, <3>1, <3>2, <3>3
  <2>3. CASE AdmissionRefused(i) \/ StoreFailed(i)
    <3>1. adm[i] \in {"created", "queued", "writing"}
      BY <2>3, EntersInOrder DEF AdmissionRefused, StoreFailed, Failed, Core, LockOwner
    <3>2. i \in reserved /\ Released(i) /\ bytes' = bytes /\ Kept' = Kept
      BY <1>1, <2>3, <3>1 DEF AdmissionRefused, StoreFailed, Kept
    <3> QED
      BY <1>2, <1>5, <2>1, <3>2
  <2>4. CASE AdmissionWaits(i) \/ AdmissionWrites(i)
    <3>1. UNCHANGED <<bytes, reservedBytes, reserved>> /\ Kept' = Kept
      BY <2>4 DEF AdmissionWaits, AdmissionWrites, books, Kept
    <3> QED
      BY <1>2, <2>1, <3>1
  <2> QED
    BY <1>6, <2>2, <2>3, <2>4 DEF AdmissionStep
<1>7. ASSUME Claimed \/ CloseMarked PROVE Counted
  <2>1. size' = size /\ bytes' = bytes /\ reservedBytes' = reservedBytes /\ reserved' = reserved
    BY <1>7, ClaimedFacts, MarkedFacts
  <2>2. Kept' = Kept
    BY <1>3, <1>7, ClaimedFacts, MarkedFacts DEF Kept
  <2> QED
    BY <1>2, <2>1, <2>2
<1>8. ASSUME Finished PROVE Counted
  <2> DEFINE i == consumer.msg
  <2>1. /\ i \in Ids /\ entries[i] = "running" /\ consumer.outcome \in Outcomes
        /\ entries' = [entries EXCEPT ![i] = FileAfter(consumer.outcome)]
        /\ size' = size /\ reservedBytes' = reservedBytes /\ reserved' = reserved
    BY <1>8, FinishedFacts
  <2>2. bytes' = IF consumer.outcome = "completed" THEN bytes - size[i] ELSE bytes
    BY <1>8 DEF Finished
  <2>3. FileAfter(consumer.outcome) = "none" <=> consumer.outcome = "completed"
    BY <2>1 DEF FileAfter, Outcomes
  <2> DEFINE less == Kept \ {i}
  <2>4. /\ Kept = less \cup {i} /\ i \notin less
        /\ Kept' = IF consumer.outcome = "completed" THEN less ELSE Kept
    BY <1>3, <2>1, <2>3 DEF Kept
  <2> HIDE DEF i, less
  <2>5. /\ Total(size, less \cup {i}) = Total(size, less) + size[i]
        /\ Total(size, less) \in Nat /\ size[i] \in Nat
    BY <2>1, <2>4, CountersMove
  <2>6. bytes = Total(size, less) + size[i]
    BY <1>2, <2>4, <2>5
  <2>7. bytes - size[i] = Total(size, less)
    BY <2>5, <2>6
  <2> QED
    BY <1>2, <2>1, <2>2, <2>4, <2>7
<1>9. ASSUME UNCHANGED <<books, adm>> \/ UNCHANGED vars PROVE Counted
  <2>1. /\ size' = size /\ bytes' = bytes /\ reservedBytes' = reservedBytes
        /\ reserved' = reserved /\ Kept' = Kept
    BY <1>9 DEF books, vars, Kept
  <2> QED
    BY <1>2, <2>1
<1>10. Counted
  <2> HIDE DEF Counted
  <2> QED
    BY <1>4, <1>6, <1>7, <1>8, <1>9, BooksFrame
<1> QED
  BY <1>1, <1>10 DEF BytesExact, Kept

\* For any limits, sizes and number of messages: the inbox's state keeps its
\* types, and its byte counters are exactly the sizes of the records it retains
\* and of those it is admitting, whatever fails or is cancelled (TypeOK;
\* _release_reservation, finish and the writes of admit).
THEOREM CountersStayExact == Spec => []TypeOK
<1>1. Core /\ BytesExact /\ Core' /\ [Next]_vars => BytesExact'
  BY CountersStep
<1>2. Core /\ BytesExact => TypeOK
  BY DEF Core, TypeOK
<1> QED
  BY <1>1, <1>2, CountersStart, CoreAlways, PTL DEF Spec

===============================================================================
