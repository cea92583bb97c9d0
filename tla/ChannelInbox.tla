----------------------------- MODULE ChannelInbox -----------------------------
(***************************************************************************)
(* The disk inbox of channel messages (channels/inbox.py), the consumer    *)
(* that turns them into model turns and the shutdown that joins both       *)
(* (session_flow.py).                                                      *)
(*                                                                         *)
(* Everything runs on one event loop.  Disk operations run in a thread     *)
(* while their owner holds the inbox lock: one action starts an operation, *)
(* one lets the thread finish it, one lets the loop apply the result, and  *)
(* any other task may run in between.                                      *)
(*                                                                         *)
(* Message contents, digests and reasons are left out; a payload altered   *)
(* on disk is a failed claim.  No message arrives and no delivery is       *)
(* finished once the inbox is closing, because the owner unregisters the   *)
(* callback and joins the consumer first: the code's own refusals of such  *)
(* calls are not modelled.                                                 *)
(***************************************************************************)
EXTENDS Integers, FiniteSets, Sequences

CONSTANTS
    MaxId,           \* bound: messages that arrive
    Sizes,           \* sizes of their records
    MaxMessages,     \* ChannelInboxLimits.max_messages
    MaxBytes,        \* ChannelInboxLimits.max_bytes
    MaxMessageBytes, \* ChannelInboxLimits.max_message_bytes
    EscapeListener   \* turns listen for ESC: stdin is a terminal

Ids == 1 .. MaxId
NoId == 0
Outcomes == {"completed", "failed", "cancelled", "interrupted"}
Retained == {"pending", "running", "failed", "cancelled", "interrupted"}
EntryStates == Retained \cup {"none"}

\* Who may hold the lock besides the admission of an id.
NoOne == 0
Consumer == -1
Closer == -2

ASSUME InboxConstants ==
    /\ MaxId \in Nat
    /\ Sizes \subseteq Nat \ {0}
    /\ MaxMessages \in Nat \ {0} /\ MaxMessageBytes \in Nat \ {0}
    /\ MaxBytes \in Nat /\ MaxMessageBytes <= MaxBytes
    /\ EscapeListener \in BOOLEAN

VARIABLES
    owner,          \* phase of the session that owns the inbox
    dir,            \* the run directory exists
    fault,          \* _fault is set
    rejected,       \* some arrival was rejected
    files,          \* files[i]: the state in the name of i's file, "none" if there is none
    entries,        \* _entries
    size,           \* size of i's record
    pending,        \* _pending
    nextId,
    reserved,       \* _reservations
    reservedBytes,
    bytes,
    adm,            \* adm[i]: i's admission task
    holder,         \* who holds the inbox lock
    io,             \* the disk operation of the holder
    ready,          \* the _ready event
    consumer,       \* the consumer task
    closer          \* the _close task

vars == <<owner, dir, fault, rejected, files, entries, size, pending, nextId, reserved,
          reservedBytes, bytes, adm, holder, io, ready, consumer, closer>>
books == <<entries, size, pending, nextId, reserved, reservedBytes, bytes>>

NoIo == [at |-> "idle", id |-> NoId, to |-> "none"]
Off == [pc |-> "off", msg |-> NoId, outcome |-> "none", cancel |-> FALSE,
        queued |-> FALSE, ahead |-> {}]

Init ==
    /\ owner = "opening" /\ dir = FALSE /\ fault = FALSE /\ rejected = FALSE
    /\ files = [i \in Ids |-> "none"]
    /\ entries = [i \in Ids |-> "none"]
    /\ size = [i \in Ids |-> 0]
    /\ pending = <<>> /\ nextId = 1
    /\ reserved = {} /\ reservedBytes = 0 /\ bytes = 0
    /\ adm = [i \in Ids |-> "none"]
    /\ holder = NoOne /\ io = NoIo /\ ready = FALSE
    /\ consumer = Off
    /\ closer = [pc |-> "off", id |-> NoId]

-----------------------------------------------------------------------------
(* The lock: asyncio.Lock hands itself to its waiters in the order in      *)
(* which they came.  Admission tasks start in the order of their creation, *)
(* so only the consumer's place among them has to be remembered.           *)

Queued == {i \in Ids : adm[i] = "queued"}
Free == holder = NoOne /\ Queued = {} /\ ~consumer.queued

\* Admission i is the next one to run its first step.
StartsNext(i) == adm[i] = "created" /\ \A j \in Ids : j < i => adm[j] # "created"

AdmissionMayEnter(i) ==
    \/ StartsNext(i) /\ Free
    \/ /\ adm[i] = "queued" /\ holder = NoOne
       /\ \A j \in Queued : i <= j
       /\ consumer.queued => i \in consumer.ahead

ConsumerMayEnter ==
    IF consumer.queued THEN holder = NoOne /\ consumer.ahead \cap Queued = {} ELSE Free

AdmissionWaits(i) ==
    /\ StartsNext(i) /\ ~Free
    /\ adm' = [adm EXCEPT ![i] = "queued"]
    /\ UNCHANGED <<owner, dir, fault, rejected, files, books, holder, io, ready, consumer, closer>>

ConsumerWaits ==
    /\ consumer.pc \in {"get", "finish"} /\ ~consumer.queued /\ ~Free
    /\ consumer' = [consumer EXCEPT !.queued = TRUE, !.ahead = Queued]
    /\ UNCHANGED <<owner, dir, fault, rejected, files, books, adm, holder, io, ready, closer>>

\* Process p has the lock and its operation on i's file runs in a thread.
Starts(p, i, to) ==
    /\ holder' = p
    /\ io' = [at |-> "busy", id |-> i, to |-> to]

Releases == holder' = NoOne /\ io' = NoIo

-----------------------------------------------------------------------------
(* Disk operations: atomic replacements, renames and removals, which       *)
(* happen or fail as a whole.                                              *)

DiskDone ==
    /\ io.at = "busy"
    /\ io' = [io EXCEPT !.at = "done"]
    /\ files' = IF io.id = NoId THEN files ELSE [files EXCEPT ![io.id] = io.to]
    /\ dir' = (dir /\ io.to # "rmdir")
    /\ UNCHANGED <<owner, fault, rejected, books, adm, holder, ready, consumer, closer>>

DiskFails ==
    /\ io.at = "busy"
    /\ io' = [io EXCEPT !.at = "failed"]
    /\ UNCHANGED <<owner, dir, fault, rejected, files, books, adm, holder, ready, consumer, closer>>

Did(p) == holder = p /\ io.at = "done"
Failed(p) == holder = p /\ io.at = "failed"

-----------------------------------------------------------------------------
(* Opening.                                                                *)

OpenSucceeds ==
    /\ owner = "opening"
    /\ owner' = "serving" /\ dir' = TRUE
    /\ UNCHANGED <<fault, rejected, files, books, adm, holder, io, ready, consumer, closer>>

\* The session gives up and shuts down; there is no consumer to stop.
OpenFails ==
    /\ owner = "opening"
    /\ owner' = "stopping" /\ fault' = TRUE /\ ready' = TRUE
    /\ UNCHANGED <<dir, rejected, files, books, adm, holder, io, consumer, closer>>

-----------------------------------------------------------------------------
(* Arrivals.                                                               *)

\* Mutation: Capacity counts what is stored and forgets what is being admitted.
AdmissibleStored(s) ==
    /\ ~fault
    /\ Cardinality({i \in Ids : entries[i] # "none"}) < MaxMessages
    /\ s <= MaxMessageBytes
    /\ bytes + s <= MaxBytes

Admissible(s) ==
    /\ ~fault
    /\ Cardinality({i \in Ids : entries[i] # "none"}) + Cardinality(reserved) < MaxMessages
    /\ s <= MaxMessageBytes
    /\ bytes + reservedBytes + s <= MaxBytes

Arrive(s) ==
    /\ owner = "serving" /\ nextId \in Ids
    /\ Admissible(s)
    /\ nextId' = nextId + 1
    /\ size' = [size EXCEPT ![nextId] = s]
    /\ reserved' = reserved \cup {nextId}
    /\ reservedBytes' = reservedBytes + s
    /\ adm' = [adm EXCEPT ![nextId] = "created"]
    /\ UNCHANGED <<owner, dir, fault, rejected, files, entries, pending, bytes, holder, io,
                   ready, consumer, closer>>

Reject(s) ==
    /\ owner = "serving" /\ nextId \in Ids
    /\ ~Admissible(s)
    /\ rejected' = TRUE
    /\ UNCHANGED <<owner, dir, fault, files, books, adm, holder, io, ready, consumer, closer>>

\* _release_reservation, safe to call twice.
Released(i) ==
    /\ reserved' = reserved \ {i}
    /\ reservedBytes' = IF i \in reserved THEN reservedBytes - size[i] ELSE reservedBytes

AdmissionWrites(i) ==
    /\ AdmissionMayEnter(i) /\ ~fault
    /\ adm' = [adm EXCEPT ![i] = "writing"]
    /\ Starts(i, i, "pending")
    /\ UNCHANGED <<owner, dir, fault, rejected, files, books, ready, consumer, closer>>

AdmissionRefused(i) ==
    /\ AdmissionMayEnter(i) /\ fault
    /\ adm' = [adm EXCEPT ![i] = "refused"]
    /\ rejected' = TRUE
    /\ Released(i)
    /\ UNCHANGED <<owner, dir, fault, files, entries, size, pending, nextId, bytes, holder, io,
                   ready, consumer, closer>>

Stored(i) ==
    /\ Did(i) /\ Releases
    /\ Released(i)
    /\ entries' = [entries EXCEPT ![i] = "pending"]
    /\ pending' = Append(pending, i)
    /\ bytes' = bytes + size[i]
    /\ adm' = [adm EXCEPT ![i] = "stored"]
    /\ ready' = TRUE
    /\ UNCHANGED <<owner, dir, fault, rejected, files, size, nextId, consumer, closer>>

StoreFailed(i) ==
    /\ Failed(i) /\ Releases
    /\ Released(i)
    /\ adm' = [adm EXCEPT ![i] = "refused"]
    /\ rejected' = TRUE /\ fault' = TRUE /\ ready' = TRUE
    /\ UNCHANGED <<owner, dir, files, entries, size, pending, nextId, bytes, consumer, closer>>

-----------------------------------------------------------------------------
(* The consumer.                                                           *)

ConsumerStarts ==
    /\ owner = "serving" /\ consumer.pc = "off"
    /\ consumer' = [consumer EXCEPT !.pc = "get"]
    /\ UNCHANGED <<owner, dir, fault, rejected, files, books, adm, holder, io, ready, closer>>

\* The consumer goes on to pc, out of the lock's queue; msg and outcome stay.
Goes(pc) == [consumer EXCEPT !.pc = pc, !.queued = FALSE, !.ahead = {}]

GetStops ==
    /\ consumer.pc = "get" /\ ConsumerMayEnter /\ fault
    /\ consumer' = Goes("ended")
    /\ UNCHANGED <<owner, dir, fault, rejected, files, books, adm, holder, io, ready, closer>>

GetWaits ==
    /\ consumer.pc = "get" /\ ConsumerMayEnter /\ ~fault /\ pending = <<>>
    /\ ready' = FALSE
    /\ consumer' = Goes("idle")
    /\ UNCHANGED <<owner, dir, fault, rejected, files, books, adm, holder, io, closer>>

GetWakes ==
    /\ consumer.pc = "idle" /\ ready
    /\ consumer' = Goes("get")
    /\ UNCHANGED <<owner, dir, fault, rejected, files, books, adm, holder, io, ready, closer>>

\* Mutation: The newest message is taken first.
NewestMessage == pending[Len(pending)]

NextMessage == Head(pending)

GetClaims ==
    /\ consumer.pc = "get" /\ ConsumerMayEnter /\ ~fault /\ pending # <<>>
    /\ consumer' = [Goes("claim") EXCEPT !.msg = NextMessage]
    /\ Starts(Consumer, NextMessage, "running")
    /\ UNCHANGED <<owner, dir, fault, rejected, files, books, adm, ready, closer>>

\* A consumer cancelled during its claim ends after it: the message stays claimed.
Claimed ==
    /\ consumer.pc = "claim" /\ Did(Consumer) /\ Releases
    /\ pending' = Tail(pending)
    /\ entries' = [entries EXCEPT ![consumer.msg] = "running"]
    /\ consumer' = Goes(IF consumer.cancel THEN "ended" ELSE "turn")
    /\ UNCHANGED <<owner, dir, fault, rejected, files, size, nextId, reserved, reservedBytes,
                   bytes, adm, ready, closer>>

\* Mutation: The queue is popped before the claim is known to have succeeded.
ClaimFailsPopped ==
    /\ consumer.pc = "claim" /\ Failed(Consumer) /\ Releases
    /\ fault' = TRUE /\ ready' = TRUE
    /\ pending' = Tail(pending)
    /\ consumer' = [Goes("ended") EXCEPT !.msg = NoId]
    /\ UNCHANGED <<owner, dir, rejected, files, entries, size, nextId, reserved, reservedBytes,
                   bytes, adm, closer>>

ClaimFails ==
    /\ consumer.pc = "claim" /\ Failed(Consumer) /\ Releases
    /\ fault' = TRUE /\ ready' = TRUE
    /\ consumer' = [Goes("ended") EXCEPT !.msg = NoId]
    /\ UNCHANGED <<owner, dir, rejected, files, books, adm, closer>>

TurnEnds(outcome) ==
    /\ consumer.pc = "turn" /\ ~consumer.cancel
    /\ outcome # "interrupted"
    /\ consumer' = [Goes("finish") EXCEPT !.outcome = outcome]
    /\ UNCHANGED <<owner, dir, fault, rejected, files, books, adm, holder, io, ready, closer>>

TurnInterrupted ==
    /\ consumer.pc = "turn" /\ consumer.cancel
    /\ consumer' = [Goes("finish") EXCEPT !.outcome = "interrupted"]
    /\ UNCHANGED <<owner, dir, fault, rejected, files, books, adm, holder, io, ready, closer>>

\* The turn consumes the cancellation and returns: it was being cancelled with
\* ESC, or it was joining its ESC listener.
TurnAbsorbs(outcome) ==
    /\ EscapeListener
    /\ consumer.pc = "turn" /\ consumer.cancel
    /\ outcome # "interrupted"
    /\ consumer' = [Goes("finish") EXCEPT !.outcome = outcome, !.cancel = FALSE]
    /\ UNCHANGED <<owner, dir, fault, rejected, files, books, adm, holder, io, ready, closer>>

\* Mutation: A failed delivery is unlinked.
FileAfterDropped(outcome) == IF outcome \in {"completed", "failed"} THEN "none" ELSE outcome

\* The state in which an outcome leaves its file: completed ones are unlinked.
FileAfter(outcome) == IF outcome = "completed" THEN "none" ELSE outcome

FinishBegins ==
    /\ consumer.pc = "finish" /\ ConsumerMayEnter
    /\ consumer' = Goes("finishing")
    /\ Starts(Consumer, consumer.msg, FileAfter(consumer.outcome))
    /\ UNCHANGED <<owner, dir, fault, rejected, files, books, adm, ready, closer>>

\* Mutation: A finished delivery keeps its bytes.
FinishedKeepsBytes ==
    /\ consumer.pc = "finishing" /\ Did(Consumer) /\ Releases
    /\ entries' = [entries EXCEPT ![consumer.msg] = FileAfter(consumer.outcome)]
    /\ consumer' = [Goes(IF consumer.cancel THEN "ended" ELSE "get")
                        EXCEPT !.msg = NoId, !.outcome = "none"]
    /\ UNCHANGED <<owner, dir, fault, rejected, files, size, pending, nextId, reserved,
                   reservedBytes, bytes, adm, ready, closer>>

Finished ==
    /\ consumer.pc = "finishing" /\ Did(Consumer) /\ Releases
    /\ entries' = [entries EXCEPT ![consumer.msg] = FileAfter(consumer.outcome)]
    /\ bytes' = IF consumer.outcome = "completed" THEN bytes - size[consumer.msg] ELSE bytes
    /\ consumer' = [Goes(IF consumer.cancel THEN "ended" ELSE "get")
                        EXCEPT !.msg = NoId, !.outcome = "none"]
    /\ UNCHANGED <<owner, dir, fault, rejected, files, size, pending, nextId, reserved,
                   reservedBytes, adm, ready, closer>>

\* The message stays running: the inbox's end marks it interrupted.
FinishFails ==
    /\ consumer.pc = "finishing" /\ Failed(Consumer) /\ Releases
    /\ fault' = TRUE /\ ready' = TRUE
    /\ consumer' = Goes("ended")
    /\ UNCHANGED <<owner, dir, rejected, files, books, adm, closer>>

-----------------------------------------------------------------------------
(* Shutdown: unregister the callback, cancel the consumer and join it,     *)
(* close the inbox.                                                        *)

\* Mutation: a consumer that waits for messages is only flagged.
CancelledConsumerFlagged ==
    CASE consumer.pc = "off" -> consumer
      [] consumer.pc \in {"get", "finish"} -> Goes("ended")
      [] OTHER -> [consumer EXCEPT !.cancel = (consumer.pc # "ended")]

\* Where the consumer has a cancellation delivered: it leaves a queue or an
\* event at once, and joins disk operations and turns first.
CancelledConsumer ==
    CASE consumer.pc = "off" -> consumer
      [] consumer.pc \in {"get", "finish", "idle"} -> Goes("ended")
      [] OTHER -> [consumer EXCEPT !.cancel = (consumer.pc # "ended")]

Shutdown ==
    /\ owner = "serving"
    /\ consumer.pc \in {"get", "finish"} => consumer.queued
    /\ owner' = "stopping"
    /\ consumer' = CancelledConsumer
    /\ UNCHANGED <<dir, fault, rejected, files, books, adm, holder, io, ready, closer>>

CloseBegins ==
    /\ owner = "stopping" /\ consumer.pc \in {"off", "ended"}
    /\ owner' = "closing" /\ ready' = TRUE
    /\ closer' = [closer EXCEPT !.pc = "join"]
    /\ UNCHANGED <<dir, fault, rejected, files, books, adm, holder, io, consumer>>

Running == {i \in Ids : entries[i] = "running"}

\* What _close does next under the lock.
Settles ==
    \/ \E i \in Running :
          /\ closer' = [pc |-> "mark", id |-> i]
          /\ Starts(Closer, i, "interrupted")
    \/ /\ Running = {}
       /\ closer' = [pc |-> "settle", id |-> NoId]
       /\ Starts(Closer, NoId,
                 IF (\A i \in Ids : entries[i] = "none") /\ ~rejected /\ ~fault
                 THEN "rmdir" ELSE "manifest")

\* Mutation: Close does not join the admissions in flight.
AdmissionsIgnored == TRUE

AdmissionsDone == \A i \in Ids : adm[i] \in {"none", "stored", "refused"}

CloseJoins ==
    /\ closer.pc = "join"
    /\ AdmissionsDone
    /\ holder = NoOne /\ dir
    /\ Settles
    /\ UNCHANGED <<owner, dir, fault, rejected, files, books, adm, ready, consumer>>

CloseUnopened ==
    /\ closer.pc = "join" /\ ~dir
    /\ owner' = "closed"
    /\ closer' = [closer EXCEPT !.pc = "off"]
    /\ UNCHANGED <<dir, fault, rejected, files, books, adm, holder, io, ready, consumer>>

CloseMarked ==
    /\ closer.pc = "mark" /\ Did(Closer)
    /\ entries' = [entries EXCEPT ![closer.id] = "interrupted"]
    /\ closer' = [pc |-> "marked", id |-> NoId]
    /\ holder' = Closer /\ io' = NoIo
    /\ UNCHANGED <<owner, dir, fault, rejected, files, size, pending, nextId, reserved,
                   reservedBytes, bytes, adm, ready, consumer>>

CloseGoesOn ==
    /\ closer.pc = "marked"
    /\ Settles
    /\ UNCHANGED <<owner, dir, fault, rejected, files, books, adm, ready, consumer>>

CloseEnds ==
    /\ closer.pc = "settle" /\ Did(Closer) /\ Releases
    /\ owner' = "closed"
    /\ closer' = [pc |-> "off", id |-> NoId]
    /\ UNCHANGED <<dir, fault, rejected, files, books, adm, ready, consumer>>

CloseFails ==
    /\ closer.pc \in {"mark", "settle"} /\ Failed(Closer) /\ Releases
    /\ owner' = "closed" /\ fault' = TRUE
    /\ closer' = [pc |-> "off", id |-> NoId]
    /\ UNCHANGED <<dir, rejected, files, books, adm, ready, consumer>>

-----------------------------------------------------------------------------
AdmissionStep(i) ==
    \/ AdmissionWaits(i)
    \/ AdmissionWrites(i)
    \/ AdmissionRefused(i)
    \/ Stored(i)
    \/ StoreFailed(i)

ConsumerStep ==
    \/ ConsumerWaits
    \/ GetStops \/ GetWaits \/ GetWakes \/ GetClaims
    \/ Claimed \/ ClaimFails
    \/ \E outcome \in Outcomes : TurnEnds(outcome) \/ TurnAbsorbs(outcome)
    \/ TurnInterrupted
    \/ FinishBegins \/ Finished \/ FinishFails

CloserStep ==
    \/ CloseBegins \/ CloseJoins \/ CloseUnopened
    \/ CloseMarked \/ CloseGoesOn \/ CloseEnds \/ CloseFails

DiskStep == DiskDone \/ DiskFails
OpenStep == OpenSucceeds \/ OpenFails

\* The session is over.
Over == owner = "closed" /\ UNCHANGED vars

Next ==
    \/ OpenStep
    \/ \E s \in Sizes : Arrive(s) \/ Reject(s)
    \/ \E i \in Ids : AdmissionStep(i)
    \/ ConsumerStarts
    \/ ConsumerStep
    \/ Shutdown
    \/ CloserStep
    \/ DiskStep
    \/ Over

Spec == Init /\ [][Next]_vars

\* The loop runs what is ready, threads finish and turns end.  Messages need
\* not arrive and the session need not end.
FairSpec ==
    /\ Spec
    /\ \A i \in Ids : WF_vars(AdmissionStep(i))
    /\ WF_vars(OpenStep) /\ WF_vars(DiskStep)
    /\ WF_vars(ConsumerStarts) /\ WF_vars(ConsumerStep)
    /\ WF_vars(CloserStep)

-----------------------------------------------------------------------------
(* Safety.                                                                 *)

ConsumerPcs == {"off", "get", "idle", "claim", "turn", "finish", "finishing", "ended"}

IoRecords ==
    [at : {"idle", "busy", "done", "failed"}, id : Ids \cup {NoId},
     to : EntryStates \cup {"rmdir", "manifest"}]
ConsumerRecords ==
    [pc : ConsumerPcs, msg : Ids \cup {NoId}, outcome : Outcomes \cup {"none"},
     cancel : BOOLEAN, queued : BOOLEAN, ahead : SUBSET Ids]
CloserRecords == [pc : {"off", "join", "mark", "marked", "settle"}, id : Ids \cup {NoId}]

\* All of the types but the signs of the byte counters, which follow from
\* BytesExact.
Typed ==
    /\ owner \in {"opening", "serving", "stopping", "closing", "closed"}
    /\ dir \in BOOLEAN /\ fault \in BOOLEAN /\ rejected \in BOOLEAN /\ ready \in BOOLEAN
    /\ files \in [Ids -> EntryStates] /\ entries \in [Ids -> EntryStates]
    /\ size \in [Ids -> Nat]
    /\ pending \in Seq(Ids)
    /\ nextId \in 1 .. MaxId + 1
    /\ reserved \subseteq Ids /\ reservedBytes \in Int /\ bytes \in Int
    /\ adm \in [Ids -> {"none", "created", "queued", "writing", "stored", "refused"}]
    /\ holder \in Ids \cup {NoOne, Consumer, Closer}
    /\ io \in IoRecords /\ consumer \in ConsumerRecords /\ closer \in CloserRecords


\* Retained messages and admissions in flight never exceed the two limits,
\* whatever number of connections waits for the disk at once.
WithinLimits ==
    /\ Cardinality({i \in Ids : entries[i] # "none"}) + Cardinality(reserved) <= MaxMessages
    /\ bytes + reservedBytes <= MaxBytes

\* The weights of some messages, added up.
Total(weight, ids) ==
    LET upto[n \in 0 .. MaxId] ==
            IF n = 0 THEN 0 ELSE upto[n - 1] + (IF n \in ids THEN weight[n] ELSE 0)
    IN upto[MaxId]

\* The byte counters are the sizes of what is retained and of what is being
\* admitted: no path through failure or cancellation counts a record twice.
BytesExact ==
    /\ bytes = Total(size, {i \in Ids : entries[i] # "none"})
    /\ reservedBytes = Total(size, reserved)
    /\ reserved = {i \in Ids : adm[i] \in {"created", "queued", "writing"}}

\* Types, with byte counters that are what they are meant to count.
TypeOK == Typed /\ BytesExact

\* The files of the directory are the entries in memory, but for the one whose
\* operation a thread has finished and the loop has not yet applied.
DiskMatchesEntries ==
    files = IF io.at = "done" /\ io.id # NoId THEN [entries EXCEPT ![io.id] = io.to] ELSE entries

\* The queue holds exactly the pending entries, oldest first.
PendingExact ==
    /\ \A k, l \in DOMAIN pending : k < l => pending[k] < pending[l]
    /\ \A i \in Ids : entries[i] = "pending" <=> \E k \in DOMAIN pending : pending[k] = i

\* One delivery runs at a time: a running entry is the consumer's message,
\* also when the consumer was cancelled before it could record an outcome.
RunningIsHeld == \A i \in Ids : entries[i] = "running" => consumer.msg = i

\* The directory, the entries, the queue and the consumer agree after every
\* failing operation, cancellation and shutdown.
RecordsAgree == DiskMatchesEntries /\ PendingExact /\ RunningIsHeld

\* No message is handed to a turn before the fate of every earlier arrival is
\* known: rejected, or handed over before it.
FirstComeFirstServed ==
    \A i, j \in Ids :
        (j < i /\ (adm[j] \in {"created", "queued", "writing"} \/ entries[j] = "pending"))
        => adm[i] # "stored" \/ entries[i] = "pending"

\* A closed inbox without storage failure has settled every message: nothing
\* runs or is being admitted, and the directory is gone only if nothing in it
\* and no rejection is left to report.
ClosedIsSettled ==
    (owner = "closed" /\ ~fault) =>
        /\ AdmissionsDone
        /\ \A i \in Ids : files[i] # "running"
        /\ dir <=> (rejected \/ \E i \in Ids : files[i] # "none")

\* The file of a message disappears only when its turn completed.
KeptUntilCompleted ==
    [][\A i \in Ids : (files[i] # "none" /\ files'[i] = "none")
          => (consumer.msg = i /\ consumer.outcome = "completed")]_vars

\* No file goes back to pending, and a recorded outcome stays.
MovesOn ==
    \A i \in Ids : /\ files[i] \in Retained \ {"pending"} => files'[i] # "pending"
                   /\ files[i] \in Outcomes => files'[i] = files[i]

\* A message that was handed to a turn is never handed to one again.
NeverReplayed == [][MovesOn]_vars

\* A message on disk is neither dropped before its turn completed nor turned
\* back into one that waits.
MessagesKept == KeptUntilCompleted /\ NeverReplayed

-----------------------------------------------------------------------------
(* Liveness.                                                               *)

\* A staged message gets its turn unless storage fails or the session ends.
TurnComes ==
    \A i \in Ids : entries[i] = "pending" ~> entries[i] # "pending" \/ fault \/ owner # "serving"

\* The consumer goes on as if shutdown had not cancelled it.
GoesOn == owner = "stopping" /\ consumer.pc \notin {"off", "ended"} /\ ~consumer.cancel

\* Shutdown ends, whatever the consumer and the disk were doing when it began,
\* except behind a consumer whose turn absorbed the cancellation.
OnlyTurnsDelayShutdown == owner = "stopping" ~> owner = "closed" \/ GoesOn

\* The consumer and the shutdown both get where they are going.
InboxProgress == TurnComes /\ OnlyTurnsDelayShutdown

\* Shutdown cancels and joins its consumer and closes the inbox.
ShutdownEnds == owner = "stopping" ~> owner = "closed"

===============================================================================
