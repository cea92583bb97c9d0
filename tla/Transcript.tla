----------------------------- MODULE Transcript -----------------------------
(***************************************************************************)
(* The history of one conversation: the SQLite session (core/session.py),  *)
(* and who rewrites it.  A turn of AgentScheduler repairs and compacts it, *)
(* /compact and /rewind replace it, and the SDK appends to it while the    *)
(* model runs and, after a cancellation, for a while longer                *)
(* (core/scheduler.py, harness/memory/compact.py).                         *)
(*                                                                         *)
(* A rewrite reads the history, waits (a summary is a model call) and      *)
(* replaces it in one transaction by a thread, whose caller may be         *)
(* cancelled meanwhile.  An item is its kind and a number: prompts and     *)
(* answers are numbered by the prompt, a tool call and its output by the   *)
(* call.  Token counts, thresholds and the circuit breaker decide whether  *)
(* there is a compaction: here it may happen.  The pinned todo list is     *)
(* left out.                                                               *)
(***************************************************************************)
EXTENDS Integers, Sequences, Functions

CONSTANTS
    MaxAsked,       \* bound: prompts
    MaxToolCalls,   \* bound: tool calls
    KeepRecent,     \* messages a compaction keeps: 6, or 2 for /compact
    MaxStoreFaults  \* bound: operations of the session that fail

ASSUME TranscriptConstants ==
    MaxAsked \in Nat /\ MaxToolCalls \in Nat /\ KeepRecent \in Nat /\ MaxStoreFaults \in Nat

VARIABLES
    history,        \* the items of the session, in order
    sdk,            \* the run of the SDK: what it is doing
    calling,        \* its tool call that has no output yet, or 0
    front,          \* the turn or command in the foreground
    worker,         \* the thread of replace_items
    asked, called, storeFaults,     \* prompts, tool calls, faults so far
    unrepaired,     \* history: the repair of this turn failed
    written,        \* history: what the SDK wrote
    accounted,      \* history: what was summarized, rewound or dropped as unpaired
    crossed         \* history: a command or a compaction crossed the end of a cancelled run

transcriptVars ==
    <<history, sdk, calling, front, worker, asked, called, storeFaults, unrepaired, written,
      accounted, crossed>>

IdleFront == [at |-> "idle", job |-> "none", seen |-> <<>>, next |-> <<>>, cancelled |-> FALSE]
Jobs == {"none", "turn", "repair", "preflight", "overflow", "capture", "compact", "rewind"}

TranscriptInit ==
    /\ history = <<>> /\ sdk = "none" /\ calling = 0
    /\ front = IdleFront /\ worker = "none"
    /\ asked = 0 /\ called = 0 /\ storeFaults = 0
    /\ unrepaired = FALSE /\ written = {} /\ accounted = {} /\ crossed = FALSE

-----------------------------------------------------------------------------
(* Items.                                                                  *)

Item(kind, n) == [kind |-> kind, n |-> n]
Marker == Item("marker", 0)     \* SYNTHETIC_INTERRUPTION_MARKER
Summary == Item("summary", 0)
FileItem == Item("file", 0)     \* [Post-compact file restoration]
IsTool(i) == i.kind \in {"call", "output"}
IsPlain(i) == i.kind \in {"user", "text", "marker", "summary"}

\* The items of a set, in their order.
Only(items, kept) ==
    LET upto[n \in 0 .. Len(items)] ==
            IF n = 0 THEN <<>>
            ELSE IF items[n] \in kept THEN Append(upto[n - 1], items[n]) ELSE upto[n - 1]
    IN upto[Len(items)]

\* replayable_session_items: calls and outputs only in pairs.
Paired(items) ==
    {i \in items : IsTool(i) => {Item("call", i.n), Item("output", i.n)} \subseteq items}
Replayable(items) == Only(items, Paired(Range(items)))

\* The trailing run of tool items, and _trailing_replayable_tool_items.
TrailingTools(items) ==
    LET start == CHOOSE n \in 1 .. Len(items) + 1 :
            /\ \A i \in n .. Len(items) : IsTool(items[i])
            /\ n > 1 => ~IsTool(items[n - 1])
    IN SubSeq(items, start, Len(items))
TrailingPairs(items) == Replayable(TrailingTools(items))

\* _ends_with_complete_tool_pair.
EndsWithPair(items) ==
    LET tail == TrailingTools(items)
    IN tail # <<>> /\ tail[Len(tail)].kind = "output" /\ Replayable(tail) = tail

Closed(items) == IF EndsWithPair(items) THEN Append(items, Marker) ELSE items

\* compactable_session_items.
Compactable(items) == Only(items, Range(items) \ {FileItem})

\* _is_already_compacted_context: a summary and little else before the tail.
AlreadyCompacted(m) ==
    LET head == SubSeq(m, 1, Len(m) - Len(TrailingPairs(m)))
    IN /\ head # <<>> /\ head[1] = Summary
       /\ \A i \in 1 .. Len(head) : IsPlain(head[i])
       /\ Len(head) <= KeepRecent + 1

\* llm_compact_messages and build_compacted_session_items.
Kept(m) ==
    LET plain == Only(m, {i \in Range(m) : IsPlain(i)})
    IN SubSeq(plain, 1 + (IF Len(plain) > KeepRecent THEN Len(plain) - KeepRecent ELSE 0), Len(plain))
        \o TrailingPairs(m)
Summarized(m) == IF AlreadyCompacted(m) THEN {} ELSE Range(m) \ Range(Kept(m))

\* Mutant: the last tools are neither summarized nor kept.
CompactedWithoutTail(m) ==
    IF AlreadyCompacted(m) THEN m
    ELSE (IF Len(Kept(m)) < Len(m) THEN <<Summary>> ELSE <<>>) \o Only(Kept(m), {i \in Range(m) : IsPlain(i)})

Compacted(m) ==
    IF AlreadyCompacted(m) THEN m
    ELSE (IF Len(Kept(m)) < Len(m) THEN <<Summary>> ELSE <<>>) \o Kept(m)

-----------------------------------------------------------------------------
(* The SDK, while the model runs and after a cancellation.                 *)

Foreground == UNCHANGED <<front, worker, unrepaired, accounted, crossed>>
SdkWrites(items) == history' = history \o items /\ written' = written \cup Range(items)
Running == sdk \in {"started", "running"}

\* The input first, then calls and outputs, the answer last.
SdkSavesInput ==
    /\ sdk = "started" /\ sdk' = "running"
    /\ SdkWrites(<<Item("user", asked)>>)
    /\ UNCHANGED <<calling, asked, called, storeFaults>> /\ Foreground

\* (FrontAt once or, when interrupted, one after the other.)
SdkSavesCall ==
    /\ sdk \in {"running", "late"} /\ calling = 0 /\ called < MaxToolCalls
    /\ called' = called + 1
    /\ \/ SdkWrites(<<Item("call", called + 1), Item("output", called + 1)>>) /\ UNCHANGED calling
       \/ SdkWrites(<<Item("call", called + 1)>>) /\ calling' = called + 1
    /\ UNCHANGED <<sdk, asked, storeFaults>> /\ Foreground

SdkSavesOutput ==
    /\ sdk \in {"running", "late"} /\ calling # 0 /\ calling' = 0
    /\ SdkWrites(<<Item("output", calling)>>)
    /\ UNCHANGED <<sdk, asked, called, storeFaults>> /\ Foreground

\* The cancelled run has saved what it would.
SdkSettles ==
    /\ sdk = "late" /\ sdk' = "none" /\ calling' = 0
    /\ UNCHANGED <<history, written, asked, called, storeFaults>> /\ Foreground

-----------------------------------------------------------------------------
(* A turn.                                                                 *)

Sdk == UNCHANGED <<sdk, calling, called, written>>
Counters == UNCHANGED <<asked, storeFaults>>
FrontAt(at) == front.at = at
FrontGoes(at) == front' = [front EXCEPT !.at = at]
FrontEnds == front' = IdleFront

TurnAsked ==
    /\ FrontAt("idle") /\ asked < MaxAsked /\ asked' = asked + 1
    /\ front' = [IdleFront EXCEPT !.at = "settle", !.job = "turn"]
    /\ unrepaired' = FALSE
    /\ Sdk /\ UNCHANGED <<history, worker, storeFaults, accounted, crossed>>

\* Mutant: the cancelled run is not waited for.
StreamSettledAnyway == TRUE

\* _await_cancelled_stream_settlement, through any cancellation.
StreamSettled == sdk # "late"

TurnSettles ==
    /\ FrontAt("settle") /\ StreamSettled
    /\ IF front.cancelled THEN FrontEnds ELSE FrontGoes("repair")
    /\ Sdk /\ Counters /\ UNCHANGED <<history, worker, unrepaired, accounted, crossed>>

\* A session operation that fails.
Fault == storeFaults < MaxStoreFaults /\ storeFaults' = storeFaults + 1

Replaces(job, seen, next) ==
    /\ front' = [front EXCEPT !.at = "replace", !.job = job, !.seen = seen, !.next = next]
    /\ worker' = "writing"

\* _repair_unreplayable_session_items; an error is swallowed.
TurnRepairs ==
    /\ FrontAt("repair")
    /\ \/ /\ Replayable(history) = history /\ history' = Closed(history)
          /\ FrontGoes("preflight") /\ UNCHANGED <<worker, storeFaults, unrepaired>>
       \/ /\ Replayable(history) # history /\ Replaces("repair", history, Replayable(history))
          /\ UNCHANGED <<history, storeFaults, unrepaired>>
       \/ /\ Fault /\ unrepaired' = TRUE /\ FrontGoes("preflight") /\ UNCHANGED <<history, worker>>
    /\ Sdk /\ UNCHANGED <<asked, accounted, crossed>>

\* The run starts, or there is a compaction first.
TurnRuns ==
    /\ FrontAt("preflight")
    /\ FrontGoes("run") /\ sdk' = "started"
    /\ UNCHANGED <<history, calling, called, written, worker, unrepaired, accounted, crossed>>
    /\ Counters

TurnRejected ==
    /\ FrontAt("preflight") /\ FrontEnds
    /\ Sdk /\ Counters /\ UNCHANGED <<history, worker, unrepaired, accounted, crossed>>

\* The answer, an error of the provider, or a cancellation.
TurnAnswered ==
    /\ FrontAt("run") /\ Running
    /\ \/ /\ sdk = "running" /\ calling = 0 /\ sdk' = "none"
          /\ SdkWrites(<<Item("text", asked)>>) /\ UNCHANGED calling
       \/ sdk' = "none" /\ calling' = 0 /\ UNCHANGED <<history, written>>
       \/ sdk' = "late" /\ UNCHANGED <<history, written, calling>>
    /\ FrontGoes("capture")
    /\ UNCHANGED <<called, worker, unrepaired, accounted, crossed>> /\ Counters

\* A context overflow refuses a model call, with no tool open: one compaction,
\* then the same input again.  (Recording the usage of what came before may
\* compact as well; that is left out.)
TurnOverflows ==
    /\ FrontAt("run") /\ Running /\ calling = 0 /\ front.job # "overflow"
    /\ sdk' = "none"
    /\ front' = [front EXCEPT !.at = "compact", !.job = "overflow"]
    /\ UNCHANGED <<history, calling, called, written, worker, unrepaired, accounted, crossed>> /\ Counters

TurnOver ==
    /\ FrontAt("capture") /\ FrontEnds
    /\ Sdk /\ Counters /\ UNCHANGED <<history, worker, unrepaired, accounted, crossed>>

-----------------------------------------------------------------------------
(* Compaction, /compact and /rewind.                                       *)

\* Of a turn: before the run, or after it when its usage is recorded.
TurnCompacts ==
    /\ \/ FrontAt("preflight") /\ front.job = "turn" /\ front' = [front EXCEPT !.at = "compact", !.job = "preflight"]
       \/ FrontAt("capture") /\ front' = [front EXCEPT !.at = "compact", !.job = "capture"]
    /\ Sdk /\ Counters /\ UNCHANGED <<history, worker, unrepaired, accounted, crossed>>

CompactCommand ==
    /\ FrontAt("idle") /\ front' = [IdleFront EXCEPT !.at = "compact", !.job = "compact"]
    /\ Sdk /\ Counters /\ UNCHANGED <<history, worker, unrepaired, accounted, crossed>>

CompactReads ==
    /\ FrontAt("compact")
    /\ front' = [front EXCEPT !.at = "summarize", !.seen = history]
    /\ Sdk /\ Counters /\ UNCHANGED <<history, worker, unrepaired, accounted, crossed>>

\* What follows: the run or its rejection, the end of the turn or command.
Resumes(job) ==
    CASE job = "repair" -> front' = [IdleFront EXCEPT !.at = "preflight", !.job = "turn"]
      [] job = "preflight" -> front' = [IdleFront EXCEPT !.at = "preflight", !.job = "preflight"]
      [] OTHER -> FrontEnds

ResumesOverflow ==
    /\ front' = [IdleFront EXCEPT !.at = "run", !.job = "overflow"]
    /\ sdk' = "started" /\ UNCHANGED <<calling, called, written>>

\* The summary; it may fail, and nothing is written if nothing changed.
CompactSummarized ==
    /\ FrontAt("summarize") /\ ~front.cancelled
    /\ LET next == Compacted(Compactable(front.seen)) IN
       \/ /\ next # front.seen /\ Replaces(front.job, front.seen, next) /\ Sdk
       \/ /\ UNCHANGED worker
          /\ IF front.job = "overflow" THEN ResumesOverflow ELSE Resumes(front.job) /\ Sdk
    /\ Counters /\ UNCHANGED <<history, unrepaired, accounted, crossed>>

RewindCommand ==
    /\ FrontAt("idle")
    /\ \E i \in DOMAIN history :
        /\ history[i].kind \in {"user", "summary"}
        /\ Replaces("rewind", history, SubSeq(history, 1, i - 1))
    /\ Sdk /\ Counters /\ UNCHANGED <<history, unrepaired, accounted, crossed>>

-----------------------------------------------------------------------------
(* replace_items: its thread, its caller, and a cancellation between them. *)

\* A caller that waits is cancelled (the capture of usage is a task of its own).
FrontCancelled ==
    /\ front.at \in {"settle", "summarize"} \/ (FrontAt("replace") /\ worker = "writing")
    /\ front.job # "capture" /\ ~front.cancelled
    /\ front' = [front EXCEPT !.cancelled = TRUE]
    /\ Sdk /\ Counters /\ UNCHANGED <<history, worker, unrepaired, accounted, crossed>>

SummaryCancelled ==
    /\ FrontAt("summarize") /\ front.cancelled /\ FrontEnds
    /\ Sdk /\ Counters /\ UNCHANGED <<history, worker, unrepaired, accounted, crossed>>

\* begin_commit: whoever is first, the caller's cancellation or the commit.
WorkerDecides ==
    /\ worker = "writing"
    /\ worker' = IF front.cancelled THEN "rolledBack" ELSE "committing"
    /\ Sdk /\ Counters /\ UNCHANGED <<history, front, unrepaired, accounted, crossed>>

WorkerCommits ==
    /\ worker = "committing" /\ worker' = "committed"
    /\ history' = front.next
    /\ accounted' = accounted \cup
            (CASE front.job = "rewind" -> Range(front.seen) \ Range(front.next)
               [] front.job = "repair" -> {i \in Range(front.seen) \ Range(front.next) : IsTool(i)}
               [] OTHER -> Summarized(Compactable(front.seen)))
    /\ crossed' = (crossed \/ (front.job \in {"compact", "rewind", "capture"}
                               /\ (sdk = "late" \/ front.seen # history)))
    /\ Sdk /\ Counters /\ UNCHANGED <<front, unrepaired>>

WorkerFails ==
    /\ worker \in {"writing", "committing"} /\ worker' = "failed" /\ Fault
    /\ Sdk /\ UNCHANGED <<history, front, asked, unrepaired, accounted, crossed>>

\* The caller: a repair closes the tail, a compaction attaches recent files.
Attached == {<<>>} \cup (IF \E i \in Range(front.seen) : i.kind = "call" THEN {<<FileItem>>} ELSE {})

ReplaceSucceeds ==
    /\ worker = "committed" /\ worker' = "none"
    /\ \/ /\ front.job = "repair" /\ history' = Closed(history)
          /\ UNCHANGED <<storeFaults, unrepaired>>
       \/ /\ front.job = "repair" /\ Fault /\ unrepaired' = TRUE /\ UNCHANGED history
       \/ /\ front.job \in {"preflight", "overflow", "capture"}
          /\ \E files \in Attached : history' = history \o files
          /\ UNCHANGED <<storeFaults, unrepaired>>
       \/ front.job \in {"compact", "rewind"} /\ UNCHANGED <<history, storeFaults, unrepaired>>
    /\ IF front.job = "overflow" THEN ResumesOverflow ELSE Resumes(front.job) /\ Sdk
    /\ UNCHANGED <<asked, accounted, crossed>>

ReplaceCancelled ==
    /\ worker = "rolledBack" /\ worker' = "none" /\ FrontEnds
    /\ Sdk /\ Counters /\ UNCHANGED <<history, unrepaired, accounted, crossed>>

\* A failed compaction is counted, a failed repair ignored, a command reports it.
ReplaceFails ==
    /\ worker = "failed" /\ worker' = "none"
    /\ unrepaired' = (unrepaired \/ front.job = "repair")
    /\ IF front.job = "overflow" THEN ResumesOverflow ELSE Resumes(front.job) /\ Sdk
    /\ Counters /\ UNCHANGED <<history, accounted, crossed>>

-----------------------------------------------------------------------------
SdkNext == SdkSavesInput \/ SdkSavesCall \/ SdkSavesOutput \/ SdkSettles
FrontNext ==
    \/ TurnAsked \/ TurnSettles \/ TurnRepairs \/ TurnRuns \/ TurnRejected \/ TurnAnswered
    \/ TurnOverflows \/ TurnOver \/ TurnCompacts \/ CompactCommand \/ CompactReads
    \/ CompactSummarized \/ RewindCommand \/ SummaryCancelled
WorkerNext == WorkerDecides \/ WorkerCommits \/ WorkerFails
ReplaceNext == ReplaceSucceeds \/ ReplaceCancelled \/ ReplaceFails \/ FrontCancelled

TranscriptNext == SdkNext \/ FrontNext \/ WorkerNext \/ ReplaceNext
TranscriptSpec == TranscriptInit /\ [][TranscriptNext]_transcriptVars

-----------------------------------------------------------------------------
Items ==
    [kind : {"user", "text"}, n : 1 .. MaxAsked] \cup [kind : {"call", "output"}, n : 1 .. MaxToolCalls]
        \cup {Marker, Summary, FileItem}

TranscriptTypeOK ==
    /\ Range(history) \subseteq Items /\ written \subseteq Items /\ accounted \subseteq Items
    /\ sdk \in {"none", "started", "running", "late"} /\ calling \in 0 .. MaxToolCalls
    /\ worker \in {"none", "writing", "committing", "committed", "rolledBack", "failed"}
    /\ front.at \in {"idle", "settle", "repair", "preflight", "run", "capture", "compact",
                     "summarize", "replace"}
    /\ front.job \in Jobs /\ front.cancelled \in BOOLEAN
    /\ Range(front.seen) \subseteq Items /\ Range(front.next) \subseteq Items
    /\ asked \in 0 .. MaxAsked /\ called \in 0 .. MaxToolCalls
    /\ storeFaults \in 0 .. MaxStoreFaults
    /\ unrepaired \in BOOLEAN /\ crossed \in BOOLEAN

\* When a run starts, its provider accepts the history: every call has its
\* output, every output its call, and interrupted tools are closed by a
\* message, whatever a cancelled run left behind and saved late.  (Not so after a
\* compaction: it drops the restored files, and with them what separated the
\* tools from the prompt.)
ModelGetsPairs ==
    sdk = "started" /\ ~unrepaired =>
        Replayable(history) = history /\ (front.job = "turn" => ~EndsWithPair(history))

\* Nothing the SDK saved disappears unless it was summarized, rewound or was
\* half a pair: rewrites, their failures and cancellations, and what is saved
\* late do not lose it.
TranscriptKept == crossed \/ written \subseteq Range(history) \cup accounted

\* What a turn sends and what a rewrite keeps.
TranscriptIsSound == ModelGetsPairs /\ TranscriptKept
=============================================================================
