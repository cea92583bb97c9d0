----------------------------- MODULE Approvals -----------------------------
(***************************************************************************)
(* Which tool calls of the model run: the rules and modes of               *)
(* PermissionService (harness/permissions/service.py), the rules file that *)
(* all sessions share, enforce_tool_permission                             *)
(* (tools/permission_context.py), and the prompt that asks the user        *)
(* (core/queued_input.py, core/interactive.py).                            *)
(*                                                                         *)
(* A command is what the rules see of it: the segments of a shell command  *)
(* or the target of a file tool.  A rule is what it matches.  A call is    *)
(* judged in one step; then a classifier, the lock of the prompt and the   *)
(* user make it wait, and other calls, sessions and the application around *)
(* the prompt move.                                                        *)
(***************************************************************************)
EXTENDS Integers, FiniteSets, Sequences

CONSTANTS
    Terminals,          \* interactive sessions, each in a project of its own
    Words,              \* segments of commands, targets of file tools
    Commands,           \* what the model may ask for, see CommandType
    Family,             \* what a rule saved for a word matches
    Settings,           \* the rules in the settings of each project
    AskedCalls,         \* the tool calls in progress at one time
    StartModes          \* the modes a session may start in

RuleType == [behavior : {"allow", "deny"}, covers : SUBSET Words]
\* plain: it parses, and has neither substitutions nor write redirections.
\* verdict: of the static classifier or the path policy.
\* ordinary: of a file inside the workspace that is not a dangerous one.
CommandType ==
    [tool : {"shell", "read", "write"}, parts : SUBSET Words \ {{}}, plain : BOOLEAN,
     verdict : {"allow", "ask", "deny"}, ordinary : BOOLEAN]
Modes == {"default", "bypass", "plan", "acceptEdits", "dontAsk"}

ASSUME ApprovalConstants ==
    /\ Commands \subseteq CommandType /\ StartModes \subseteq Modes
    /\ Family \in [Words -> SUBSET Words] /\ \A w \in Words : w \in Family[w]
    /\ Settings \in [Terminals -> SUBSET RuleType]

VARIABLES
    live,           \* the sessions that run
    mode, rules,    \* of each session's PermissionService
    planning,       \* /plan is on
    stored,         \* permissions.json
    mounted,        \* ApprovalBroker._active
    line,           \* the holder of ApprovalBroker._lock, then its waiters
    call,           \* each tool call
    granted,        \* history: commands the user allowed for good
    apart           \* history: sessions never overlapped, and every save succeeded

approvalVars == <<live, mode, planning, rules, stored, mounted, line, call, granted, apart>>

\* current: the prompt was not closed since the question was put to it, which
\* request() sees from the generation of its activation.
NotAsked == [at |-> "new", by |-> "none", cmd |-> "none", asked |-> FALSE,
             current |-> FALSE, said |-> "none"]
NoSession(s) ==
    /\ mode' = [mode EXCEPT ![s] = "default"] /\ planning' = [planning EXCEPT ![s] = FALSE]
    /\ rules' = [rules EXCEPT ![s] = {}] /\ mounted' = [mounted EXCEPT ![s] = FALSE]
    /\ line' = [line EXCEPT ![s] = <<>>]

ApprovalInit ==
    /\ live = {} /\ stored = {} /\ granted = {} /\ apart = TRUE
    /\ mode = [s \in Terminals |-> "default"] /\ planning = [s \in Terminals |-> FALSE]
    /\ rules = [s \in Terminals |-> {}] /\ mounted = [s \in Terminals |-> FALSE]
    /\ line = [s \in Terminals |-> <<>>] /\ call = [i \in AskedCalls |-> NotAsked]

CallAt(i, at) == call[i].at = at

-----------------------------------------------------------------------------
(* Rules.                                                                  *)

\* Any segment that a deny rule matches.
Denied(known, c) ==
    \E r \in known : r.behavior = "deny" /\ r.covers \cap c.parts # {}

\* Mutant: one segment is enough.
AllowedInPart(known, c) ==
    c.plain /\ \E w \in c.parts, r \in known : r.behavior = "allow" /\ w \in r.covers

\* Every segment has an allow rule, and there is nothing a rule cannot see.
Allowed(known, c) ==
    c.plain /\ \A w \in c.parts : \E r \in known : r.behavior = "allow" /\ w \in r.covers

\* PermissionService.mode.
ModeOf(s) == IF planning[s] THEN "plan" ELSE mode[s]

\* evaluate_tool_call.
Verdict(s, c) ==
    CASE Denied(rules[s], c) -> "deny"
      [] ~Denied(rules[s], c) /\ Allowed(rules[s], c) -> "allow"
      [] OTHER ->
            CASE ModeOf(s) = "plan" -> IF c.tool = "read" THEN "allow" ELSE "deny"
              [] ModeOf(s) = "bypass" -> "allow"
              [] ModeOf(s) = "dontAsk" /\ c.verdict = "ask" -> "deny"
              [] ModeOf(s) = "acceptEdits" /\ c.tool = "write" /\ c.ordinary -> "allow"
              [] OTHER -> c.verdict

\* add_approval_rule: a single word is widened to its family; the exact text of
\* a chain matches none of its segments.
SavedRule(c) ==
    [behavior |-> "allow",
     covers |-> UNION {Family[w] : w \in {v \in Words : c.parts = {v}}}]

\* add_rule: the file gets all rules of this session, in one replacement that
\* may fail.
SaveAlways(s, c) ==
    /\ rules' = [rules EXCEPT ![s] = @ \cup {SavedRule(c)}]
    /\ \/ stored' = rules'[s] /\ UNCHANGED apart
       \/ UNCHANGED stored /\ apart' = FALSE
    /\ granted' = granted \cup {c}

\* PermissionService.__post_init__.
LoadedRules(s) == Settings[s] \cup stored

-----------------------------------------------------------------------------
(* Sessions and their prompt application.                                  *)

SessionStarts(s) ==
    /\ s \notin live /\ live' = live \cup {s}
    /\ rules' = [rules EXCEPT ![s] = LoadedRules(s)]
    /\ \E m \in StartModes : mode' = [mode EXCEPT ![s] = m]
    /\ apart' = (apart /\ live = {})
    /\ UNCHANGED <<planning, stored, mounted, line, call, granted>>

\* Its calls end with it.
SessionEnds(s) ==
    /\ s \in live /\ live' = live \ {s} /\ NoSession(s)
    /\ call' = [i \in AskedCalls |-> IF call[i].by = s THEN NotAsked ELSE call[i]]
    /\ UNCHANGED <<stored, granted, apart>>

\* /plan, which gives the mode back that it found.
PlanToggles(s) ==
    /\ s \in live /\ planning' = [planning EXCEPT ![s] = ~@]
    /\ UNCHANGED <<live, mode, rules, stored, mounted, line, call, granted, apart>>

\* activate(): the prompt is mounted while a turn runs.
PromptOpens(s) ==
    /\ s \in live /\ ~mounted[s] /\ mounted' = [mounted EXCEPT ![s] = TRUE]
    /\ UNCHANGED <<live, mode, planning, rules, stored, line, call, granted, apart>>

\* What deactivate() does to the questions that were put to it.
FailedClosed(s) ==
    [i \in AskedCalls |->
        IF call[i].by # s THEN call[i]
        ELSE IF CallAt(i, "shown")
        THEN [call[i] EXCEPT !.at = "answered", !.said = "deny", !.current = FALSE]
        ELSE [call[i] EXCEPT !.current = FALSE]]

\* deactivate(): the turn is over, or the application ended by itself.
PromptCloses(s) ==
    /\ s \in live /\ mounted[s] /\ mounted' = [mounted EXCEPT ![s] = FALSE]
    /\ call' = FailedClosed(s)
    /\ UNCHANGED <<live, mode, planning, rules, stored, line, granted, apart>>

-----------------------------------------------------------------------------
(* A tool call: enforce_tool_permission.                                   *)

RulesUnchanged == UNCHANGED <<live, mode, planning, rules, stored, mounted, granted, apart>>

\* The hook decides, or the approver puts the question: on the prompt when
\* nobody is before it, to the terminal itself when there is no prompt.
Question(i, s, asked) ==
    \/ /\ \E after \in {NotAsked, [asked EXCEPT !.at = "runs"]} : call' = [call EXCEPT ![i] = after]
       /\ UNCHANGED line
    \/ LET at == IF ~mounted[s] THEN "reading" ELSE IF line[s] = <<>> THEN "shown" ELSE "waiting"
       IN  /\ call' = [call EXCEPT ![i] = [asked EXCEPT !.at = at, !.current = mounted[s]]]
           /\ line' = [line EXCEPT ![s] = IF mounted[s] THEN Append(@, i) ELSE @]

\* A shell command that needs approval goes to the classifier first.
CallJudged(i, s, c) ==
    /\ s \in live /\ CallAt(i, "new")
    /\ LET judged == [NotAsked EXCEPT !.by = s, !.cmd = c, !.asked = Verdict(s, c) = "ask"]
       IN  CASE Verdict(s, c) = "ask" /\ c.tool # "shell" -> Question(i, s, judged)
             [] Verdict(s, c) = "ask" /\ c.tool = "shell" ->
                    call' = [call EXCEPT ![i] = [judged EXCEPT !.at = "judged"]] /\ UNCHANGED line
             [] Verdict(s, c) = "allow" ->
                    call' = [call EXCEPT ![i] = [judged EXCEPT !.at = "runs"]] /\ UNCHANGED line
             [] Verdict(s, c) = "deny" -> UNCHANGED <<call, line>>
    /\ RulesUnchanged

\* The classifier can only refuse; without an answer of it the call is asked.
Classified(i) ==
    /\ CallAt(i, "judged")
    /\ \/ call' = [call EXCEPT ![i] = NotAsked] /\ UNCHANGED line
       \/ Question(i, call[i].by, call[i])
    /\ RulesUnchanged

\* request(), when the lock is its: was the prompt closed meanwhile?
Acquires(i) ==
    /\ CallAt(i, "waiting") /\ Head(line[call[i].by]) = i
    /\ IF mounted[call[i].by] /\ call[i].current
       THEN call' = [call EXCEPT ![i].at = "shown"] /\ UNCHANGED line
       ELSE /\ call' = [call EXCEPT ![i] = NotAsked]
            /\ line' = [line EXCEPT ![call[i].by] = Tail(@)]
    /\ RulesUnchanged

\* submit(): the user answers what is on display.
Answers(i, said) ==
    /\ CallAt(i, "shown") /\ mounted[call[i].by]
    /\ call' = [call EXCEPT ![i].at = "answered", ![i].said = said]
    /\ UNCHANGED line /\ RulesUnchanged

\* The answer is acted on.
ActedOn(i, said) ==
    /\ call' = [call EXCEPT ![i] =
            IF said = "deny" THEN NotAsked
            ELSE [@ EXCEPT !.at = "runs", !.said = "none", !.current = FALSE]]
    /\ IF said = "always" THEN SaveAlways(call[i].by, call[i].cmd)
                          ELSE UNCHANGED <<rules, stored, granted, apart>>
    /\ UNCHANGED <<live, mode, planning, mounted>>

ActsOnAnswer(i) ==
    /\ CallAt(i, "answered")
    /\ line' = [line EXCEPT ![call[i].by] = Tail(@)]
    /\ ActedOn(i, call[i].said)

\* The default reader, in a thread; end of file and errors are a no.
ReadsAnswer(i, said) ==
    CallAt(i, "reading") /\ ActedOn(i, said) /\ UNCHANGED line

\* The line without its k-th member.
Without(k, waiters) == SubSeq(waiters, 1, k - 1) \o SubSeq(waiters, k + 1, Len(waiters))

\* It has run, or its turn is cancelled.
CallOver(i) ==
    /\ ~CallAt(i, "new") /\ call' = [call EXCEPT ![i] = NotAsked]
    /\ LET s == call[i].by
       IN  \/ \E k \in DOMAIN line[s] : line[s][k] = i /\ line' = [line EXCEPT ![s] = Without(k, @)]
           \/ (\A k \in DOMAIN line[s] : line[s][k] # i) /\ UNCHANGED line
    /\ RulesUnchanged

-----------------------------------------------------------------------------
Replies == {"allow", "always", "deny"}

ApprovalNext ==
    \/ \E s \in Terminals :
        SessionStarts(s) \/ SessionEnds(s) \/ PlanToggles(s) \/ PromptOpens(s) \/ PromptCloses(s)
    \/ \E i \in AskedCalls :
        \/ \E s \in Terminals, c \in Commands : CallJudged(i, s, c)
        \/ \E said \in Replies : Answers(i, said) \/ ReadsAnswer(i, said)
        \/ Classified(i) \/ Acquires(i) \/ ActsOnAnswer(i) \/ CallOver(i)

\* The event loop runs what is ready.  Nothing is assumed of users.
ApprovalFairness == \A i \in AskedCalls : WF_approvalVars(Acquires(i)) /\ WF_approvalVars(ActsOnAnswer(i))

ApprovalSpec == ApprovalInit /\ [][ApprovalNext]_approvalVars

-----------------------------------------------------------------------------
ApprovalTypeOK ==
    /\ live \subseteq Terminals
    /\ mode \in [Terminals -> Modes] /\ planning \in [Terminals -> BOOLEAN]
    /\ rules \in [Terminals -> SUBSET RuleType] /\ mounted \in [Terminals -> BOOLEAN]
    /\ stored \subseteq RuleType /\ granted \subseteq Commands /\ apart \in BOOLEAN
    /\ \A s \in Terminals : \A k \in DOMAIN line[s] : line[s][k] \in AskedCalls
    /\ \A i \in AskedCalls : call[i] = NotAsked \/
        /\ call[i].by \in live /\ call[i].cmd \in Commands
        /\ call[i].at \in {"judged", "waiting", "shown", "answered", "reading", "runs"}
        /\ call[i].asked \in BOOLEAN /\ call[i].current \in BOOLEAN
        /\ call[i].said \in Replies \cup {"none"}

\* Deny rules win, whatever the mode, the user's earlier answers, the hooks and
\* the rules other sessions have saved.
DenyWins ==
    \A i \in AskedCalls : CallAt(i, "runs") =>
        \A r \in Settings[call[i].by] : r.behavior = "deny" => r.covers \cap call[i].cmd.parts = {}

\* The modes whose point is not to ask (in plan mode, for what only reads).
ModeAllows(s, c) ==
    \/ ModeOf(s) = "bypass"
    \/ ModeOf(s) = "acceptEdits" /\ c.tool = "write" /\ c.ordinary
    \/ ModeOf(s) = "plan" /\ c.tool = "read"

\* Where the mode asks, what needs approval runs unasked only when every segment
\* of it is in a rule of some project or in the family of something the user
\* allowed for good.
NothingSlipsThrough ==
    [][\A i \in AskedCalls :
        /\ CallAt(i, "new") /\ CallAt(i, "runs")' /\ ~call'[i].asked
        /\ call'[i].cmd.verdict = "ask" /\ ~ModeAllows(call'[i].by, call'[i].cmd)
        => \A w \in call'[i].cmd.parts :
                \/ \E c \in granted, v \in Words : c.parts = {v} /\ w \in Family[v]
                \/ \E s \in Terminals : \E r \in Settings[s] :
                        r.behavior = "allow" /\ w \in r.covers]_approvalVars

\* One question at a time is on display, the oldest, and never one that was put
\* before the prompt was closed last.
ShownIsCurrent ==
    \A i \in AskedCalls : CallAt(i, "shown") =>
        mounted[call[i].by] /\ call[i].current /\ Head(line[call[i].by]) = i

\* What the user allowed for good is not asked again, in this session or a later
\* one, as long as sessions do not overlap and saves succeed.  (A chain is no
\* such thing: its saved text matches nothing.)
AlwaysHonoured ==
    [][\A i \in AskedCalls :
        CallAt(i, "new") /\ call'[i].asked /\ apart /\ call'[i].cmd.plain =>
            \E w \in call'[i].cmd.parts :
                \A c \in granted, v \in Words : c.parts = {v} => w \notin Family[v]]_approvalVars

\* Permissions, in four parts.
ApprovalsAreSound == [](DenyWins /\ ShownIsCurrent) /\ NothingSlipsThrough /\ AlwaysHonoured

\* A question is settled once the prompt it was put to is closed, also one that
\* never got its turn.
QuestionsEnd ==
    \A i \in AskedCalls :
        call[i].at \in {"waiting", "shown"} /\ ~call[i].current
            ~> call[i].at \notin {"waiting", "shown", "answered"} \/ call[i].current
=============================================================================
