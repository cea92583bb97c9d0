---------------------------- MODULE TokenRefresh ----------------------------
(***************************************************************************)
(* The stored OAuth credentials of one provider: TokenStorage over a file  *)
(* and, on macOS, the Keychain (auth/token_storage.py), the refresh under  *)
(* a lease (auth/client_integration.py), and login, logout and the model   *)
(* cache of /auth (harness/auth/commands.py).                              *)
(*                                                                         *)
(* The provider rotates: it accepts a refresh token once.  So the rotated  *)
(* credential must reach the store whatever else happens, while a login or *)
(* logout that came in between must not be undone.  A credential is an id  *)
(* and whether it carries a model cache: the store compares the whole of   *)
(* it.  Giving up at a deadline or for a cancelled caller looks the same.  *)
(***************************************************************************)
EXTENDS Integers

CONSTANTS
    Callers,        \* calls, of any process
    MaxTokens       \* bound: credentials the provider issues

VARIABLES
    mac,            \* is there a Keychain
    plain,          \* the token file
    keychain,       \* the Keychain entry
    issuedTokens,   \* credentials issued so far
    expired,        \* ... those that expired
    used,           \* ... those whose refresh token the provider took
    refreshLease,   \* who holds .<provider>.refresh.lock
    caller,         \* each call
    fromLogin,      \* history: the credential of the last login and its refreshes
    mishap,         \* history: a request, save or delete broke off half-way (bound: once)
    overtaken       \* history: a model cache was stored during a refresh

tokenVars == <<mac, plain, keychain, issuedTokens, expired, used, refreshLease, caller,
               fromLogin, mishap, overtaken>>

NoCaller == "nobody"

\* (The credentials of an older release are two.)
ASSUME TokenConstants == NoCaller \notin Callers /\ MaxTokens \in Nat /\ MaxTokens >= 2

TokenIds == 1 .. MaxTokens
Tokens == [id : TokenIds, models : BOOLEAN]
NoToken == [id |-> 0, models |-> FALSE]
Fresh(models) == [id |-> issuedTokens + 1, models |-> models]
\* A file written since the Keychain is used says that it overrides it.
NoFile == [token |-> NoToken, marked |-> FALSE]
Fallback(t) == [token |-> t, marked |-> TRUE]
IdleCaller == [at |-> "idle", input |-> NoToken, rotated |-> NoToken, show |-> FALSE]

\* Older releases left unmarked files, with or without a newer Keychain entry.
TokenInit ==
    /\ mac \in BOOLEAN
    /\ plain \in {NoFile, [token |-> [id |-> 1, models |-> FALSE], marked |-> FALSE]}
    /\ keychain \in {NoToken} \cup (IF mac THEN {[id |-> 2, models |-> FALSE]} ELSE {})
    /\ issuedTokens = IF keychain # NoToken THEN 2 ELSE plain.token.id
    /\ expired = {} /\ used = {} /\ fromLogin = 1 .. issuedTokens
    /\ refreshLease = NoCaller /\ caller = [c \in Callers |-> IdleCaller]
    /\ mishap = FALSE /\ overtaken = FALSE

-----------------------------------------------------------------------------
(* TokenStorage.  Each operation holds the provider lock.                  *)

\* _load with strict=True; without it a Keychain error falls back to the file.
Stored == IF plain.marked \/ keychain = NoToken THEN plain.token ELSE keychain
Loads == {Stored} \cup (IF mac THEN {plain.token} ELSE {})

Saved(p, k, ok) == [plain |-> p, keychain |-> k, ok |-> ok]

\* _save, and where it may break off: the process dies or an exception leaves.
\* A Keychain that is unavailable or refuses makes the marked file the store; a
\* helper that did not answer may have written; the old file goes last.
SaveOutcomes(t) ==
    IF mac THEN {Saved(NoFile, t, TRUE), Saved(plain, t, FALSE), Saved(plain, keychain, FALSE),
                 Saved(Fallback(t), keychain, TRUE)}
    ELSE {Saved(Fallback(t), NoToken, TRUE), Saved(plain, NoToken, FALSE)}

\* _delete: the Keychain first, the file only if that worked.
DeleteOutcomes ==
    {Saved(NoFile, NoToken, TRUE), Saved(plain, keychain, FALSE)}
        \cup (IF mac THEN {Saved(plain, NoToken, FALSE)} ELSE {})

Store(s) == plain' = s.plain /\ keychain' = s.keychain

-----------------------------------------------------------------------------
(* A call: async_get_oauth_token, or a display of the credentials.         *)

StoreAlone == UNCHANGED <<mac, plain, keychain>>
Provider == UNCHANGED <<issuedTokens, expired, used>>
NoHistory == UNCHANGED <<fromLogin, mishap, overtaken>>
Mishap(happens) == IF happens THEN ~mishap /\ mishap' = TRUE ELSE UNCHANGED mishap
StepTo(c, at) == caller' = [caller EXCEPT ![c].at = at]

\* The end of a refresh that found t: a display goes on to the models.
Ends(c, t) ==
    caller' = [caller EXCEPT ![c] =
        IF @.show /\ t # NoToken /\ ~t.models
        THEN [@ EXCEPT !.at = "models", !.input = t, !.rotated = NoToken] ELSE IdleCaller]

GetBegins(c, show) ==
    /\ caller[c].at = "idle"
    /\ \E t \in Loads \ {NoToken} :
        /\ t.id \in expired \/ (show /\ ~t.models)
        /\ caller' = [caller EXCEPT ![c] =
            [IdleCaller EXCEPT !.at = IF t.id \in expired THEN "lease" ELSE "models",
                               !.input = t, !.show = show]]
    /\ StoreAlone /\ Provider /\ NoHistory /\ UNCHANGED refreshLease

AcquireLease(c) ==
    /\ caller[c].at = "lease" /\ refreshLease = NoCaller
    /\ refreshLease' = c /\ StepTo(c, "reread")
    /\ StoreAlone /\ Provider /\ NoHistory

Unlease(c) == refreshLease' = IF refreshLease = c THEN NoCaller ELSE refreshLease

\* Mutant: cancelling the caller cancels the request as well.
MayGiveUpAnytime(c) == caller[c].at \in {"lease", "reread", "commit"}

MayGiveUp(c) == caller[c].at \in {"lease", "reread"}

\* Before the request is sent, a cancellation or the deadline ends the call.
GivesUp(c) ==
    /\ MayGiveUp(c)
    /\ Ends(c, NoToken) /\ Unlease(c)
    /\ StoreAlone /\ Provider /\ NoHistory

\* Under the lease: somebody else may have refreshed, logged in or out.
LeaseReread(c) ==
    /\ caller[c].at = "reread"
    /\ \E t \in Loads :
        \/ t = caller[c].input /\ StepTo(c, "request") /\ UNCHANGED refreshLease
        \/ /\ t # caller[c].input
           /\ Ends(c, IF t.id \in expired THEN NoToken ELSE t) /\ Unlease(c)
    /\ StoreAlone /\ Provider /\ NoHistory

\* The provider takes an unused refresh token once.
Rotates(t) ==
    /\ t.id \notin used /\ issuedTokens < MaxTokens
    /\ used' = used \cup {t.id}
    /\ issuedTokens' = issuedTokens + 1
    /\ UNCHANGED expired

RequestAnswered(c) ==
    /\ caller[c].at = "request"
    /\ \/ /\ Rotates(caller[c].input)
          /\ caller' = [caller EXCEPT ![c].at = "commit", ![c].rotated = Fresh(FALSE)]
          /\ UNCHANGED refreshLease /\ NoHistory
       \/ Ends(c, NoToken) /\ Unlease(c) /\ Provider /\ NoHistory
    /\ StoreAlone

\* The request times out, or the process dies, and the answer is lost.
AnswerLost(c) ==
    /\ caller[c].at = "request"
    /\ Rotates(caller[c].input)
    /\ Ends(c, NoToken) /\ Unlease(c)
    /\ Mishap(TRUE)
    /\ StoreAlone /\ UNCHANGED <<fromLogin, overtaken>>

\* _commit_refresh: only against the input, else whoever won is used.
Commit(c) ==
    /\ caller[c].at = "commit"
    /\ Unlease(c)
    /\ LET input == caller[c].input  rotated == caller[c].rotated IN
       \/ \E s \in SaveOutcomes(rotated) :
            /\ Stored = input /\ Store(s)
            /\ fromLogin' = fromLogin \cup {rotated.id}
            /\ Mishap(~s.ok)
            /\ Ends(c, IF s.ok THEN rotated ELSE NoToken)
            /\ UNCHANGED overtaken
       \/ \E t \in Loads :
            /\ Stored # input
            /\ Ends(c, IF t.id \in expired THEN NoToken ELSE t)
            /\ overtaken' = (overtaken \/ Stored.id = input.id)
            /\ UNCHANGED <<plain, keychain, fromLogin, mishap>>
       \/ /\ mac /\ Mishap(TRUE)        \* the Keychain cannot be read
          /\ Ends(c, NoToken) /\ UNCHANGED <<plain, keychain, fromLogin, overtaken>>
    /\ Provider /\ UNCHANGED mac

\* _tokens_for_display: the model cache is stored against the same input.
ModelsFetched(c) ==
    /\ caller[c].at = "models"
    /\ \/ /\ Stored = caller[c].input
          /\ \E s \in SaveOutcomes([caller[c].input EXCEPT !.models = TRUE]) :
                Store(s) /\ Mishap(~s.ok)
       \/ UNCHANGED <<plain, keychain, mishap>>
    /\ caller' = [caller EXCEPT ![c] = IdleCaller]
    /\ Provider /\ UNCHANGED <<mac, refreshLease, fromLogin, overtaken>>

CallerDies(c) ==
    /\ caller[c].at = "commit"
    /\ caller' = [caller EXCEPT ![c] = IdleCaller] /\ Unlease(c)
    /\ Mishap(TRUE)
    /\ StoreAlone /\ Provider /\ UNCHANGED <<fromLogin, overtaken>>

-----------------------------------------------------------------------------
(* The user and time.                                                      *)

Login ==
    /\ issuedTokens < MaxTokens /\ issuedTokens' = issuedTokens + 1
    /\ \E s \in SaveOutcomes(Fresh(TRUE)) :
        /\ Store(s)
        /\ fromLogin' = {issuedTokens + 1} \cup (IF s.ok THEN {} ELSE fromLogin)
        /\ Mishap(~s.ok)
    /\ UNCHANGED <<mac, expired, used, refreshLease, caller, overtaken>>

Logout ==
    /\ \E s \in DeleteOutcomes :
        /\ Store(s)
        /\ fromLogin' = IF s.ok THEN {} ELSE fromLogin
        /\ Mishap(~s.ok)
    /\ UNCHANGED <<mac, refreshLease, caller, overtaken>> /\ Provider

\* (Only of what can be read it matters.)
Expire ==
    /\ \E t \in Loads \ {NoToken} : t.id \notin expired /\ expired' = expired \cup {t.id}
    /\ StoreAlone /\ NoHistory /\ UNCHANGED <<issuedTokens, used, refreshLease, caller>>

-----------------------------------------------------------------------------
CallStep(c) ==
    \/ AcquireLease(c) \/ GivesUp(c) \/ LeaseReread(c) \/ RequestAnswered(c) \/ AnswerLost(c)
    \/ Commit(c) \/ ModelsFetched(c) \/ CallerDies(c)

TokenNext ==
    \/ \E c \in Callers : (\E show \in BOOLEAN : GetBegins(c, show)) \/ CallStep(c)
    \/ Login \/ Logout \/ Expire

\* Every wait has a deadline.
TokenFairness == \A c \in Callers : WF_tokenVars(CallStep(c))

TokenSpec == TokenInit /\ [][TokenNext]_tokenVars
TokenFairSpec == TokenSpec /\ TokenFairness

-----------------------------------------------------------------------------
TokenTypeOK ==
    /\ mac \in BOOLEAN
    /\ plain \in [token : Tokens, marked : BOOLEAN] \cup {NoFile}
    /\ keychain \in Tokens \cup {NoToken}
    /\ issuedTokens \in 0 .. MaxTokens
    /\ expired \subseteq TokenIds /\ used \subseteq TokenIds /\ fromLogin \subseteq TokenIds
    /\ refreshLease \in Callers \cup {NoCaller}
    /\ caller \in [Callers ->
            [at : {"idle", "lease", "reread", "request", "commit", "models"},
             input : Tokens \cup {NoToken}, rotated : Tokens \cup {NoToken}, show : BOOLEAN]]
    /\ mishap \in BOOLEAN /\ overtaken \in BOOLEAN

\* What a reader may be given, even while the Keychain cannot be read, comes
\* from the last login: no refresh, cache or leftover file undoes a command.
UserCommandStands == \A t \in Loads : t.id \in fromLogin \cup {0}

\* The provider would still take the stored refresh token, or the call that
\* used it is about to store what it got.
Refreshable ==
    \/ Stored.id \notin used
    \/ \E c \in Callers :
          caller[c].at = "commit" /\ refreshLease = c /\ caller[c].input.id = Stored.id

\* Nothing is sent twice and nothing dropped: calls in several processes, a
\* cancellation or a deadline at any point do not use up the stored credential.
StoredStaysUsable == mishap \/ overtaken \/ Refreshable

\* The credential the commands left is the one in use, and stays usable.
TokensAreSound == UserCommandStands /\ StoredStaysUsable

\* A call that asks for a credential, shows it or refreshes it gets an answer.
TokenCallsEnd == \A c \in Callers : caller[c].at # "idle" ~> caller[c].at = "idle"
=============================================================================
