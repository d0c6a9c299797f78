--------------------------- MODULE AuthentikToken ---------------------------
(***************************************************************************)
(* The access token of integrations/authentik.rs: one cache behind a       *)
(* tokio mutex, shared by every task that calls Authentik.  A caller takes *)
(* the cached token or logs in with the mutex held; a token that Authentik *)
(* refuses is dropped and the request is sent a second time, and not a     *)
(* third.                                                                  *)
(*                                                                         *)
(* Tokens are numbered in the order Authentik issues them.  Each action is *)
(* the code between two awaits, or what Authentik does with a request.     *)
(***************************************************************************)
EXTENDS Naturals

CONSTANTS Callers,       \* tasks that call Authentik concurrently
          MaxTokens,     \* bound: tokens issued
          None

ASSUME TokenAssumption == MaxTokens \in Nat /\ None \notin Callers

VARIABLES
    cached,    \* the token in the cache, or NoToken
    fresh,     \* its refresh_at has not come
    holder,    \* who holds the mutex across a login, or None
    issued,    \* the tokens issued so far
    valid,     \* the tokens Authentik accepts
    call       \* each caller's local state, and the result of its last call

vars == <<cached, fresh, holder, issued, valid, call>>

NoToken == 0
Tokens == 1..MaxTokens

Steps == {"idle", "lock", "login", "granted", "send", "carried", "drop"}

Call == [step    : Steps,
         token   : Tokens \cup {NoToken},   \* to be sent
         refused : Tokens \cup {NoToken},   \* refused at the first sending
         result  : {"answered", "failed"}]

At(c, step) == call[c].step = step

Set(c, local) == call' = [call EXCEPT ![c] = local]

Goto(c, step) == Set(c, [call[c] EXCEPT !.step = step])

Finish(c, result) ==
    Set(c, [step |-> "idle", token |-> NoToken, refused |-> NoToken,
            result |-> result])

-----------------------------------------------------------------------------

\* Any of the client's operations calls send_authenticated.
Start(c) ==
    /\ At(c, "idle")
    /\ Goto(c, "lock")
    /\ UNCHANGED <<cached, fresh, holder, issued, valid>>

Free == holder = None

\* Mutant: the mutex is given up for the time of the login.
AccessTokenUnlocked(c) ==
    /\ At(c, "lock")
    /\ Free
    /\ IF cached # NoToken /\ fresh
       THEN Set(c, [call[c] EXCEPT !.step = "send", !.token = cached])
       ELSE Goto(c, "login")
    /\ UNCHANGED <<cached, fresh, holder, issued, valid>>

(***************************************************************************)
(* access_token: with the mutex, the cached token is taken and the mutex   *)
(* released at once, or the mutex is kept for a login.                     *)
(***************************************************************************)
AccessToken(c) ==
    /\ At(c, "lock")
    /\ Free
    /\ IF cached # NoToken /\ fresh
       THEN /\ Set(c, [call[c] EXCEPT !.step = "send", !.token = cached])
            /\ UNCHANGED holder
       ELSE /\ Goto(c, "login")
            /\ holder' = c
    /\ UNCHANGED <<cached, fresh, issued, valid>>

\* Authentik grants a token.  The answer is still on its way.
Grant(c) ==
    /\ At(c, "login")
    /\ issued < MaxTokens
    /\ issued' = issued + 1
    /\ valid' = valid \cup {issued'}
    /\ Set(c, [call[c] EXCEPT !.step = "granted", !.token = issued'])
    /\ UNCHANGED <<cached, fresh, holder>>

StoreToken(c) ==
    /\ At(c, "granted")
    /\ cached' = call[c].token
    /\ fresh' = TRUE
    /\ holder' = None
    /\ Goto(c, "send")
    /\ UNCHANGED <<issued, valid>>

\* Mutant: a login that fails leaves the mutex locked.
LoginFailsLocked(c) ==
    /\ At(c, "login") \/ At(c, "granted")
    /\ Finish(c, "failed")
    /\ UNCHANGED <<cached, fresh, holder, issued, valid>>

\* No answer, an error status, or a token that is empty or lives 0 seconds.
LoginFails(c) ==
    /\ At(c, "login") \/ At(c, "granted")
    /\ holder' = None
    /\ Finish(c, "failed")
    /\ UNCHANGED <<cached, fresh, issued, valid>>

-----------------------------------------------------------------------------

CarryOut(c) ==
    /\ At(c, "send")
    /\ call[c].token \in valid
    /\ Goto(c, "carried")
    /\ UNCHANGED <<cached, fresh, holder, issued, valid>>

Answer(c) ==
    /\ At(c, "carried")
    /\ Finish(c, "answered")
    /\ UNCHANGED <<cached, fresh, holder, issued, valid>>

\* Mutant: a request without an answer is sent again.
SendAgain(c) ==
    /\ At(c, "send") \/ At(c, "carried")
    /\ IF call[c].refused = NoToken
       THEN Set(c, [call[c] EXCEPT !.step = "drop", !.refused = call[c].token])
       ELSE Finish(c, "failed")
    /\ UNCHANGED <<cached, fresh, holder, issued, valid>>

\* No connection, no answer in time, or any status but success and 401.
SendFails(c) ==
    /\ At(c, "send") \/ At(c, "carried")
    /\ Finish(c, "failed")
    /\ UNCHANGED <<cached, fresh, holder, issued, valid>>

\* Mutant: authenticate and send until the request is not refused.
UnauthorizedLoop(c) ==
    /\ At(c, "send")
    /\ call[c].token \notin valid
    /\ Goto(c, "lock")
    /\ UNCHANGED <<cached, fresh, holder, issued, valid>>

\* Mutant: send again at once, and leave the cache as it is.
UnauthorizedKept(c) ==
    /\ At(c, "send")
    /\ call[c].token \notin valid
    /\ IF call[c].refused = NoToken
       THEN Set(c, [call[c] EXCEPT !.step = "lock", !.refused = call[c].token])
       ELSE Finish(c, "failed")
    /\ UNCHANGED <<cached, fresh, holder, issued, valid>>

\* 401: the first one leads to a second sending, the second one is an error.
Unauthorized(c) ==
    /\ At(c, "send")
    /\ call[c].token \notin valid
    /\ IF call[c].refused = NoToken
       THEN Set(c, [call[c] EXCEPT !.step = "drop", !.refused = call[c].token])
       ELSE Finish(c, "failed")
    /\ UNCHANGED <<cached, fresh, holder, issued, valid>>

\* Mutant: whatever the cache holds is dropped.
RefusedOrNewer(c) == cached # NoToken

IsRefused(c) == cached = call[c].refused

InvalidateAccessToken(c) ==
    /\ At(c, "drop")
    /\ Free
    /\ cached' = IF IsRefused(c) THEN NoToken ELSE cached
    /\ Goto(c, "lock")
    /\ UNCHANGED <<fresh, holder, issued, valid>>

-----------------------------------------------------------------------------

\* The cached token comes to its refresh_at.
Ages ==
    /\ cached # NoToken
    /\ fresh
    /\ fresh' = FALSE
    /\ UNCHANGED <<cached, holder, issued, valid, call>>

\* Authentik accepts a token no more: it has expired or was revoked.
Expires(t) ==
    /\ t \in valid
    /\ valid' = valid \ {t}
    /\ UNCHANGED <<cached, fresh, holder, issued, call>>

Init ==
    /\ cached = NoToken
    /\ fresh = FALSE
    /\ holder = None
    /\ issued = 0
    /\ valid = {}
    /\ call = [c \in Callers |-> [step |-> "idle", token |-> NoToken,
                                  refused |-> NoToken, result |-> "answered"]]

\* What a caller does that waits for no mutex: every request has a timeout.
Proceed(c) ==
    \/ Grant(c) \/ StoreToken(c) \/ LoginFails(c)
    \/ CarryOut(c) \/ Answer(c) \/ SendFails(c) \/ Unauthorized(c)

Lock(c) == AccessToken(c) \/ InvalidateAccessToken(c)

Next ==
    \/ \E c \in Callers : Start(c) \/ Lock(c) \/ Proceed(c)
    \/ Ages
    \/ \E t \in Tokens : Expires(t)

Spec == Init /\ [][Next]_vars

(***************************************************************************)
(* Tokio runs every caller on and every request ends in an answer or a     *)
(* timeout (authentik.rs:92).  A tokio mutex serves its waiters in the     *)
(* order they came, so a caller to whom it is free again and again gets it.*)
(***************************************************************************)
FairSpec ==
    /\ Spec
    /\ \A c \in Callers : WF_vars(Proceed(c)) /\ SF_vars(Lock(c))

-----------------------------------------------------------------------------

(***************************************************************************)
(* The cache, Authentik and the callers hold what they should, and who     *)
(* holds the mutex is logging in.                                          *)
(***************************************************************************)
TypeOK ==
    /\ cached \in Tokens \cup {NoToken}
    /\ fresh \in BOOLEAN
    /\ holder = None \/ holder \in {c \in Callers : At(c, "login") \/ At(c, "granted")}
    /\ issued \in Nat /\ issued <= MaxTokens
    /\ valid \subseteq 1..issued
    /\ call \in [Callers -> Call]

(***************************************************************************)
(* A token that is fresh and that Authentik accepts stays in the cache: no *)
(* 401 that answers a request with an older token takes it away, and no    *)
(* slow login overwrites it.                                               *)
(***************************************************************************)
GoodTokenStays ==
    [][fresh /\ cached \in valid => cached' = cached]_vars

(***************************************************************************)
(* Callers that need a token at the same time share one login: while the   *)
(* cache holds a token that can be used nobody asks for another.           *)
(***************************************************************************)
LoginsAreNeeded ==
    [][issued' # issued => cached = NoToken \/ ~fresh]_vars

(***************************************************************************)
(* The second sending of a request uses a token issued later than the one  *)
(* that was refused, whatever other callers did in between; so a call that *)
(* fails with 401 has had two different tokens refused.                    *)
(***************************************************************************)
RetryUsesNewerToken ==
    \A c \in Callers :
        At(c, "send") \/ At(c, "carried") => call[c].token > call[c].refused

(***************************************************************************)
(* Every call comes back: nobody waits for the mutex for ever, and no      *)
(* request is sent again and again.                                        *)
(***************************************************************************)
CallsReturn ==
    \A c \in Callers : ~At(c, "idle") ~> At(c, "idle")

Phase(c) ==
    CASE call[c].step = "idle"    -> call[c].result
      [] call[c].step = "carried" -> "effected"
      [] OTHER                    -> "open"

Calls == INSTANCE AuthentikCalls WITH phase <- [c \in Callers |-> Phase(c)]

(***************************************************************************)
(* Although a request may be sent twice, it takes effect at most once, and *)
(* a caller is told of success only if it did: the contract by which the   *)
(* onboarding handlers call find, create, add to group and recovery link.  *)
(***************************************************************************)
ImplementsCalls == Calls!CallsSpec

=============================================================================
