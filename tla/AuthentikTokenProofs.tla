------------------------ MODULE AuthentikTokenProofs ------------------------
(***************************************************************************)
(* Proofs about AuthentikToken, for any number of callers and tokens.  The *)
(* argument rests on the order of tokens: the cache only ever moves to     *)
(* tokens issued later, because the mutex is held from the login to the    *)
(* store, and a token that was refused stays refused.                      *)
(***************************************************************************)
EXTENDS AuthentikToken, TLAPS

LoggingIn(c) == At(c, "login") \/ At(c, "granted")

\* One caller logs in at a time, and only without a token to use.
LoginInv ==
    \A c \in Callers : LoggingIn(c) =>
        holder = c /\ (cached = NoToken \/ ~fresh)

\* A token just granted is later than every token anybody has seen.
GrantInv ==
    \A c \in Callers : At(c, "granted") =>
        /\ call[c].token = issued
        /\ issued > 0
        /\ cached < issued
        /\ call[c].refused < issued
        /\ \A d \in Callers \ {c} :
              call[d].token < issued /\ call[d].refused < issued

\* The cache is not older than what a caller holds, nor what it was refused.
OrderInv ==
    /\ cached <= issued
    /\ \A c \in Callers :
        /\ call[c].token <= issued
        /\ call[c].refused <= issued
        /\ call[c].refused \notin valid
        /\ cached # NoToken => cached >= call[c].refused
        /\ At(c, "idle") => call[c].refused = NoToken
        /\ At(c, "send") \/ At(c, "carried") =>
              /\ call[c].token > call[c].refused
              /\ cached # NoToken => cached >= call[c].token
        /\ At(c, "lock") \/ At(c, "login") =>
              cached = NoToken \/ cached # call[c].refused

IInv == TypeOK /\ LoginInv /\ GrantInv /\ OrderInv

-----------------------------------------------------------------------------

LEMMA CallFields ==
    ASSUME TypeOK, NEW c \in Callers
    PROVE  /\ call[c] \in Call
           /\ call[c].step \in Steps
           /\ call[c].token \in Nat /\ call[c].refused \in Nat
           /\ cached \in Nat /\ issued \in Nat
  BY TokenAssumption DEF TypeOK, Call, Tokens, NoToken

LEMMA LocalStep ==
    ASSUME TypeOK, NEW c \in Callers, NEW local, Set(c, local)
    PROVE  /\ call'[c] = local
           /\ \A d \in Callers \ {c} : call'[d] = call[d]
           /\ local \in Call => call' \in [Callers -> Call]
  BY DEF TypeOK, Set

LEMMA InitIInv == Init => IInv
  <1> SUFFICES ASSUME Init PROVE IInv
    OBVIOUS
  <1>1. \A c \in Callers : call[c].step = "idle" /\ call[c].token = 0
                             /\ call[c].refused = 0
    BY DEF Init, NoToken
  <1>2. TypeOK
    <2>1. [step |-> "idle", token |-> NoToken, refused |-> NoToken,
           result |-> "answered"] \in Call
      BY DEF Call, Steps
    <2>2. call \in [Callers -> Call]
      BY <2>1 DEF Init
    <2>3. cached = NoToken /\ fresh = FALSE /\ holder = None /\ issued = 0
          /\ valid = {}
      BY DEF Init
    <2>4. cached \in Tokens \cup {NoToken} /\ fresh \in BOOLEAN
          /\ (holder = None \/ holder \in {c \in Callers : At(c, "login") \/ At(c, "granted")})
      BY <2>3
    <2>5. issued \in Nat /\ issued <= MaxTokens /\ valid \subseteq 1..issued
      BY <2>3, TokenAssumption
    <2> QED
      BY <2>2, <2>4, <2>5 DEF TypeOK
  <1>3. LoginInv /\ GrantInv
    BY <1>1 DEF LoginInv, GrantInv, LoggingIn, At
  <1>4. OrderInv
    BY <1>1 DEF OrderInv, At, Init, NoToken
  <1> QED
    BY <1>2, <1>3, <1>4 DEF IInv

LEMMA StartIInv ==
    ASSUME IInv, NEW c \in Callers, Start(c)
    PROVE  IInv'
  <1> DEFINE local == [call[c] EXCEPT !.step = "lock"]
  <1>0. call[c] \in Call
    BY CallFields DEF IInv
  <1>1. /\ call'[c] = local
        /\ \A d \in Callers \ {c} : call'[d] = call[d]
        /\ local \in Call => call' \in [Callers -> Call]
    BY LocalStep DEF Start, Goto, IInv
  <1>2. /\ local.step = "lock"
        /\ local.token = call[c].token /\ local.refused = call[c].refused
    BY <1>0 DEF Call
  <1>3. UNCHANGED <<cached, fresh, holder, issued, valid>> /\ call[c].step = "idle"
    BY DEF Start, At
  <1>4. local \in Call
    BY <1>0, <1>2, <1>3 DEF Call, Steps, IInv, TypeOK
  <1> HIDE DEF local
  <1>5. TypeOK'
    BY <1>0, <1>1, <1>2, <1>3, <1>4, TokenAssumption
    DEF IInv, TypeOK, At, LoginInv, LoggingIn, Tokens, Call
  <1>6. LoginInv'
    BY <1>1, <1>2, <1>3, TokenAssumption DEF IInv, LoginInv, LoggingIn, At
  <1>7. GrantInv'
    BY <1>1, <1>2, <1>3, CallFields, TokenAssumption
    DEF IInv, GrantInv, LoginInv, LoggingIn, OrderInv, At, NoToken
  <1>8. OrderInv'
    BY <1>1, <1>2, <1>3, CallFields, TokenAssumption
    DEF IInv, TypeOK, OrderInv, LoginInv, GrantInv, LoggingIn, At, NoToken
  <1> QED
    BY <1>5, <1>6, <1>7, <1>8 DEF IInv

LEMMA TakeIInv ==
    ASSUME IInv, NEW c \in Callers, AccessToken(c), cached # NoToken /\ fresh
    PROVE  IInv'
  <1> DEFINE local == [call[c] EXCEPT !.step = "send", !.token = cached]
  <1>0. call[c] \in Call
    BY CallFields DEF IInv
  <1>1. /\ call'[c] = local
        /\ \A d \in Callers \ {c} : call'[d] = call[d]
        /\ local \in Call => call' \in [Callers -> Call]
    BY LocalStep DEF AccessToken, Free, IInv
  <1>2. /\ local.step = "send"
        /\ local.token = cached /\ local.refused = call[c].refused
    BY <1>0 DEF Call
  <1>3. /\ UNCHANGED <<cached, fresh, holder, issued, valid>>
        /\ call[c].step = "lock" /\ holder = None /\ cached # NoToken
    BY DEF AccessToken, Free, At
  <1>4. local \in Call
    BY <1>0, <1>2, <1>3 DEF Call, Steps, IInv, TypeOK
  <1> HIDE DEF local
  <1>5. TypeOK'
    BY <1>0, <1>1, <1>2, <1>3, <1>4, TokenAssumption
    DEF IInv, TypeOK, At, LoginInv, LoggingIn, Tokens, Call
  <1>6. LoginInv'
    BY <1>1, <1>2, <1>3, TokenAssumption DEF IInv, LoginInv, LoggingIn, At
  <1>7. GrantInv'
    BY <1>1, <1>2, <1>3, CallFields, TokenAssumption
    DEF IInv, GrantInv, LoginInv, LoggingIn, OrderInv, At, NoToken
  <1>8. OrderInv'
    BY <1>1, <1>2, <1>3, CallFields, TokenAssumption
    DEF IInv, TypeOK, OrderInv, LoginInv, GrantInv, LoggingIn, At, NoToken
  <1> QED
    BY <1>5, <1>6, <1>7, <1>8 DEF IInv

LEMMA LockIInv ==
    ASSUME IInv, NEW c \in Callers, AccessToken(c), ~(cached # NoToken /\ fresh)
    PROVE  IInv'
  <1> DEFINE local == [call[c] EXCEPT !.step = "login"]
  <1>0. call[c] \in Call
    BY CallFields DEF IInv
  <1>1. /\ call'[c] = local
        /\ \A d \in Callers \ {c} : call'[d] = call[d]
        /\ local \in Call => call' \in [Callers -> Call]
    BY LocalStep DEF AccessToken, Free, Goto, IInv
  <1>2. /\ local.step = "login"
        /\ local.token = call[c].token /\ local.refused = call[c].refused
    BY <1>0 DEF Call
  <1>3. /\ UNCHANGED <<cached, fresh, issued, valid>>
        /\ call[c].step = "lock" /\ holder = None /\ holder' = c
        /\ cached = NoToken \/ ~fresh
    BY DEF AccessToken, Free, Goto, At
  <1>4. local \in Call
    BY <1>0, <1>2, <1>3 DEF Call, Steps, IInv, TypeOK
  <1> HIDE DEF local
  <1>5. TypeOK'
    BY <1>0, <1>1, <1>2, <1>3, <1>4, TokenAssumption
    DEF IInv, TypeOK, At, LoginInv, LoggingIn, Tokens, Call
  <1>6. LoginInv'
    BY <1>1, <1>2, <1>3, TokenAssumption DEF IInv, LoginInv, LoggingIn, At
  <1>7. GrantInv'
    BY <1>1, <1>2, <1>3, CallFields, TokenAssumption
    DEF IInv, GrantInv, LoginInv, LoggingIn, OrderInv, At, NoToken
  <1>8. OrderInv'
    BY <1>1, <1>2, <1>3, CallFields, TokenAssumption
    DEF IInv, TypeOK, OrderInv, LoginInv, GrantInv, LoggingIn, At, NoToken
  <1> QED
    BY <1>5, <1>6, <1>7, <1>8 DEF IInv

LEMMA GrantIInv ==
    ASSUME IInv, NEW c \in Callers, Grant(c)
    PROVE  IInv'
  <1> DEFINE local == [call[c] EXCEPT !.step = "granted", !.token = issued']
  <1>0. call[c] \in Call
    BY CallFields DEF IInv
  <1>1. /\ call'[c] = local
        /\ \A d \in Callers \ {c} : call'[d] = call[d]
        /\ local \in Call => call' \in [Callers -> Call]
    BY LocalStep DEF Grant, IInv
  <1>2. /\ local.step = "granted"
        /\ local.token = issued' /\ local.refused = call[c].refused
    BY <1>0 DEF Call
  <1>3. /\ UNCHANGED <<cached, fresh, holder>> /\ call[c].step = "login"
        /\ issued < MaxTokens /\ issued' = issued + 1
        /\ valid' = valid \cup {issued'}
    BY DEF Grant, At
  <1>a. issued' \in Tokens
    BY <1>3, TokenAssumption DEF IInv, TypeOK, Tokens
  <1>4. local \in Call
    BY <1>0, <1>2, <1>3, <1>a DEF Call, Steps, IInv, TypeOK
  <1> HIDE DEF local
  <1>5. TypeOK'
    BY <1>0, <1>1, <1>2, <1>3, <1>4, TokenAssumption
    DEF IInv, TypeOK, At, LoginInv, LoggingIn, Tokens, Call
  <1>6. LoginInv'
    BY <1>1, <1>2, <1>3, TokenAssumption DEF IInv, LoginInv, LoggingIn, At
  <1>7. GrantInv'
    BY <1>1, <1>2, <1>3, CallFields, TokenAssumption
    DEF IInv, GrantInv, LoginInv, LoggingIn, OrderInv, At, NoToken
  <1>8. OrderInv'
    BY <1>1, <1>2, <1>3, CallFields, TokenAssumption
    DEF IInv, TypeOK, OrderInv, LoginInv, GrantInv, LoggingIn, At, NoToken
  <1> QED
    BY <1>5, <1>6, <1>7, <1>8 DEF IInv

LEMMA StoreIInv ==
    ASSUME IInv, NEW c \in Callers, StoreToken(c)
    PROVE  IInv'
  <1> DEFINE local == [call[c] EXCEPT !.step = "send"]
  <1>0. call[c] \in Call
    BY CallFields DEF IInv
  <1>1. /\ call'[c] = local
        /\ \A d \in Callers \ {c} : call'[d] = call[d]
        /\ local \in Call => call' \in [Callers -> Call]
    BY LocalStep DEF StoreToken, Goto, IInv
  <1>2. /\ local.step = "send"
        /\ local.token = call[c].token /\ local.refused = call[c].refused
    BY <1>0 DEF Call
  <1>3. /\ cached' = call[c].token /\ fresh' = TRUE /\ holder' = None
        /\ UNCHANGED <<issued, valid>> /\ call[c].step = "granted"
    BY DEF StoreToken, At
  <1>4. local \in Call
    BY <1>0, <1>2, <1>3 DEF Call, Steps, IInv, TypeOK
  <1> HIDE DEF local
  <1>5. TypeOK'
    BY <1>0, <1>1, <1>2, <1>3, <1>4, TokenAssumption
    DEF IInv, TypeOK, At, LoginInv, LoggingIn, Tokens, Call
  <1>6. LoginInv'
    BY <1>1, <1>2, <1>3, TokenAssumption DEF IInv, LoginInv, LoggingIn, At
  <1>7. GrantInv'
    BY <1>1, <1>2, <1>3, CallFields, TokenAssumption
    DEF IInv, GrantInv, LoginInv, LoggingIn, OrderInv, At, NoToken
  <1>8. OrderInv'
    BY <1>1, <1>2, <1>3, CallFields, TokenAssumption
    DEF IInv, TypeOK, OrderInv, LoginInv, GrantInv, LoggingIn, At, NoToken
  <1> QED
    BY <1>5, <1>6, <1>7, <1>8 DEF IInv

LEMMA LoginFailsIInv ==
    ASSUME IInv, NEW c \in Callers, LoginFails(c)
    PROVE  IInv'
  <1> DEFINE local == [step |-> "idle", token |-> NoToken, refused |-> NoToken,
                       result |-> "failed"]
  <1>0. call[c] \in Call
    BY CallFields DEF IInv
  <1>1. /\ call'[c] = local
        /\ \A d \in Callers \ {c} : call'[d] = call[d]
        /\ local \in Call => call' \in [Callers -> Call]
    BY LocalStep DEF LoginFails, Finish, IInv
  <1>2. /\ local.step = "idle"
        /\ local.token = 0 /\ local.refused = 0
    BY <1>0 DEF Call, NoToken
  <1>3. /\ holder' = None /\ UNCHANGED <<cached, fresh, issued, valid>>
        /\ call[c].step = "login" \/ call[c].step = "granted"
    BY DEF LoginFails, Finish, At
  <1>4. local \in Call
    BY <1>0, <1>2, <1>3 DEF Call, Steps, IInv, TypeOK
  <1> HIDE DEF local
  <1>5. TypeOK'
    BY <1>0, <1>1, <1>2, <1>3, <1>4, TokenAssumption
    DEF IInv, TypeOK, At, LoginInv, LoggingIn, Tokens, Call
  <1>6. LoginInv'
    BY <1>1, <1>2, <1>3, TokenAssumption DEF IInv, LoginInv, LoggingIn, At
  <1>7. GrantInv'
    BY <1>1, <1>2, <1>3, CallFields, TokenAssumption
    DEF IInv, GrantInv, LoginInv, LoggingIn, OrderInv, At, NoToken
  <1>8. OrderInv'
    BY <1>1, <1>2, <1>3, CallFields, TokenAssumption
    DEF IInv, TypeOK, OrderInv, LoginInv, GrantInv, LoggingIn, At, NoToken
  <1> QED
    BY <1>5, <1>6, <1>7, <1>8 DEF IInv

LEMMA CarryOutIInv ==
    ASSUME IInv, NEW c \in Callers, CarryOut(c)
    PROVE  IInv'
  <1> DEFINE local == [call[c] EXCEPT !.step = "carried"]
  <1>0. call[c] \in Call
    BY CallFields DEF IInv
  <1>1. /\ call'[c] = local
        /\ \A d \in Callers \ {c} : call'[d] = call[d]
        /\ local \in Call => call' \in [Callers -> Call]
    BY LocalStep DEF CarryOut, Goto, IInv
  <1>2. /\ local.step = "carried"
        /\ local.token = call[c].token /\ local.refused = call[c].refused
    BY <1>0 DEF Call
  <1>3. UNCHANGED <<cached, fresh, holder, issued, valid>> /\ call[c].step = "send"
    BY DEF CarryOut, At
  <1>4. local \in Call
    BY <1>0, <1>2, <1>3 DEF Call, Steps, IInv, TypeOK
  <1> HIDE DEF local
  <1>5. TypeOK'
    BY <1>0, <1>1, <1>2, <1>3, <1>4, TokenAssumption
    DEF IInv, TypeOK, At, LoginInv, LoggingIn, Tokens, Call
  <1>6. LoginInv'
    BY <1>1, <1>2, <1>3, TokenAssumption DEF IInv, LoginInv, LoggingIn, At
  <1>7. GrantInv'
    BY <1>1, <1>2, <1>3, CallFields, TokenAssumption
    DEF IInv, GrantInv, LoginInv, LoggingIn, OrderInv, At, NoToken
  <1>8. OrderInv'
    BY <1>1, <1>2, <1>3, CallFields, TokenAssumption
    DEF IInv, TypeOK, OrderInv, LoginInv, GrantInv, LoggingIn, At, NoToken
  <1> QED
    BY <1>5, <1>6, <1>7, <1>8 DEF IInv

LEMMA AnswerIInv ==
    ASSUME IInv, NEW c \in Callers, Answer(c)
    PROVE  IInv'
  <1> DEFINE local == [step |-> "idle", token |-> NoToken, refused |-> NoToken,
                       result |-> "answered"]
  <1>0. call[c] \in Call
    BY CallFields DEF IInv
  <1>1. /\ call'[c] = local
        /\ \A d \in Callers \ {c} : call'[d] = call[d]
        /\ local \in Call => call' \in [Callers -> Call]
    BY LocalStep DEF Answer, Finish, IInv
  <1>2. /\ local.step = "idle"
        /\ local.token = 0 /\ local.refused = 0
    BY <1>0 DEF Call, NoToken
  <1>3. UNCHANGED <<cached, fresh, holder, issued, valid>> /\ call[c].step = "carried"
    BY DEF Answer, Finish, At
  <1>4. local \in Call
    BY <1>0, <1>2, <1>3 DEF Call, Steps, IInv, TypeOK
  <1> HIDE DEF local
  <1>5. TypeOK'
    BY <1>0, <1>1, <1>2, <1>3, <1>4, TokenAssumption
    DEF IInv, TypeOK, At, LoginInv, LoggingIn, Tokens, Call
  <1>6. LoginInv'
    BY <1>1, <1>2, <1>3, TokenAssumption DEF IInv, LoginInv, LoggingIn, At
  <1>7. GrantInv'
    BY <1>1, <1>2, <1>3, CallFields, TokenAssumption
    DEF IInv, GrantInv, LoginInv, LoggingIn, OrderInv, At, NoToken
  <1>8. OrderInv'
    BY <1>1, <1>2, <1>3, CallFields, TokenAssumption
    DEF IInv, TypeOK, OrderInv, LoginInv, GrantInv, LoggingIn, At, NoToken
  <1> QED
    BY <1>5, <1>6, <1>7, <1>8 DEF IInv

LEMMA SendFailsIInv ==
    ASSUME IInv, NEW c \in Callers, SendFails(c)
    PROVE  IInv'
  <1> DEFINE local == [step |-> "idle", token |-> NoToken, refused |-> NoToken,
                       result |-> "failed"]
  <1>0. call[c] \in Call
    BY CallFields DEF IInv
  <1>1. /\ call'[c] = local
        /\ \A d \in Callers \ {c} : call'[d] = call[d]
        /\ local \in Call => call' \in [Callers -> Call]
    BY LocalStep DEF SendFails, Finish, IInv
  <1>2. /\ local.step = "idle"
        /\ local.token = 0 /\ local.refused = 0
    BY <1>0 DEF Call, NoToken
  <1>3. /\ UNCHANGED <<cached, fresh, holder, issued, valid>>
        /\ call[c].step = "send" \/ call[c].step = "carried"
    BY DEF SendFails, Finish, At
  <1>4. local \in Call
    BY <1>0, <1>2, <1>3 DEF Call, Steps, IInv, TypeOK
  <1> HIDE DEF local
  <1>5. TypeOK'
    BY <1>0, <1>1, <1>2, <1>3, <1>4, TokenAssumption
    DEF IInv, TypeOK, At, LoginInv, LoggingIn, Tokens, Call
  <1>6. LoginInv'
    BY <1>1, <1>2, <1>3, TokenAssumption DEF IInv, LoginInv, LoggingIn, At
  <1>7. GrantInv'
    BY <1>1, <1>2, <1>3, CallFields, TokenAssumption
    DEF IInv, GrantInv, LoginInv, LoggingIn, OrderInv, At, NoToken
  <1>8. OrderInv'
    BY <1>1, <1>2, <1>3, CallFields, TokenAssumption
    DEF IInv, TypeOK, OrderInv, LoginInv, GrantInv, LoggingIn, At, NoToken
  <1> QED
    BY <1>5, <1>6, <1>7, <1>8 DEF IInv

LEMMA RefusedIInv ==
    ASSUME IInv, NEW c \in Callers, Unauthorized(c), call[c].refused = NoToken
    PROVE  IInv'
  <1> DEFINE local == [call[c] EXCEPT !.step = "drop", !.refused = call[c].token]
  <1>0. call[c] \in Call
    BY CallFields DEF IInv
  <1>1. /\ call'[c] = local
        /\ \A d \in Callers \ {c} : call'[d] = call[d]
        /\ local \in Call => call' \in [Callers -> Call]
    BY LocalStep DEF Unauthorized, IInv
  <1>2. /\ local.step = "drop"
        /\ local.token = call[c].token /\ local.refused = call[c].token
    BY <1>0 DEF Call
  <1>3. /\ UNCHANGED <<cached, fresh, holder, issued, valid>>
        /\ call[c].step = "send" /\ call[c].token \notin valid
    BY DEF Unauthorized, At
  <1>4. local \in Call
    BY <1>0, <1>2, <1>3 DEF Call, Steps, IInv, TypeOK
  <1> HIDE DEF local
  <1>5. TypeOK'
    BY <1>0, <1>1, <1>2, <1>3, <1>4, TokenAssumption
    DEF IInv, TypeOK, At, LoginInv, LoggingIn, Tokens, Call
  <1>6. LoginInv'
    BY <1>1, <1>2, <1>3, TokenAssumption DEF IInv, LoginInv, LoggingIn, At
  <1>7. GrantInv'
    BY <1>1, <1>2, <1>3, CallFields, TokenAssumption
    DEF IInv, GrantInv, LoginInv, LoggingIn, OrderInv, At, NoToken
  <1>8. OrderInv'
    BY <1>1, <1>2, <1>3, CallFields, TokenAssumption
    DEF IInv, TypeOK, OrderInv, LoginInv, GrantInv, LoggingIn, At, NoToken
  <1> QED
    BY <1>5, <1>6, <1>7, <1>8 DEF IInv

LEMMA RefusedAgainIInv ==
    ASSUME IInv, NEW c \in Callers, Unauthorized(c), call[c].refused # NoToken
    PROVE  IInv'
  <1> DEFINE local == [step |-> "idle", token |-> NoToken, refused |-> NoToken,
                       result |-> "failed"]
  <1>0. call[c] \in Call
    BY CallFields DEF IInv
  <1>1. /\ call'[c] = local
        /\ \A d \in Callers \ {c} : call'[d] = call[d]
        /\ local \in Call => call' \in [Callers -> Call]
    BY LocalStep DEF Unauthorized, Finish, IInv
  <1>2. /\ local.step = "idle"
        /\ local.token = 0 /\ local.refused = 0
    BY <1>0 DEF Call, NoToken
  <1>3. UNCHANGED <<cached, fresh, holder, issued, valid>> /\ call[c].step = "send"
    BY DEF Unauthorized, Finish, At
  <1>4. local \in Call
    BY <1>0, <1>2, <1>3 DEF Call, Steps, IInv, TypeOK
  <1> HIDE DEF local
  <1>5. TypeOK'
    BY <1>0, <1>1, <1>2, <1>3, <1>4, TokenAssumption
    DEF IInv, TypeOK, At, LoginInv, LoggingIn, Tokens, Call
  <1>6. LoginInv'
    BY <1>1, <1>2, <1>3, TokenAssumption DEF IInv, LoginInv, LoggingIn, At
  <1>7. GrantInv'
    BY <1>1, <1>2, <1>3, CallFields, TokenAssumption
    DEF IInv, GrantInv, LoginInv, LoggingIn, OrderInv, At, NoToken
  <1>8. OrderInv'
    BY <1>1, <1>2, <1>3, CallFields, TokenAssumption
    DEF IInv, TypeOK, OrderInv, LoginInv, GrantInv, LoggingIn, At, NoToken
  <1> QED
    BY <1>5, <1>6, <1>7, <1>8 DEF IInv

LEMMA DropIInv ==
    ASSUME IInv, NEW c \in Callers, InvalidateAccessToken(c)
    PROVE  IInv'
  <1> DEFINE local == [call[c] EXCEPT !.step = "lock"]
  <1>0. call[c] \in Call
    BY CallFields DEF IInv
  <1>1. /\ call'[c] = local
        /\ \A d \in Callers \ {c} : call'[d] = call[d]
        /\ local \in Call => call' \in [Callers -> Call]
    BY LocalStep DEF InvalidateAccessToken, Free, IsRefused, Goto, IInv
  <1>2. /\ local.step = "lock"
        /\ local.token = call[c].token /\ local.refused = call[c].refused
    BY <1>0 DEF Call
  <1>3. /\ cached' = (IF cached = call[c].refused THEN NoToken ELSE cached)
        /\ UNCHANGED <<fresh, holder, issued, valid>>
        /\ call[c].step = "drop" /\ holder = None
    BY DEF InvalidateAccessToken, Free, IsRefused, Goto, At
  <1>4. local \in Call
    BY <1>0, <1>2, <1>3 DEF Call, Steps, IInv, TypeOK
  <1> HIDE DEF local
  <1>5. TypeOK'
    BY <1>0, <1>1, <1>2, <1>3, <1>4, TokenAssumption
    DEF IInv, TypeOK, At, LoginInv, LoggingIn, Tokens, Call
  <1>6. LoginInv'
    BY <1>1, <1>2, <1>3, TokenAssumption DEF IInv, LoginInv, LoggingIn, At
  <1>7. GrantInv'
    BY <1>1, <1>2, <1>3, CallFields, TokenAssumption
    DEF IInv, GrantInv, LoginInv, LoggingIn, OrderInv, At, NoToken
  <1>8. OrderInv'
    BY <1>1, <1>2, <1>3, CallFields, TokenAssumption
    DEF IInv, TypeOK, OrderInv, LoginInv, GrantInv, LoggingIn, At, NoToken
  <1> QED
    BY <1>5, <1>6, <1>7, <1>8 DEF IInv

LEMMA AgesIInv ==
    ASSUME IInv, Ages
    PROVE  IInv'
  <1>1. UNCHANGED <<cached, holder, issued, valid, call>> /\ fresh' = FALSE
    BY DEF Ages
  <1> QED
    BY <1>1 DEF IInv, TypeOK, LoginInv, GrantInv, OrderInv, At, LoggingIn

LEMMA ExpiresIInv ==
    ASSUME IInv, NEW t \in Tokens, Expires(t)
    PROVE  IInv'
  <1>1. UNCHANGED <<cached, fresh, holder, issued, call>> /\ valid' \subseteq valid
    BY DEF Expires
  <1>2. TypeOK' /\ LoginInv' /\ GrantInv'
    BY <1>1 DEF IInv, TypeOK, LoginInv, GrantInv, At, LoggingIn
  <1>3. OrderInv'
    BY <1>1 DEF IInv, OrderInv, At
  <1> QED
    BY <1>2, <1>3 DEF IInv

LEMMA NextIInv ==
    ASSUME IInv, [Next]_vars
    PROVE  IInv'
  <1>1. ASSUME NEW c \in Callers, Start(c) \/ Lock(c) \/ Proceed(c)
        PROVE  IInv'
    <2>1. CASE Start(c)
      BY <2>1, StartIInv
    <2>2. CASE AccessToken(c)
      BY <2>2, TakeIInv, LockIInv
    <2>3. CASE InvalidateAccessToken(c)
      BY <2>3, DropIInv
    <2>4. CASE Grant(c)
      BY <2>4, GrantIInv
    <2>5. CASE StoreToken(c)
      BY <2>5, StoreIInv
    <2>6. CASE LoginFails(c)
      BY <2>6, LoginFailsIInv
    <2>7. CASE CarryOut(c)
      BY <2>7, CarryOutIInv
    <2>8. CASE Answer(c)
      BY <2>8, AnswerIInv
    <2>9. CASE SendFails(c)
      BY <2>9, SendFailsIInv
    <2>10. CASE Unauthorized(c)
      BY <2>10, RefusedIInv, RefusedAgainIInv
    <2> QED
      BY <1>1, <2>1, <2>2, <2>3, <2>4, <2>5, <2>6, <2>7, <2>8, <2>9, <2>10
      DEF Lock, Proceed
  <1>2. ASSUME NEW t \in Tokens, Expires(t)
        PROVE  IInv'
    BY <1>2, ExpiresIInv
  <1>3. CASE UNCHANGED vars
    BY <1>3 DEF vars, IInv, TypeOK, LoginInv, GrantInv, OrderInv, At, LoggingIn
  <1> QED
    BY <1>1, <1>2, <1>3, AgesIInv DEF Next

\* The inductive invariant holds of every behaviour of the client.
THEOREM Invariance == Spec => []IInv
  BY InitIInv, NextIInv, PTL DEF Spec

\* Cache, mutex and callers keep their types.
THEOREM TypeCorrect == Spec => []TypeOK
  BY Invariance, PTL DEF IInv

\* A second sending uses a token issued after the one that was refused.
THEOREM RetryUsesNewerTokenHolds == Spec => []RetryUsesNewerToken
  <1>1. IInv => RetryUsesNewerToken
    BY DEF IInv, OrderInv, RetryUsesNewerToken
  <1> QED
    BY <1>1, Invariance, PTL

-----------------------------------------------------------------------------

(***************************************************************************)
(* Only a store and a drop write the cache.  A store ends a login that     *)
(* began without a token to use; a drop compares with a refused token.     *)
(***************************************************************************)
LEMMA GoodTokenStep ==
    ASSUME IInv, [Next]_vars, fresh, cached \in valid
    PROVE  cached' = cached
  <1> USE DEF IInv
  <1>1. ASSUME NEW c \in Callers, StoreToken(c)
        PROVE  cached' = cached
    <2>1. cached = NoToken
      BY <1>1 DEF StoreToken, LoginInv, LoggingIn
    <2> QED
      BY <2>1, CallFields, TokenAssumption DEF TypeOK, NoToken
  <1>2. ASSUME NEW c \in Callers, InvalidateAccessToken(c)
        PROVE  cached' = cached
    BY <1>2 DEF InvalidateAccessToken, IsRefused, OrderInv
  <1> QED
    BY <1>1, <1>2 DEF Next, vars, Lock, Proceed, Start, AccessToken, Grant,
       LoginFails, CarryOut, Answer, SendFails, Unauthorized, Ages, Expires

\* A token that can be used stays in the cache.
THEOREM GoodTokenStaysHolds == Spec => GoodTokenStays
  <1>1. IInv /\ [Next]_vars => [fresh /\ cached \in valid => cached' = cached]_vars
    BY GoodTokenStep
  <1> QED
    BY <1>1, Invariance, PTL DEF Spec, GoodTokenStays

LEMMA LoginNeededStep ==
    ASSUME IInv, [Next]_vars, issued' # issued
    PROVE  cached = NoToken \/ ~fresh
  <1>1. PICK c \in Callers : Grant(c)
    BY DEF Next, vars, Lock, Proceed, Start, AccessToken, StoreToken,
       LoginFails, CarryOut, Answer, SendFails, Unauthorized, Ages, Expires,
       InvalidateAccessToken
  <1> QED
    BY <1>1 DEF Grant, IInv, LoginInv, LoggingIn

\* Nobody logs in while the cache holds a token that can be used.
THEOREM LoginsAreNeededHolds == Spec => LoginsAreNeeded
  <1>1. IInv /\ [Next]_vars => [issued' # issued => cached = NoToken \/ ~fresh]_vars
    BY LoginNeededStep
  <1> QED
    BY <1>1, Invariance, PTL DEF Spec, LoginsAreNeeded

-----------------------------------------------------------------------------

\* The phases of all callers, as a step on one of them leaves them.
LEMMA PhaseStep ==
    ASSUME TypeOK, NEW c \in Callers, NEW local, Set(c, local)
    PROVE  /\ call'[c] = local
           /\ [d \in Callers |-> Phase(d)]' =
                [[d \in Callers |-> Phase(d)] EXCEPT ![c] = Phase(c)']
  BY LocalStep DEF Phase

LEMMA RefinementStep ==
    ASSUME IInv, [Next]_vars
    PROVE  [Calls!Next]_([c \in Callers |-> Phase(c)])
  <1> DEFINE phases == [c \in Callers |-> Phase(c)]
  <1>1. ASSUME NEW c \in Callers, NEW local, Set(c, local),
               \/ Phase(c)' = Phase(c)
               \/ Phase(c) \in {"answered", "failed"} /\ Phase(c)' = "open"
               \/ Phase(c) = "open" /\ Phase(c)' = "effected"
               \/ Phase(c) = "effected" /\ Phase(c)' = "answered"
               \/ Phase(c) \in {"open", "effected"} /\ Phase(c)' = "failed"
        PROVE  [Calls!Next]_phases
    <2>1. phases' = [phases EXCEPT ![c] = Phase(c)']
      BY <1>1, PhaseStep DEF IInv
    <2>2. phases[c] = Phase(c)
      OBVIOUS
    <2>3. CASE Phase(c)' = Phase(c)
      BY <2>1, <2>2, <2>3
    <2>4. CASE Phase(c) \in {"answered", "failed"} /\ Phase(c)' = "open"
      <3>1. Calls!Begin(c)
        BY <2>1, <2>2, <2>4 DEF Calls!Begin, Calls!Move
      <3> QED
        BY <3>1 DEF Calls!Next
    <2>5. CASE Phase(c) = "open" /\ Phase(c)' = "effected"
      <3>1. Calls!TakeEffect(c)
        BY <2>1, <2>2, <2>5 DEF Calls!TakeEffect, Calls!Move
      <3> QED
        BY <3>1 DEF Calls!Next
    <2>6. CASE Phase(c) = "effected" /\ Phase(c)' = "answered"
      <3>1. Calls!Answer(c)
        BY <2>1, <2>2, <2>6 DEF Calls!Answer, Calls!Move
      <3> QED
        BY <3>1 DEF Calls!Next
    <2>7. CASE Phase(c) \in {"open", "effected"} /\ Phase(c)' = "failed"
      <3>1. Calls!Fail(c)
        BY <2>1, <2>2, <2>7 DEF Calls!Fail, Calls!Move
      <3> QED
        BY <3>1 DEF Calls!Next
    <2> QED
      BY <1>1, <2>3, <2>4, <2>5, <2>6, <2>7
  <1>2. ASSUME NEW c \in Callers, Start(c) \/ Lock(c) \/ Proceed(c)
        PROVE  [Calls!Next]_phases
    <2>1. call[c] \in Call
      BY CallFields DEF IInv
    <2>2. \A local : Set(c, local) => call'[c] = local
      BY LocalStep DEF IInv
    <2>3. CASE Start(c)
      <3>1. Phase(c) \in {"answered", "failed"} /\ Phase(c)' = "open"
        BY <2>1, <2>2, <2>3 DEF Start, Goto, At, Phase, Call
      <3> QED
        BY <1>1, <2>3, <3>1 DEF Start, Goto
    <2>4. CASE AccessToken(c) \/ InvalidateAccessToken(c) \/ Grant(c) \/ StoreToken(c)
      <3>1. ASSUME NEW local, Set(c, local),
                   local.step \in {"send", "login", "granted", "lock"}
            PROVE  [Calls!Next]_phases
        <4>1. Phase(c) = "open" /\ Phase(c)' = "open"
          BY <2>2, <2>4, <3>1 DEF AccessToken, InvalidateAccessToken, Grant,
             StoreToken, At, Phase
        <4> QED
          BY <1>1, <3>1, <4>1
      <3>2. CASE AccessToken(c) /\ cached # NoToken /\ fresh
        <4>1. [call[c] EXCEPT !.step = "send", !.token = cached].step = "send"
          BY <2>1 DEF Call
        <4> QED
          BY <3>1, <3>2, <4>1 DEF AccessToken
      <3>3. CASE AccessToken(c) /\ ~(cached # NoToken /\ fresh)
        <4>1. [call[c] EXCEPT !.step = "login"].step = "login"
          BY <2>1 DEF Call
        <4> QED
          BY <3>1, <3>3, <4>1 DEF AccessToken, Goto
      <3>4. CASE InvalidateAccessToken(c)
        <4>1. [call[c] EXCEPT !.step = "lock"].step = "lock"
          BY <2>1 DEF Call
        <4> QED
          BY <3>1, <3>4, <4>1 DEF InvalidateAccessToken, Goto
      <3>5. CASE Grant(c)
        <4>1. [call[c] EXCEPT !.step = "granted", !.token = issued'].step = "granted"
          BY <2>1 DEF Call
        <4> QED
          BY <3>1, <3>5, <4>1 DEF Grant
      <3>6. CASE StoreToken(c)
        <4>1. [call[c] EXCEPT !.step = "send"].step = "send"
          BY <2>1 DEF Call
        <4> QED
          BY <3>1, <3>6, <4>1 DEF StoreToken, Goto
      <3> QED
        BY <2>4, <3>2, <3>3, <3>4, <3>5, <3>6
    <2>5. CASE CarryOut(c)
      <3>1. Phase(c) = "open" /\ Phase(c)' = "effected"
        BY <2>1, <2>2, <2>5 DEF CarryOut, Goto, At, Phase, Call
      <3> QED
        BY <1>1, <2>5, <3>1 DEF CarryOut, Goto
    <2>6. CASE Answer(c)
      <3>1. Phase(c) = "effected" /\ Phase(c)' = "answered"
        BY <2>2, <2>6 DEF Answer, Finish, At, Phase
      <3> QED
        BY <1>1, <2>6, <3>1 DEF Answer, Finish
    <2>7. CASE /\ LoginFails(c) \/ SendFails(c) \/ Unauthorized(c)
               /\ Set(c, [step |-> "idle", token |-> NoToken,
                          refused |-> NoToken, result |-> "failed"])
      <3>1. Phase(c) \in {"open", "effected"} /\ Phase(c)' = "failed"
        BY <2>2, <2>7 DEF LoginFails, SendFails, Unauthorized, At, Phase
      <3> QED
        BY <1>1, <2>7, <3>1
    <2>8. CASE Unauthorized(c) /\ call[c].refused = NoToken
      <3>1. Phase(c) = "open" /\ Phase(c)' = "open"
        BY <2>1, <2>2, <2>8 DEF Unauthorized, At, Phase, Call
      <3> QED
        BY <1>1, <2>8, <3>1 DEF Unauthorized
    <2> QED
      BY <1>2, <2>3, <2>4, <2>5, <2>6, <2>7, <2>8
      DEF Lock, Proceed, LoginFails, SendFails, Unauthorized, Finish
  <1>3. CASE UNCHANGED call
    BY <1>3 DEF Phase
  <1> QED
    BY <1>2, <1>3 DEF Next, vars, Ages, Expires

(***************************************************************************)
(* The client keeps the contract of its callers: effects happen at most    *)
(* once, and success is told only of a request that was carried out.       *)
(***************************************************************************)
THEOREM ImplementsCallsHolds == Spec => ImplementsCalls
  <1>1. Init => Calls!Init
    BY DEF Init, Calls!Init, Phase
  <1> QED
    BY <1>1, RefinementStep, Invariance, PTL
    DEF Spec, ImplementsCalls, Calls!CallsSpec

=============================================================================
