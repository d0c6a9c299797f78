--------------------- MODULE VerificationRepositoryProofs ---------------------
(***************************************************************************)
(* The tables of verification keep their types, limit wrong guesses and    *)
(* take each code once.                                                    *)
(***************************************************************************)
EXTENDS VerificationRepository, TLAPS

\* A code that no attempt was started with has not been guessed at.
FreshCodes == \A c \in Codes \ issued : wrong[c] = 0

\* The inductive invariant of the tables.
TablesInv ==
    /\ TablesTypeOK
    /\ GuessesAreLimited
    /\ CodesAreUsedOnce
    /\ FreshCodes

-----------------------------------------------------------------------------

\* Facts about a row that exists.
LEMMA PendingRow ==
    ASSUME TablesTypeOK, NEW u \in Users, pending[u] # None
    PROVE  /\ pending[u] \in Attempt
           /\ pending[u].code \in Codes
           /\ pending[u].failed \in 0..(MaxFailedAttempts - 1)
BY DEF TablesTypeOK, Attempt

\* The legacy rows the tables may start with.
LEMMA TablesInitInv == TablesInit => TablesInv
<1> SUFFICES ASSUME TablesInit PROVE TablesInv
  OBVIOUS
<1>1. TablesTypeOK
  BY DEF TablesInit, TablesTypeOK, LegacyAttempt, LegacyIdentity, Attempt
<1>2. GuessesAreLimited
  BY <1>1, LimitAssumption
     DEF TablesInit, GuessesAreLimited, Holds, LegacyAttempt, Attempt
<1>3. CodesAreUsedOnce
  BY <1>1, LimitAssumption
     DEF TablesInit, CodesAreUsedOnce, Holds, LegacyAttempt, Attempt
<1>4. FreshCodes
  BY DEF TablesInit, FreshCodes
<1> QED
  BY <1>1, <1>2, <1>3, <1>4 DEF TablesInv

\* A row that is started has a code that nobody holds.
LEMMA StartAttemptInv ==
    ASSUME TablesInv, NEW user \in Users, NEW email \in Addresses,
           NEW name \in Names, NEW code \in Codes,
           StartAttempt(user, email, name, code)
    PROVE  TablesInv'
<1> DEFINE new == NewAttempt(user, email, name, code)
<1>1. new \in Attempt /\ new # None
  <2>1. 0 \in 0..(MaxFailedAttempts - 1)
    BY LimitAssumption
  <2>2. new \in Attempt
    BY <2>1 DEF NewAttempt, Attempt
  <2> QED
    BY <2>2, RowAssumption
<1>2. new.code = code /\ new.failed = 0
  BY DEF NewAttempt
<1>3. /\ pending' = [pending EXCEPT ![user] = new]
      /\ code \notin issued /\ issued' = issued \cup {code}
      /\ UNCHANGED <<identities, wrong, accepted>>
  BY DEF StartAttempt
<1> HIDE DEF new
<1>4. \A u \in Users, c \in Codes :
         Holds(u, c)' <=> IF u = user THEN c = code ELSE Holds(u, c)
  BY <1>1, <1>2, <1>3 DEF Holds, TablesInv, TablesTypeOK
<1>5. \A u \in Users : ~Holds(u, code)
  BY <1>3 DEF TablesInv, CodesAreUsedOnce
<1>6. wrong[code] = 0 /\ code \notin accepted
  BY <1>3 DEF TablesInv, FreshCodes, CodesAreUsedOnce
<1>7. TablesTypeOK'
  BY <1>1, <1>3 DEF TablesInv, TablesTypeOK
<1>8. GuessesAreLimited'
  <2>1. \A c \in Codes : wrong'[c] <= MaxFailedAttempts
    BY <1>3 DEF TablesInv, GuessesAreLimited
  <2>2. ASSUME NEW u \in Users, NEW c \in Codes, Holds(u, c)'
        PROVE  pending'[u].failed = wrong'[c]
    <3>1. CASE u = user
      BY <2>2, <3>1, <1>2, <1>3, <1>4, <1>6 DEF TablesInv, TablesTypeOK
    <3>2. CASE u # user
      BY <2>2, <3>2, <1>3, <1>4 DEF TablesInv, TablesTypeOK, GuessesAreLimited
    <3> QED
      BY <3>1, <3>2
  <2> QED
    BY <2>1, <2>2 DEF GuessesAreLimited
<1>9. CodesAreUsedOnce'
  BY <1>3, <1>4, <1>5, <1>6, LimitAssumption DEF TablesInv, CodesAreUsedOnce
<1>10. FreshCodes'
  BY <1>3 DEF TablesInv, FreshCodes
<1> QED
  BY <1>7, <1>8, <1>9, <1>10 DEF TablesInv

\* Consuming an attempt, whoever does it.
LEMMA ConsumedInv ==
    ASSUME TablesInv, NEW user \in Users,
           pending' = [pending EXCEPT ![user] = None],
           identities' \in [Users -> Identity \cup {None}],
           UNCHANGED <<issued, wrong>>,
           accepted' \subseteq Codes,
           \A c \in accepted' : c \in accepted \/ Holds(user, c)
    PROVE  TablesInv'
<1>1. \A u \in Users, c \in Codes : Holds(u, c)' => u # user /\ Holds(u, c)
  BY DEF Holds, TablesInv, TablesTypeOK
<1>2. \A u \in Users : u # user => pending'[u] = pending[u]
  BY DEF TablesInv, TablesTypeOK
<1>3. TablesTypeOK'
  BY DEF TablesInv, TablesTypeOK
<1>4. GuessesAreLimited'
  BY <1>1, <1>2 DEF TablesInv, GuessesAreLimited
<1>5. CodesAreUsedOnce'
  BY <1>1 DEF TablesInv, CodesAreUsedOnce
<1>6. FreshCodes'
  BY DEF TablesInv, FreshCodes
<1> QED
  BY <1>3, <1>4, <1>5, <1>6 DEF TablesInv

\* The steps that keep codes, counts and holders.
LEMMA SameCodesInv ==
    ASSUME TablesInv, UNCHANGED <<issued, wrong, accepted>>,
           TablesTypeOK',
           \A u \in Users :
              (pending'[u] = None) <=> (pending[u] = None),
           \A u \in Users : pending[u] # None =>
              /\ pending'[u].code = pending[u].code
              /\ pending'[u].failed = pending[u].failed
    PROVE  TablesInv'
<1>1. \A u \in Users, c \in Codes : Holds(u, c)' <=> Holds(u, c)
  BY DEF Holds
<1>2. GuessesAreLimited'
  BY <1>1 DEF TablesInv, GuessesAreLimited, Holds
<1>3. CodesAreUsedOnce'
  BY <1>1 DEF TablesInv, CodesAreUsedOnce
<1>4. FreshCodes'
  BY DEF TablesInv, FreshCodes
<1> QED
  BY <1>2, <1>3, <1>4 DEF TablesInv

\* A wrong guess is counted on the row and, in history, on its code.
LEMMA RejectCodeInv ==
    ASSUME TablesInv, NEW user \in Users, NEW code, RejectCode(user, code)
    PROVE  TablesInv'
<1> DEFINE old == pending[user]
           key == old.code
           failed == old.failed + 1
<1>1. /\ old # None /\ old \in Attempt /\ key \in Codes
      /\ old.failed \in 0..(MaxFailedAttempts - 1)
  BY PendingRow DEF RejectCode, Usable, TablesInv
<1>2. Holds(user, key)
  BY <1>1 DEF Holds
<1>3. wrong[key] = old.failed
  BY <1>1, <1>2 DEF TablesInv, GuessesAreLimited
<1>4. /\ UNCHANGED <<identities, issued, accepted>>
      /\ wrong' = [wrong EXCEPT ![key] = @ + 1]
  BY DEF RejectCode
<1>5. /\ wrong' \in [Codes -> Nat]
      /\ wrong'[key] = failed
      /\ \A c \in Codes : c # key => wrong'[c] = wrong[c]
  BY <1>1, <1>3, <1>4 DEF TablesInv, TablesTypeOK
<1>6. failed \in 1..MaxFailedAttempts
  BY <1>1, LimitAssumption
<1>7. \A u \in Users : u # user => ~Holds(u, key)
  BY <1>1, <1>2 DEF TablesInv, CodesAreUsedOnce
<1>8. \A u \in Users : u # user => pending'[u] = pending[u]
  BY DEF RejectCode, TablesInv, TablesTypeOK
<1>9. FreshCodes'
  BY <1>1, <1>2, <1>4, <1>5 DEF TablesInv, FreshCodes, CodesAreUsedOnce
<1>10. CASE HasAttemptsRemaining(failed)
  <2>1. /\ pending' = [pending EXCEPT ![user] = [old EXCEPT !.failed = failed]]
        /\ failed < MaxFailedAttempts
    BY <1>10 DEF RejectCode, HasAttemptsRemaining, TablesInv, TablesTypeOK
  <2>2. [old EXCEPT !.failed = failed] \in Attempt
    BY <1>1, <1>6, <2>1, LimitAssumption DEF Attempt
  <2>3. /\ pending'[user] = [old EXCEPT !.failed = failed]
        /\ pending'[user] # None
    BY <2>1, <2>2, RowAssumption DEF TablesInv, TablesTypeOK
  <2>4. pending'[user].code = key /\ pending'[user].failed = failed
    BY <1>1, <2>3 DEF Attempt
  <2>5. \A u \in Users, c \in Codes : Holds(u, c)' <=> Holds(u, c)
    BY <1>1, <1>8, <2>3, <2>4 DEF Holds
  <2>6. TablesTypeOK'
    BY <1>4, <1>5, <2>1, <2>2 DEF TablesInv, TablesTypeOK
  <2>7. GuessesAreLimited'
    <3>1. \A c \in Codes : wrong'[c] <= MaxFailedAttempts
      BY <1>5, <1>6 DEF TablesInv, GuessesAreLimited
    <3>2. ASSUME NEW u \in Users, NEW c \in Codes, Holds(u, c)'
          PROVE  pending'[u].failed = wrong'[c]
      <4>1. CASE u = user
        BY <3>2, <4>1, <1>5, <2>3, <2>4 DEF Holds
      <4>2. CASE u # user
        BY <3>2, <4>2, <1>5, <1>7, <1>8, <2>5 DEF TablesInv, GuessesAreLimited
      <4> QED
        BY <4>1, <4>2
    <3> QED
      BY <3>1, <3>2 DEF GuessesAreLimited
  <2>8. CodesAreUsedOnce'
    BY <1>1, <1>4, <1>5, <2>1, <2>5 DEF TablesInv, CodesAreUsedOnce
  <2> QED
    BY <1>9, <2>6, <2>7, <2>8 DEF TablesInv
<1>11. CASE ~HasAttemptsRemaining(failed)
  <2>1. pending' = [pending EXCEPT ![user] = None]
    BY <1>11 DEF RejectCode, TablesInv, TablesTypeOK
  <2>2. \A u \in Users, c \in Codes : Holds(u, c)' => u # user /\ Holds(u, c)
    BY <1>8, <2>1 DEF Holds, TablesInv, TablesTypeOK
  <2>3. TablesTypeOK'
    BY <1>4, <1>5, <2>1 DEF TablesInv, TablesTypeOK
  <2>4. GuessesAreLimited'
    <3>1. \A c \in Codes : wrong'[c] <= MaxFailedAttempts
      BY <1>5, <1>6 DEF TablesInv, GuessesAreLimited
    <3>2. ASSUME NEW u \in Users, NEW c \in Codes, Holds(u, c)'
          PROVE  pending'[u].failed = wrong'[c]
      BY <3>2, <1>5, <1>7, <1>8, <2>2 DEF TablesInv, GuessesAreLimited
    <3> QED
      BY <3>1, <3>2 DEF GuessesAreLimited
  <2>5. CodesAreUsedOnce'
    BY <1>4, <1>5, <1>7, <2>2 DEF TablesInv, CodesAreUsedOnce
  <2> QED
    BY <1>9, <2>3, <2>4, <2>5 DEF TablesInv
<1> QED
  BY <1>10, <1>11

-----------------------------------------------------------------------------

\* The invariant is inductive.
LEMMA TablesInvStep == TablesInv /\ [TablesNext]_tableVars => TablesInv'
<1> SUFFICES ASSUME TablesInv, [TablesNext]_tableVars PROVE TablesInv'
  OBVIOUS
<1>1. CASE UNCHANGED tableVars
  BY <1>1 DEF tableVars, TablesInv, TablesTypeOK, GuessesAreLimited,
              CodesAreUsedOnce, FreshCodes, Holds
<1>2. ASSUME NEW user \in Users, NEW email \in Addresses, NEW name \in Names,
             NEW code \in Codes, StartAttempt(user, email, name, code)
      PROVE  TablesInv'
  BY <1>2, StartAttemptInv
<1>3. ASSUME NEW user \in Users, NEW email \in Addresses, NEW name \in Names,
             ConfirmDisplayName(user, email, name)
      PROVE  TablesInv'
  <2>1. UNCHANGED <<pending, issued, wrong, accepted>>
    BY <1>3 DEF ConfirmDisplayName
  <2>2. identities' \in [Users -> Identity \cup {None}]
    BY <1>3 DEF ConfirmDisplayName, TablesInv, TablesTypeOK, Identity
  <2> QED
    BY <2>1, <2>2, SameCodesInv DEF TablesInv, TablesTypeOK
<1>4. ASSUME NEW user \in Users, NEW code \in Codes,
             DeleteIfCodeMatches(user, code)
      PROVE  TablesInv'
  <2>1. CASE Deletes(pending[user], code)
    BY <1>4, <2>1, ConsumedInv DEF DeleteIfCodeMatches, TablesInv, TablesTypeOK
  <2>2. CASE ~Deletes(pending[user], code)
    BY <1>4, <2>2, SameCodesInv DEF DeleteIfCodeMatches, TablesInv, TablesTypeOK
  <2> QED
    BY <2>1, <2>2
<1>5. ASSUME NEW user \in Users, NEW code \in Codes, AcceptCode(user, code)
      PROVE  TablesInv'
  <2>1. pending[user] \in Attempt /\ Holds(user, code)
    BY <1>5, PendingRow DEF AcceptCode, Usable, Holds, TablesInv
  <2>2. identities' \in [Users -> Identity \cup {None}]
    BY <1>5, <2>1 DEF AcceptCode, TablesInv, TablesTypeOK, Identity, Attempt
  <2> QED
    BY <1>5, <2>1, <2>2, ConsumedInv DEF AcceptCode, TablesInv, TablesTypeOK
<1>6. ASSUME NEW user \in Users, NEW code \in Codes \cup {None},
             RejectCode(user, code)
      PROVE  TablesInv'
  BY <1>6, RejectCodeInv
<1>7. ASSUME NEW user \in Users, DiscardAttempt(user)
      PROVE  TablesInv'
  BY <1>7, ConsumedInv DEF DiscardAttempt, TablesInv, TablesTypeOK
<1>8. ASSUME NEW user \in Users, AttemptExpires(user)
      PROVE  TablesInv'
  <2>1. pending[user] \in Attempt
    BY <1>8, PendingRow DEF AttemptExpires, TablesInv
  <2> DEFINE new == [pending[user] EXCEPT !.expired = TRUE]
  <2>2. /\ new \in Attempt /\ new # None
        /\ new.code = pending[user].code /\ new.failed = pending[user].failed
    BY <2>1, RowAssumption DEF Attempt
  <2>3. pending' = [pending EXCEPT ![user] = new]
    BY <1>8 DEF AttemptExpires, TablesInv, TablesTypeOK
  <2> HIDE DEF new
  <2>4. \A u \in Users :
           /\ u # user => pending'[u] = pending[u]
           /\ u = user => pending'[u] = new /\ pending[u] # None
    BY <1>8, <2>3 DEF AttemptExpires, TablesInv, TablesTypeOK
  <2>5. UNCHANGED <<identities, issued, wrong, accepted>>
    BY <1>8 DEF AttemptExpires
  <2>6. TablesTypeOK'
    BY <2>2, <2>3, <2>5 DEF TablesInv, TablesTypeOK
  <2> QED
    BY <2>2, <2>4, <2>5, <2>6, SameCodesInv
<1> QED
  BY <1>1, <1>2, <1>3, <1>4, <1>5, <1>6, <1>7, <1>8 DEF TablesNext

(***************************************************************************)
(* The invariant holds whatever the transactions are and in any order.     *)
(***************************************************************************)
THEOREM TablesInvariance == TablesSpec => []TablesInv
BY TablesInitInv, TablesInvStep, PTL DEF TablesSpec

(***************************************************************************)
(* No order of starts, checks, cleanups and expiries allows a code to be   *)
(* guessed wrong more than MaxFailedAttempts times.                        *)
(***************************************************************************)
THEOREM GuessesAreLimitedHolds == TablesSpec => []GuessesAreLimited
BY TablesInvariance, PTL DEF TablesInv

(***************************************************************************)
(* A code is one user's and never works after it was accepted or used up.  *)
(***************************************************************************)
THEOREM CodesAreUsedOnceHolds == TablesSpec => []CodesAreUsedOnce
BY TablesInvariance, PTL DEF TablesInv

=============================================================================
