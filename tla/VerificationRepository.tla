----------------------- MODULE VerificationRepository -----------------------
(***************************************************************************)
(* The pending_verification_attempts and verified_identities tables and    *)
(* the transactions of db/pending_verification_repository.rs and           *)
(* db/verify_repository.rs, called by anybody at any time.  check_code     *)
(* holds the row (FOR UPDATE), so each of its outcomes is one step.        *)
(*                                                                         *)
(* Abstractions.  A code is a model value that is generated once; its hash *)
(* matches itself alone.  An attempt's hour is over or not.  Rows that the *)
(* image deployed before display names wrote have None for a name.         *)
(***************************************************************************)
EXTENDS Naturals, FiniteSets

CONSTANTS Users,              \* Discord users
          Addresses,          \* authorized e-mail addresses
          Names,              \* preferred names
          Codes,              \* bound: the codes that may be generated
          MaxFailedAttempts,  \* wrong codes until an attempt is consumed
          None                \* SQL NULL, and no row

ASSUME LimitAssumption == MaxFailedAttempts \in Nat \ {0}

ASSUME NoneAssumption ==
    None \notin Users \cup Addresses \cup Names \cup Codes

Attempt == [email   : Addresses,
            name    : Names \cup {None},
            code    : Codes,
            failed  : 0..(MaxFailedAttempts - 1),
            expired : BOOLEAN]

Identity == [email     : Addresses,
             name      : Names \cup {None},
             confirmed : BOOLEAN]

ASSUME RowAssumption == None \notin Attempt /\ None \notin Identity

VARIABLES
    pending,     \* pending_verification_attempts, by user
    identities,  \* verified_identities, by user
    issued,      \* history: the codes that attempts were started with
    wrong,       \* history: how often each code was guessed wrong
    accepted     \* history: the codes that were accepted

tableVars == <<pending, identities, issued, wrong, accepted>>

-----------------------------------------------------------------------------

\* Mutant: an attempt is never replaced, only consumed.
ReplaceableWhenGone(attempt) == attempt = None

\* Mutant: DO UPDATE without its WHERE.
ReplaceableAlways(attempt) == TRUE

\* The upsert's conflict clause: whose row may be overwritten.
Replaceable(attempt) ==
    attempt # None => attempt.expired \/ attempt.name = None

\* Mutant: DO UPDATE forgets code_hash.
NewAttemptOldCode(user, email, name, code) ==
    [email |-> email, name |-> name,
     code |-> IF pending[user] = None THEN code ELSE pending[user].code,
     failed |-> 0, expired |-> FALSE]

NewAttempt(user, email, name, code) ==
    [email |-> email, name |-> name, code |-> code,
     failed |-> 0, expired |-> FALSE]

(***************************************************************************)
(* start_or_reuse that created or replaced the row; a reused row is as it  *)
(* was, and the code generated for the call is forgotten.                  *)
(***************************************************************************)
StartAttempt(user, email, name, code) ==
    /\ Replaceable(pending[user])
    /\ code \notin issued
    /\ pending' = [pending EXCEPT ![user] = NewAttempt(user, email, name, code)]
    /\ issued' = issued \cup {code}
    /\ UNCHANGED <<identities, wrong, accepted>>

\* Mutant: the attempt is deleted whatever its code.
DeletesAnyCode(attempt, code) == attempt # None

Deletes(attempt, code) == attempt # None /\ attempt.code = code

DeleteIfCodeMatches(user, code) ==
    /\ pending' = IF Deletes(pending[user], code)
                  THEN [pending EXCEPT ![user] = None] ELSE pending
    /\ UNCHANGED <<identities, issued, wrong, accepted>>

-----------------------------------------------------------------------------

(***************************************************************************)
(* check_code on a row.                                                    *)
(***************************************************************************)
Usable(attempt) == attempt # None /\ ~attempt.expired /\ attempt.name # None

\* Expired, or begun without a name: the attempt is consumed.
DiscardAttempt(user) ==
    /\ pending[user] # None
    /\ ~Usable(pending[user])
    /\ pending' = [pending EXCEPT ![user] = None]
    /\ UNCHANGED <<identities, issued, wrong, accepted>>

\* Mutant: the attempt is not consumed.
AcceptAndKeep(user, code) ==
    /\ Usable(pending[user])
    /\ pending[user].code = code
    /\ identities' = [identities EXCEPT ![user] =
                        [email |-> pending[user].email,
                         name |-> pending[user].name, confirmed |-> TRUE]]
    /\ accepted' = accepted \cup {code}
    /\ UNCHANGED <<pending, issued, wrong>>

\* Mutant: the name has to be confirmed again.
AcceptUnconfirmed(user, code) ==
    /\ Usable(pending[user])
    /\ pending[user].code = code
    /\ identities' = [identities EXCEPT ![user] =
                        [email |-> pending[user].email,
                         name |-> pending[user].name, confirmed |-> FALSE]]
    /\ pending' = [pending EXCEPT ![user] = None]
    /\ accepted' = accepted \cup {code}
    /\ UNCHANGED <<issued, wrong>>

AcceptCode(user, code) ==
    /\ Usable(pending[user])
    /\ pending[user].code = code
    /\ identities' = [identities EXCEPT ![user] =
                        [email |-> pending[user].email,
                         name |-> pending[user].name, confirmed |-> TRUE]]
    /\ pending' = [pending EXCEPT ![user] = None]
    /\ accepted' = accepted \cup {code}
    /\ UNCHANGED <<issued, wrong>>

\* Mutant: a try too many.
HasOneMore(failed) == failed <= MaxFailedAttempts

HasAttemptsRemaining(failed) == failed < MaxFailedAttempts

RejectCode(user, code) ==
    /\ Usable(pending[user])
    /\ pending[user].code # code
    /\ LET failed == pending[user].failed + 1 IN
       pending' = [pending EXCEPT ![user] =
                     IF HasAttemptsRemaining(failed)
                     THEN [@ EXCEPT !.failed = failed] ELSE None]
    /\ wrong' = [wrong EXCEPT ![pending[user].code] = @ + 1]
    /\ UNCHANGED <<identities, issued, accepted>>

-----------------------------------------------------------------------------

\* confirm_display_name: only the row that still has the address.
ConfirmDisplayName(user, email, name) ==
    /\ identities' =
         IF identities[user] # None /\ identities[user].email = email
         THEN [identities EXCEPT ![user].name = name, ![user].confirmed = TRUE]
         ELSE identities
    /\ UNCHANGED <<pending, issued, wrong, accepted>>

\* An hour has passed.
AttemptExpires(user) ==
    /\ pending[user] # None
    /\ ~pending[user].expired
    /\ pending' = [pending EXCEPT ![user].expired = TRUE]
    /\ UNCHANGED <<identities, issued, wrong, accepted>>

-----------------------------------------------------------------------------

LegacyAttempt == {a \in Attempt : a.name = None /\ a.failed = 0 /\ ~a.expired}

\* Migration 04 filled in a name that nobody confirmed.
LegacyIdentity == {i \in Identity : ~i.confirmed}

TablesInit ==
    /\ pending \in [Users -> LegacyAttempt \cup {None}]
    /\ identities \in [Users -> LegacyIdentity \cup {None}]
    /\ \A u, v \in Users :
         pending[u] # None /\ pending[v] # None /\ pending[u].code = pending[v].code
            => u = v
    /\ issued = {pending[u].code : u \in {v \in Users : pending[v] # None}}
    /\ wrong = [c \in Codes |-> 0]
    /\ accepted = {}

TablesNext ==
    \E user \in Users :
        \/ \E email \in Addresses, name \in Names :
              \/ \E code \in Codes : StartAttempt(user, email, name, code)
              \/ ConfirmDisplayName(user, email, name)
        \/ \E code \in Codes :
              DeleteIfCodeMatches(user, code) \/ AcceptCode(user, code)
        \/ \E code \in Codes \cup {None} : RejectCode(user, code)
        \/ DiscardAttempt(user)
        \/ AttemptExpires(user)

TablesSpec == TablesInit /\ [][TablesNext]_tableVars

-----------------------------------------------------------------------------

(***************************************************************************)
(* Every row has its type; in particular failed_attempts stays within the  *)
(* CHECK of migration 02.                                                  *)
(***************************************************************************)
TablesTypeOK ==
    /\ pending \in [Users -> Attempt \cup {None}]
    /\ identities \in [Users -> Identity \cup {None}]
    /\ issued \subseteq Codes
    /\ wrong \in [Codes -> Nat]
    /\ accepted \subseteq Codes

Holds(user, code) == pending[user] # None /\ pending[user].code = code

(***************************************************************************)
(* However many checks run, of however many handlers and after however     *)
(* many restarts, a code is guessed wrong at most MaxFailedAttempts times, *)
(* and the row counts every one (ROADMAP 1.2, "Preserve retry limits       *)
(* across restarts and concurrent requests").                              *)
(***************************************************************************)
GuessesAreLimited ==
    \A c \in Codes :
        /\ wrong[c] <= MaxFailedAttempts
        /\ \A u \in Users : Holds(u, c) => pending[u].failed = wrong[c]

(***************************************************************************)
(* A code that was accepted or used up never works again, and a code is    *)
(* one user's (ROADMAP 1.2, "Delete or mark an attempt consumed after      *)
(* successful verification").                                              *)
(***************************************************************************)
CodesAreUsedOnce ==
    /\ \A u \in Users, c \in Codes :
          Holds(u, c) => /\ c \in issued \ accepted
                         /\ wrong[c] < MaxFailedAttempts
    /\ \A u, v \in Users, c \in Codes : Holds(u, c) /\ Holds(v, c) => u = v
    /\ accepted \subseteq issued

(***************************************************************************)
(* A member's address changes only with the help of an officer, which no   *)
(* code gives: "You are already verified with a different email address.   *)
(* Ask an officer for help if it needs to be changed." (verify.rs:696).    *)
(***************************************************************************)
AddressIsKept ==
    [][\A u \in Users : identities[u] # None =>
          /\ identities'[u] # None
          /\ identities'[u].email = identities[u].email]_identities

=============================================================================
