------------------------ MODULE VerificationLifecycle ------------------------
(***************************************************************************)
(* What verification promises, without tables, tasks, codes or failures:   *)
(* a member has one open attempt, for the address it was opened for until  *)
(* it is closed; only who reads that address can make it the identity's,   *)
(* which closes the attempt; only a present member with an identity gets   *)
(* the verified role, and keeps it until leaving.  Members may have had    *)
(* the role before.                                                        *)
(***************************************************************************)
CONSTANTS Users, Addresses, Reads, None

VARIABLES asked,     \* the address of each user's open attempt
          proved,    \* the address of each user's identity
          members,   \* who is in the guild
          verified   \* who has the verified role

verificationVars == <<asked, proved, members, verified>>

Ask(user, email) ==
    /\ asked[user] = None
    /\ asked' = [asked EXCEPT ![user] = email]
    /\ UNCHANGED <<proved, members, verified>>

\* The hour is over, too many codes were wrong, or no code was delivered.
Lapse(user) ==
    /\ asked[user] # None
    /\ asked' = [asked EXCEPT ![user] = None]
    /\ UNCHANGED <<proved, members, verified>>

Prove(user) ==
    /\ <<user, asked[user]>> \in Reads
    /\ proved' = [proved EXCEPT ![user] = asked[user]]
    /\ asked' = [asked EXCEPT ![user] = None]
    /\ UNCHANGED <<members, verified>>

Promote(user) ==
    /\ user \in members
    /\ proved[user] # None
    /\ verified' = verified \cup {user}
    /\ UNCHANGED <<asked, proved, members>>

Enter(user) ==
    /\ user \notin members
    /\ members' = members \cup {user}
    /\ UNCHANGED <<asked, proved, verified>>

Exit(user) ==
    /\ members' = members \ {user}
    /\ verified' = verified \ {user}
    /\ UNCHANGED <<asked, proved>>

VerificationInit ==
    /\ asked = [u \in Users |-> None]
    /\ proved \in [Users -> Addresses \cup {None}]
    /\ \A u \in Users : proved[u] # None => <<u, proved[u]>> \in Reads
    /\ members \subseteq Users
    /\ verified \subseteq members

VerificationNext ==
    \E user \in Users :
        \/ \E email \in Addresses : Ask(user, email)
        \/ Lapse(user) \/ Prove(user) \/ Promote(user)
        \/ Enter(user) \/ Exit(user)

VerificationSpec == VerificationInit /\ [][VerificationNext]_verificationVars

(***************************************************************************)
(* An identity's address is read by its user, and nobody becomes verified  *)
(* without one, now or later: who has the role and no identity has had it  *)
(* from the start.                                                         *)
(***************************************************************************)
ProvedIsRead ==
    \A user \in Users : proved[user] # None => <<user, proved[user]>> \in Reads

OnlyProvedRise == \A user \in verified' \ verified : proved[user] # None

RoleIsProved == [][OnlyProvedRise]_verificationVars

=============================================================================
