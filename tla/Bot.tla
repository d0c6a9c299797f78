--------------------------------- MODULE Bot ---------------------------------
(***************************************************************************)
(* Verification and onboarding in one process, on one database and in one  *)
(* guild.  Verification writes what onboarding reads: the verified role of *)
(* a member and the row of verified_identities (verify_repository's        *)
(* find_user_by_id).  Neither waits for the other: a member may verify,    *)
(* verify again with another address, leave, or rejoin between any two     *)
(* steps of a request.                                                     *)
(***************************************************************************)
EXTENDS Onboarding

CONSTANTS Names,              \* preferred names
          Codes,              \* bound: the codes that may be generated
          MaxFailedAttempts,  \* wrong codes until an attempt is consumed
          Clerks,             \* verification's interactions and events
          Reads,              \* pairs of a user and an address the user reads
          MaxMishaps,         \* bound: clerks that die, and departures
          Reserve             \* bound: codes kept for addresses the user reads

ASSUME NamesAssumption == Identities = [email : Emails, name : Names]

VARIABLES
    pending, identities, issued, wrong, accepted,  \* verification's tables
    mailbox, sent, guild, clerk, mishaps           \* ... and handlers

Verifying ==
    INSTANCE Verification
    WITH Addresses <- Emails, Tasks <- Clerks, task <- clerk

ASSUME VerifyingAssumption ==
    /\ MaxFailedAttempts \in Nat \ {0}
    /\ None \notin Names \cup Codes
    /\ None \notin Verifying!Attempt \cup Verifying!Identity
    /\ Reads \subseteq Users \X Emails
    /\ MaxMishaps \in Nat
    /\ Reserve \in Nat

\* Onboarding's members and identities change as verification changes them.
ASSUME DriftAssumption == {"role", "identity"} \subseteq Drifts

verifyingVars == <<pending, identities, issued, wrong, accepted, mailbox, sent,
                   guild, clerk, mishaps>>

botVars == <<vars, verifyingVars>>

-----------------------------------------------------------------------------

\* find_user_by_id for each user, as onboarding reads it.
Confirmed == [u \in Users |-> Verifying!Confirmed(u)]

VerificationStep ==
    /\ Verifying!Next
    /\ verified' = Verifying!Holders'
    /\ identity' = Confirmed'
    /\ UNCHANGED <<requests, audit, reviewAudit, officers, authentik, dms,
                   cards, task, aborts>>

\* Onboarding changes neither a role nor an identity.
OnboardingStep ==
    /\ UNCHANGED <<verifyingVars, verified, identity>>
    /\ Next

BotInit ==
    /\ Verifying!Init
    /\ verified = Verifying!Holders
    /\ identity = Confirmed
    /\ Init

BotNext == VerificationStep \/ OnboardingStep

BotSpec == BotInit /\ [][BotNext]_botVars

-----------------------------------------------------------------------------

(***************************************************************************)
(* Whoever is in a target's group proved the account's address: a code     *)
(* that was mailed to it was entered by the very user whose request for    *)
(* that target an officer approved, whatever the user verified since, and  *)
(* however verification, approval and provisioning overlapped.             *)
(***************************************************************************)
AccessIsProved ==
    \A a \in Accounts, target \in Targets : <<a, target>> \in members =>
        \E id \in RequestIds :
            /\ Exists(id)
            /\ requests[id].target = target
            /\ Decision(requests[id]) = "approved"
            /\ <<requests[id].user, accounts[a]>> \in Reads

(***************************************************************************)
(* The link that sets an account's password is only ever sent to a user    *)
(* who reads the account's address, whoever else has the same username.    *)
(***************************************************************************)
LinkReachesOwner ==
    \A t \in Tasks : At(t, "dm") =>
        <<task[t].seen.user, accounts[task[t].account]>> \in Reads

(***************************************************************************)
(* Verification changes roles and identities in no other way than the      *)
(* onboarding handlers were checked against, so whatever holds of them     *)
(* holds of the bot.                                                       *)
(***************************************************************************)
ImplementsOnboarding == Spec

=============================================================================
