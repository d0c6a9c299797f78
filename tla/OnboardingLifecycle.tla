------------------------ MODULE OnboardingLifecycle ------------------------
(***************************************************************************)
(* What onboarding promises, without tables, tasks, attempts or failures:  *)
(* a request is decided once; access to a target is given to the address   *)
(* of an approved request and to no other; a request is completed only     *)
(* when its address has the access; a user has one request per target that *)
(* is not denied.  Access stays: the bot never takes it away.              *)
(***************************************************************************)
CONSTANTS RequestIds, Subjects, None

VARIABLES phase,     \* how far each request is
          subject,   \* its user, target and e-mail
          access     \* who has access: pairs of an e-mail and a target

lifecycleVars == <<phase, subject, access>>

Phases == {"none", "open", "denied", "approved", "completed"}

Grant(id) == <<subject[id].email, subject[id].target>>

LifecycleTypeOK ==
    /\ phase \in [RequestIds -> Phases]
    /\ subject \in [RequestIds -> Subjects \cup {None}]

LifecycleInit ==
    /\ phase = [id \in RequestIds |-> "none"]
    /\ subject = [id \in RequestIds |-> None]
    /\ access = {}

Open(id, s) ==
    /\ phase[id] = "none"
    /\ \A other \in RequestIds :
         phase[other] \in {"open", "approved", "completed"} =>
            subject[other].user # s.user \/ subject[other].target # s.target
    /\ phase' = [phase EXCEPT ![id] = "open"]
    /\ subject' = [subject EXCEPT ![id] = s]
    /\ UNCHANGED access

Settle(id, decision) ==
    /\ phase[id] = "open"
    /\ phase' = [phase EXCEPT ![id] = decision]
    /\ UNCHANGED <<subject, access>>

GiveAccess(id) ==
    /\ phase[id] = "approved"
    /\ access' = access \cup {Grant(id)}
    /\ UNCHANGED <<phase, subject>>

Complete(id) ==
    /\ phase[id] = "approved"
    /\ Grant(id) \in access
    /\ phase' = [phase EXCEPT ![id] = "completed"]
    /\ UNCHANGED <<subject, access>>

LifecycleNext ==
    \E id \in RequestIds :
        \/ \E s \in Subjects : Open(id, s)
        \/ \E decision \in {"approved", "denied"} : Settle(id, decision)
        \/ GiveAccess(id)
        \/ Complete(id)

LifecycleSpec == LifecycleInit /\ [][LifecycleNext]_lifecycleVars

(***************************************************************************)
(* Access is only ever given on an approved request.                       *)
(***************************************************************************)
AccessIsApproved ==
    \A grant \in access : \E id \in RequestIds :
        phase[id] \in {"approved", "completed"} /\ Grant(id) = grant

=============================================================================
