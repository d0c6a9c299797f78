------------------------------ MODULE BotProofs ------------------------------
(***************************************************************************)
(* What verification and onboarding achieve together.  Each step of the    *)
(* bot is a step of one of them that the other one allows for, so what was *)
(* proved of each holds of the bot; and what one promises is what the      *)
(* other needs for its promise to be about people and not addresses.       *)
(***************************************************************************)
EXTENDS Bot, OnboardingWorkProofs

\* Verification with its proofs.
Proved ==
    INSTANCE VerificationMailProofs
    WITH Addresses <- Emails, Tasks <- Clerks, task <- clerk

-----------------------------------------------------------------------------

\* Both instances of Verification speak of the same behaviours.
LEMMA SameSpecification == Verifying!Spec <=> Proved!Spec
<1>1. Verifying!Init <=> Proved!Init
  BY DEF Verifying!Init, Proved!Init, Verifying!TablesInit, Proved!TablesInit,
     Verifying!LegacyAttempt, Proved!LegacyAttempt, Verifying!Attempt,
     Proved!Attempt, Verifying!LegacyIdentity, Proved!LegacyIdentity,
     Verifying!Identity, Proved!Identity, Verifying!OldMember, Proved!OldMember,
     Verifying!Idle, Proved!Idle
<1>2. Verifying!Next <=> Proved!Next
  <2> USE DEF Verifying!tableVars, Proved!tableVars, Verifying!Idle,
              Proved!Idle, Verifying!At, Proved!At, Verifying!Set, Proved!Set,
              Verifying!Goto, Proved!Goto, Verifying!Finish, Proved!Finish,
              Verifying!Present, Proved!Present, Verifying!Spare, Proved!Spare
  <2>1. \A t \in Clerks : Verifying!Arrive(t) <=> Proved!Arrive(t)
    BY DEF Verifying!Arrive, Proved!Arrive, Verifying!SubmitEmail,
           Proved!SubmitEmail, Verifying!SubmitCode, Proved!SubmitCode,
           Verifying!Join, Proved!Join, Verifying!NewMember, Proved!NewMember
  <2>2. \A t \in Clerks :
           Verifying!LookupForEmail(t) <=> Proved!LookupForEmail(t)
    BY DEF Verifying!LookupForEmail, Proved!LookupForEmail
  <2>3. \A t \in Clerks : Verifying!LookupForJoin(t) <=> Proved!LookupForJoin(t)
    BY DEF Verifying!LookupForJoin, Proved!LookupForJoin
  <2>4. \A t \in Clerks : Verifying!Confirm(t) <=> Proved!Confirm(t)
    BY DEF Verifying!Confirm, Proved!Confirm, Verifying!ConfirmDisplayName,
           Proved!ConfirmDisplayName
  <2>5. \A t \in Clerks : Verifying!Start(t) <=> Proved!Start(t)
    <3>1. ASSUME NEW user, NEW email
          PROVE  Verifying!RoomForCode(user, email)
                   <=> Proved!RoomForCode(user, email)
      BY DEF Verifying!RoomForCode, Proved!RoomForCode,
             Verifying!Cardinality, Proved!Cardinality
    <3>2. \A user, email, name, code :
             Verifying!StartAttempt(user, email, name, code)
               <=> Proved!StartAttempt(user, email, name, code)
      BY DEF Verifying!StartAttempt, Proved!StartAttempt, Verifying!NewAttempt,
             Proved!NewAttempt, Verifying!Replaceable, Proved!Replaceable
    <3> QED
      BY <3>1, <3>2 DEF Verifying!Start, Proved!Start, Verifying!Replaceable,
                        Proved!Replaceable
  <2>6. \A t \in Clerks, delivered, failed \in BOOLEAN :
           Verifying!Mail(t, delivered, failed)
             <=> Proved!Mail(t, delivered, failed)
    BY DEF Verifying!Mail, Proved!Mail
  <2>7. \A t \in Clerks : Verifying!Cleanup(t) <=> Proved!Cleanup(t)
    BY DEF Verifying!Cleanup, Proved!Cleanup, Verifying!DeleteIfCodeMatches,
           Proved!DeleteIfCodeMatches, Verifying!Deletes, Proved!Deletes
  <2>8. \A t \in Clerks : Verifying!Check(t) <=> Proved!Check(t)
    BY DEF Verifying!Check, Proved!Check, Verifying!AcceptCode,
           Proved!AcceptCode, Verifying!RejectCode, Proved!RejectCode,
           Verifying!DiscardAttempt, Proved!DiscardAttempt, Verifying!Usable,
           Proved!Usable, Verifying!LastTry, Proved!LastTry,
           Verifying!HasAttemptsRemaining, Proved!HasAttemptsRemaining
  <2>9. \A t \in Clerks : Verifying!Fetch(t) <=> Proved!Fetch(t)
    BY DEF Verifying!Fetch, Proved!Fetch
  <2>10. \A t \in Clerks : Verifying!SetNick(t) <=> Proved!SetNick(t)
    BY DEF Verifying!SetNick, Proved!SetNick, Verifying!Edit, Proved!Edit
  <2>11. \A t \in Clerks :
           Verifying!AddVerifiedRole(t) <=> Proved!AddVerifiedRole(t)
    BY DEF Verifying!AddVerifiedRole, Proved!AddVerifiedRole, Verifying!Edit,
           Proved!Edit
  <2>12. \A t \in Clerks :
           Verifying!RemoveUnverifiedRole(t) <=> Proved!RemoveUnverifiedRole(t)
    BY DEF Verifying!RemoveUnverifiedRole, Proved!RemoveUnverifiedRole,
           Verifying!Edit, Proved!Edit
  <2>13. \A t \in Clerks :
           Verifying!AddUnverifiedRole(t) <=> Proved!AddUnverifiedRole(t)
    BY DEF Verifying!AddUnverifiedRole, Proved!AddUnverifiedRole,
           Verifying!Edit, Proved!Edit
  <2>14. \A t \in Clerks : Verifying!Abort(t) <=> Proved!Abort(t)
    BY DEF Verifying!Abort, Proved!Abort
  <2>15. \A u \in Users : Verifying!Leave(u) <=> Proved!Leave(u)
    BY DEF Verifying!Leave, Proved!Leave
  <2>16. \A u \in Users : Verifying!HourPasses(u) <=> Proved!HourPasses(u)
    BY DEF Verifying!HourPasses, Proved!HourPasses, Verifying!AttemptExpires,
           Proved!AttemptExpires
  <2> QED
    BY <2>1, <2>2, <2>3, <2>4, <2>5, <2>6, <2>7, <2>8, <2>9, <2>10, <2>11,
       <2>12, <2>13, <2>14, <2>15, <2>16
       DEF Verifying!Next, Proved!Next, Verifying!Progress, Proved!Progress
<1>3. [Verifying!Next]_Verifying!vars <=> [Proved!Next]_Proved!vars
  BY <1>2 DEF Verifying!vars, Proved!vars
<1> QED
  BY <1>1, <1>3, PTL DEF Verifying!Spec, Proved!Spec

-----------------------------------------------------------------------------
(***************************************************************************)
(* Verification in the bot.                                                *)
(***************************************************************************)

\* What verification and its proofs assume of the constants.
LEMMA VerifyingFacts ==
    /\ MaxFailedAttempts \in Nat \ {0}
    /\ None \notin Users \cup Emails \cup Names \cup Codes
    /\ None \notin Proved!Attempt /\ None \notin Proved!Identity
    /\ Reads \subseteq Users \X Emails /\ MaxMishaps \in Nat /\ Reserve \in Nat
BY VerifyingAssumption, ScenarioAssumption
   DEF Verifying!Attempt, Proved!Attempt, Verifying!Identity, Proved!Identity

(***************************************************************************)
(* The bot verifies as Verification says: nothing that onboarding does     *)
(* touches a form, a code, a mailbox or a member's nickname and roles.     *)
(***************************************************************************)
THEOREM BotImplementsVerification == BotSpec => Verifying!Spec
<1>1. BotInit => Verifying!Init
  BY DEF BotInit
<1>2. [BotNext]_botVars => [Verifying!Next]_Verifying!vars
  BY DEF BotNext, VerificationStep, OnboardingStep, botVars, verifyingVars,
         Verifying!vars
<1> QED
  BY <1>1, <1>2, PTL DEF BotSpec, Verifying!Spec

LEMMA BotVerifies == BotSpec => Proved!Spec
BY BotImplementsVerification, SameSpecification, PTL

\* What is proved of verification, as onboarding uses it.
LEMMA IdentitiesProved == BotSpec => []Proved!IdentityIsProved
<1>1. Proved!Spec => []Proved!IdentityIsProved
  BY VerifyingFacts, Proved!IdentityIsProvedHolds
<1> QED
  BY <1>1, BotVerifies, PTL

LEMMA StandingSingly == BotSpec => [][Proved!StandingStep]_Proved!vars
<1>1. Proved!Spec => [][Proved!StandingStep]_Proved!vars
  BY VerifyingFacts, Proved!StandingChangesSingly
<1> QED
  BY <1>1, BotVerifies, PTL

-----------------------------------------------------------------------------
(***************************************************************************)
(* Onboarding in the bot.                                                  *)
(***************************************************************************)

\* What onboarding reads is what verification last wrote.
Linked ==
    /\ verified = Proved!Holders
    /\ identity = [u \in Users |-> Proved!Confirmed(u)]

LEMMA SameStanding ==
    /\ Verifying!Holders = Proved!Holders
    /\ Confirmed = [u \in Users |-> Proved!Confirmed(u)]
BY DEF Verifying!Holders, Proved!Holders, Verifying!Present, Proved!Present,
       Confirmed, Verifying!Confirmed, Proved!Confirmed

LEMMA StandingIsLinked == BotSpec => []Linked
<1>1. BotInit => Linked
  BY SameStanding DEF BotInit, Linked
<1>2. Linked /\ [BotNext]_botVars => Linked'
  <2> SUFFICES ASSUME Linked, [BotNext]_botVars PROVE Linked'
    OBVIOUS
  <2>1. CASE VerificationStep
    <3>1. /\ Verifying!Holders' = Proved!Holders'
          /\ Confirmed' = [u \in Users |-> Proved!Confirmed(u)']
      BY DEF Verifying!Holders, Proved!Holders, Verifying!Present,
             Proved!Present, Confirmed, Verifying!Confirmed, Proved!Confirmed
    <3> QED
      BY <2>1, <3>1 DEF VerificationStep, Linked
  <2>2. CASE UNCHANGED <<verifyingVars, verified, identity>>
    BY <2>2 DEF verifyingVars, Linked, Proved!Holders, Proved!Present,
                Proved!Confirmed
  <2> QED
    BY <2>1, <2>2 DEF BotNext, OnboardingStep, botVars, vars
<1> QED
  BY <1>1, <1>2, PTL DEF BotSpec

\* A step of verification is one that the onboarding handlers allow for.
LEMMA VerificationIsDrift ==
    ASSUME Linked, Linked', [Proved!StandingStep]_Proved!vars,
           UNCHANGED <<requests, audit, reviewAudit, officers, authentik, dms,
                       cards, task, aborts>>
    PROVE  [Next]_vars
<1>1. identity = [u \in Users |-> Proved!Confirmed(u)]
  BY DEF Linked
<1>2. identity' = [u \in Users |-> Proved!Confirmed(u)']
  BY DEF Linked
<1>3. CASE UNCHANGED Proved!Holders /\ Proved!SameIdentities
  <2>1. UNCHANGED <<verified, identity>>
    BY <1>1, <1>2, <1>3 DEF Linked, Proved!SameIdentities
  <2> QED
    BY <2>1 DEF vars, authentik
<1>4. ASSUME NEW user \in Users, Proved!SameIdentities, Proved!RoleMoves(user)
      PROVE  RoleChanges(user)
  <2>1. UNCHANGED identity
    BY <1>1, <1>2, <1>4 DEF Proved!SameIdentities
  <2> QED
    BY <1>4, <2>1, DriftAssumption
       DEF RoleChanges, Proved!RoleMoves, Linked
<1>5. ASSUME NEW user \in Users, UNCHANGED Proved!Holders,
             Proved!IdentityMoves(user)
      PROVE  IdentityChanges(user)
  <2> DEFINE i == Proved!Confirmed(user)'
  <2>1. i \in Identities \ {identity[user]}
    BY <1>1, <1>5, NamesAssumption
       DEF Proved!IdentityMoves, Proved!ConfirmedIdentity
  <2>2. identity' = [identity EXCEPT ![user] = i]
    BY <1>1, <1>2, <1>5 DEF Proved!IdentityMoves
  <2>3. UNCHANGED verified
    BY <1>5 DEF Linked
  <2> HIDE DEF i
  <2> QED
    BY <2>1, <2>2, <2>3, DriftAssumption DEF IdentityChanges
<1>6. CASE UNCHANGED Proved!vars
  <2>1. UNCHANGED <<verified, identity>>
    BY <1>1, <1>2, <1>6 DEF Linked, Proved!vars, Proved!Holders, Proved!Present,
                            Proved!Confirmed
  <2> QED
    BY <2>1 DEF vars, authentik
<1> QED
  BY <1>3, <1>4, <1>5, <1>6 DEF Proved!StandingStep, Next, Environment

(***************************************************************************)
(* The bot onboards as Onboarding says, for any number of members and      *)
(* tasks, and so whatever was proved of the onboarding handlers.           *)
(***************************************************************************)
THEOREM BotImplementsOnboarding == BotSpec => ImplementsOnboarding
<1>1. BotInit => Init
  BY DEF BotInit
<1>2. /\ Linked /\ Linked'
      /\ [BotNext]_botVars
      /\ [Proved!StandingStep]_Proved!vars
      => [Next]_vars
  BY VerificationIsDrift DEF BotNext, VerificationStep, OnboardingStep, botVars
<1> QED
  BY <1>1, <1>2, StandingSingly, StandingIsLinked, PTL
     DEF BotSpec, ImplementsOnboarding, Spec

-----------------------------------------------------------------------------
(***************************************************************************)
(* Requests keep to addresses that their users read.                       *)
(***************************************************************************)

OwnEmail(row) == <<row.user, row.identity.email>> \in Reads

\* What a task may have in hand: rows of that kind, and an own identity.
OwnTask(l) ==
    /\ l.seen # NoRow => OwnEmail(l.seen)
    /\ l.identity # None => <<l.user, l.identity.email>> \in Reads

(***************************************************************************)
(* The inductive invariant: an address only comes into a request from an   *)
(* identity, by way of a task's local variables.                           *)
(***************************************************************************)
ProvedInv ==
    /\ \A id \in RequestIds : Exists(id) => OwnEmail(requests[id])
    /\ \A t \in Tasks : OwnTask(task[t])

IdentitiesOwn ==
    \A u \in Users : identity[u] # None => <<u, identity[u].email>> \in Reads

LEMMA IdentitiesAreOwn == Linked /\ Proved!IdentityIsProved => IdentitiesOwn
BY DEF Linked, Proved!IdentityIsProved, IdentitiesOwn, Proved!Confirmed

\* What a task takes over from itself, the table and the identities.
Inherits(t, l) ==
    /\ \/ l.seen \in {NoRow, task[t].seen}
       \/ \E id \in RequestIds : requests'[id] # NoRow /\ l.seen = requests'[id]
    /\ \/ l.identity = None
       \/ /\ l.user = task[t].user
          /\ \/ l.identity = task[t].identity
             \/ l.user \in Users /\ l.identity = identity[l.user]

InheritStep(t) == \E l : Set(t, l) /\ Inherits(t, l)

\* A task that changes neither the row in hand nor the identity.
LEMMA KeepsData ==
    ASSUME NEW t \in Tasks, NEW l, Set(t, l),
           l.seen = task[t].seen, l.identity = task[t].identity,
           l.user = task[t].user
    PROVE  InheritStep(t)
BY DEF InheritStep, Inherits

\* Going on without new data.
LEMMA GotoInherits ==
    ASSUME IInv, NEW t \in Tasks, NEW pc, Goto(t, pc)
    PROVE  InheritStep(t)
<1> DEFINE l == [task[t] EXCEPT !.pc = pc]
<1>1. /\ l.seen = task[t].seen /\ l.identity = task[t].identity
      /\ l.user = task[t].user
  BY TaskFacts DEF Task
<1> QED
  BY <1>1, KeepsData DEF Goto

\* A task that starts or ends has nothing in hand.
LEMMA FreshInherits ==
    ASSUME NEW t \in Tasks, NEW l, Set(t, l), l.seen = NoRow, l.identity = None
    PROVE  InheritStep(t)
BY DEF InheritStep, Inherits

LEMMA FinishInherits == ASSUME NEW t \in Tasks, Finish(t) PROVE InheritStep(t)
BY FreshInherits DEF Finish, Idle

LEMMA ResumeInherits ==
    ASSUME IInv, NEW t \in Tasks, NEW pc, Resume(t, pc)
    PROVE  InheritStep(t)
BY FinishInherits, GotoInherits DEF Resume, Finish

\* A task that goes on to show a row, as it is after the step.
LEMMA SyncInherits ==
    ASSUME IInv, NEW t \in Tasks, NEW id \in RequestIds, NEW after,
           requests'[id] # NoRow, Sync(t, id, requests'[id], after)
    PROVE  InheritStep(t)
<1> DEFINE l == [task[t] EXCEPT !.pc = "review", !.request = id,
                                !.seen = requests'[id], !.after = after]
<1>1. /\ l.seen = requests'[id] /\ l.identity = task[t].identity
      /\ l.user = task[t].user
  BY TaskFacts DEF Task
<1> QED
  BY <1>1 DEF Sync, InheritStep, Inherits

\* The actions of a task that touch no review message.
LEMMA RowActionsInherit ==
    ASSUME IInv, NEW t \in Tasks,
           \/ QuietAction(t)
           \/ Insert(t) \/ DecideRequest(t) \/ Claim(t) \/ RecordOutcome(t)
    PROVE  InheritStep(t)
<1>1. task[t] \in Task /\ LocalOK(task[t], requests)
  BY TaskFacts
<1>2. CASE \E id \in RequestIds, after \in Points :
              requests'[id] # NoRow /\ Sync(t, id, requests'[id], after)
  BY <1>2, SyncInherits
<1>3. CASE Start(t)
  <2>1. PICK kind, actor, user, target, id :
            Begin(t, kind, actor, user, target, id)
    BY <1>3 DEF Start, CallOnboard, CallOn, Click
  <2> DEFINE l == [Idle EXCEPT !.pc = "authorize", !.kind = kind,
                               !.actor = actor, !.user = user,
                               !.target = target, !.request = id]
  <2>2. l.seen = NoRow /\ l.identity = None
    BY DEF Idle
  <2> QED
    BY <2>1, <2>2, FreshInherits DEF Begin
<1>4. CASE ReadIdentity(t)
  <2> DEFINE l == [task[t] EXCEPT !.pc = "insert",
                                  !.identity = identity[task[t].user]]
  <2>1. /\ l.seen = task[t].seen /\ l.user = task[t].user
        /\ l.identity = identity[task[t].user]
    BY <1>1 DEF Task
  <2>2. task[t].user \in Users
    BY <1>1, <1>4 DEF ReadIdentity, At, LocalOK, CallerOK
  <2>3. CASE Set(t, l)
    BY <2>1, <2>2, <2>3 DEF InheritStep, Inherits
  <2> QED
    BY <1>4, <2>3, FinishInherits DEF ReadIdentity
<1>5. CASE FindUser(t)
  <2>1. ASSUME NEW a, Set(t, [task[t] EXCEPT !.pc = "group", !.account = a])
        PROVE  InheritStep(t)
    <3> DEFINE l == [task[t] EXCEPT !.pc = "group", !.account = a]
    <3>1. /\ l.seen = task[t].seen /\ l.identity = task[t].identity
          /\ l.user = task[t].user
      BY <1>1 DEF Task
    <3> QED
      BY <2>1, <3>1, KeepsData
  <2> QED
    BY <1>5, <2>1, GotoInherits DEF FindUser
<1>6. ASSUME NEW a \in Accounts, NEW lost \in BOOLEAN, CreateUser(t, a, lost)
      PROVE  InheritStep(t)
  <2> DEFINE k == [task[t] EXCEPT !.pc = "group", !.account = a]
             l == [k EXCEPT !.pc = IF lost THEN "fail" ELSE @]
  <2>1. /\ l.seen = task[t].seen /\ l.identity = task[t].identity
        /\ l.user = task[t].user
    BY <1>1 DEF Task
  <2>2. Set(t, l)
    BY <1>6 DEF CreateUser, Answered
  <2> QED
    BY <2>1, <2>2, KeepsData
<1>7. ASSUME NEW lost \in BOOLEAN,
             AddToGroup(t, lost) \/ SendCompletion(t, lost)
      PROVE  InheritStep(t)
  <2>1. PICK pc \in {"link", "complete"} :
            Answered(t, lost, [task[t] EXCEPT !.pc = pc])
    BY <1>7 DEF AddToGroup, SendCompletion
  <2> DEFINE k == [task[t] EXCEPT !.pc = pc]
             l == [k EXCEPT !.pc = IF lost THEN "fail" ELSE @]
  <2>2. /\ l.seen = task[t].seen /\ l.identity = task[t].identity
        /\ l.user = task[t].user
    BY <1>1 DEF Task
  <2>3. Set(t, l)
    BY <2>1 DEF Answered
  <2> QED
    BY <2>2, <2>3, KeepsData
<1>8. CASE SyncFails(t)
  BY <1>8, FinishInherits, ResumeInherits DEF SyncFails
<1>9. ASSUME \/ Abort(t) \/ CheckRole(t) \/ CheckIdentity(t) \/ Reply(t)
             \/ SendDenial(t) \/ AuthorizeProvisioning(t) \/ CallFails(t)
             \/ TimesOut(t) \/ UsernameRefused(t) \/ CreateRecoveryLink(t)
      PROVE  InheritStep(t)
  <2>1. Finish(t) \/ \E pc \in Points : Goto(t, pc)
    BY <1>9 DEF Abort, CheckRole, CheckIdentity, Reply, SendDenial,
                AuthorizeProvisioning, CallFails, TimesOut, UsernameRefused,
                CreateRecoveryLink, Points
  <2> QED
    BY <2>1, FinishInherits, GotoInherits
<1>10. CASE \/ Authorize(t) \/ Select(t)
            \/ Insert(t) \/ DecideRequest(t) \/ Claim(t) \/ RecordOutcome(t)
  <2>1. ShowsRow(t)
    BY <1>10, RowActions DEF QuietAction
  <2>2. CASE Finish(t) \/ \E pc \in Points : Goto(t, pc)
    BY <2>2, FinishInherits, GotoInherits
  <2>3. CASE \E id, row, after : Sync(t, id, row, after)
    <3>1. PICK id, row, after : Sync(t, id, row, after)
      BY <2>3
    <3>2. task'[t].pc \in Syncing
      BY <1>1, <3>1 DEF Sync, Set, Task, IInv, TasksOK, Syncing
    <3>3. \A l : Set(t, l) => task'[t] = l
      BY DEF Set, IInv, TasksOK
    <3> QED
      BY <1>2, <2>1, <3>2, <3>3 DEF ShowsRow
  <2>4. CASE Authorize(t)
    <3>1. task[t].kind \in Kinds
      BY <1>1, <2>4 DEF Authorize, At, LocalOK, CallerOK
    <3> QED
      BY <2>2, <2>3, <2>4, <3>1 DEF Authorize, Kinds, Points
  <2>5. CASE Select(t) \/ Insert(t)
    BY <2>2, <2>3, <2>5 DEF Select, Insert, Points
  <2>6. CASE DecideRequest(t) \/ Claim(t) \/ RecordOutcome(t)
    BY <2>2, <2>3, <2>6 DEF DecideRequest, Claim, RecordOutcome
  <2> QED
    BY <1>10, <2>4, <2>5, <2>6
<1> QED
  BY <1>3, <1>4, <1>5, <1>6, <1>7, <1>8, <1>9, <1>10 DEF QuietAction

\* The actions that do.
LEMMA ReviewActionsInherit ==
    ASSUME IInv, NEW t \in Tasks,
           \/ EditReview(t) \/ RecordReview(t)
           \/ \E message \in Messages : PostReview(t, message)
    PROVE  InheritStep(t)
<1>1. task[t] \in Task /\ LocalOK(task[t], requests)
  BY TaskFacts
<1>2. CASE EditReview(t)
  BY <1>2, ResumeInherits, GotoInherits DEF EditReview
<1>3. ASSUME NEW message \in Messages, PostReview(t, message)
      PROVE  InheritStep(t)
  <2> DEFINE l == [task[t] EXCEPT !.pc = "record", !.posted = message]
  <2>1. /\ l.seen = task[t].seen /\ l.identity = task[t].identity
        /\ l.user = task[t].user
    BY <1>1 DEF Task
  <2> QED
    BY <1>3, <2>1, KeepsData DEF PostReview
<1>4. CASE RecordReview(t)
  <2> DEFINE id == task[t].request
             l == [task[t] EXCEPT !.pc = "reply", !.seen = requests'[id]]
  <2>1. id \in RequestIds /\ requests[id] # NoRow
    BY <1>1, <1>4
       DEF RecordReview, At, LocalOK, NamedOK, Named, NamedPoints, Syncing
  <2>2. requests'[id] # NoRow
    <3>1. [RepoNext]_repoVars
      BY <1>4, RecordReviewOK DEF GoodStep
    <3> QED
      BY <2>1, <3>1, RowEvolution DEF IInv, Exists
  <2>3. /\ l.seen = requests'[id] /\ l.identity = task[t].identity
        /\ l.user = task[t].user
    BY <1>1 DEF Task
  <2>4. CASE Set(t, l)
    BY <2>1, <2>2, <2>3, <2>4 DEF InheritStep, Inherits
  <2> QED
    BY <1>4, <2>4, ResumeInherits DEF RecordReview
<1> QED
  BY <1>2, <1>3, <1>4

\* Every action of a task.
LEMMA TaskInherits ==
    ASSUME IInv, NEW t \in Tasks, Start(t) \/ Progress(t) \/ Abort(t)
    PROVE  InheritStep(t)
BY RowActionsInherit, ReviewActionsInherit DEF Progress, QuietAction

\* Rows appear by an insert only.
LEMMA NoNewRow ==
    ASSUME IInv, NEW id \in RequestIds, ~Exists(id), Next,
           \A t \in Tasks : ~Insert(t)
    PROVE  ~Exists(id)'
<1>1. CASE UNCHANGED requests
  BY <1>1 DEF Exists
<1>2. ASSUME NEW other, Exists(other), NEW row,
             requests' = [requests EXCEPT ![other] = row]
      PROVE  ~Exists(id)'
  BY <1>2 DEF Exists, IInv, RepoTypeOK
<1>3. ASSUME NEW other, NEW actor, NEW attempt, NEW account, NEW message,
             \/ Approve(other, actor) \/ Deny(other, actor)
             \/ ClaimProvisioning(other, actor)
             \/ MarkCompleted(other, account, attempt)
             \/ MarkFailed(other, attempt)
             \/ SetReviewMessage(other, message)
             \/ LeaseExpires(other)
      PROVE  ~Exists(id)'
  BY <1>2, <1>3
     DEF Approve, Deny, Decide, ClaimProvisioning, MarkCompleted, MarkFailed,
         SetReviewMessage, LeaseExpires, Commit
<1>4. ASSUME NEW t \in Tasks,
             \/ DecideRequest(t) \/ Claim(t) \/ RecordOutcome(t)
             \/ RecordReview(t)
      PROVE  ~Exists(id)'
  BY <1>1, <1>3, <1>4
     DEF DecideRequest, Claim, RecordOutcome, RecordReview, repoVars
<1>5. ASSUME NEW t \in Tasks,
             \/ QuietAction(t) \/ EditReview(t)
             \/ \E message \in Messages : PostReview(t, message)
      PROVE  UNCHANGED requests
  BY <1>5
     DEF QuietAction, Start, CallOnboard, CallOn, Click, Begin, Abort,
         Authorize, CheckRole, ReadIdentity, CheckIdentity, Select, Reply,
         SendDenial, AuthorizeProvisioning, CallFails, TimesOut, FindUser,
         UsernameRefused, CreateRecoveryLink, SyncFails, CreateUser,
         AddToGroup, SendCompletion, EditReview, PostReview
<1>6. CASE Environment
  BY <1>1, <1>3, <1>6
     DEF Environment, TimePasses, RoleChanges, IdentityChanges, OfficerChanges,
         LateUser, LateMember
<1> QED
  BY <1>1, <1>4, <1>5, <1>6 DEF Next, Progress, QuietAction

\* The row that is inserted has the address that was read for it.
LEMMA InsertedRow ==
    ASSUME IInv, ProvedInv, NEW t \in Tasks, Insert(t),
           NEW id \in RequestIds, ~Exists(id), Exists(id)'
    PROVE  OwnEmail(requests'[id])
<1>1. /\ task[t].identity \in Identities
      /\ task[t].identity # None
  BY TaskFacts, ScenarioAssumption DEF Insert, At, LocalOK, DataOK
<1>2. PICK new \in RequestIds :
          StartRequest(new, task[t].user, task[t].target, task[t].actor,
                       task[t].identity)
  BY DEF Insert, Exists, repoVars
<1>3. requests'[id] = NewRow(task[t].user, task[t].target, task[t].actor,
                             task[t].identity)
  BY <1>2 DEF StartRequest, Commit, Exists, IInv, RepoTypeOK
<1>4. <<task[t].user, task[t].identity.email>> \in Reads
  BY <1>1 DEF ProvedInv, OwnTask
<1>5. /\ requests'[id].user = task[t].user
      /\ requests'[id].identity = task[t].identity
  BY <1>3 DEF NewRow
<1> QED
  BY <1>4, <1>5 DEF OwnEmail

\* Requests keep the address they were inserted with.
LEMMA RowsStayProved ==
    ASSUME IInv, ProvedInv, [Next]_vars, NEW id \in RequestIds, Exists(id)'
    PROVE  OwnEmail(requests'[id])
<1>1. CASE Exists(id)
  <2>1. SameKey(requests[id], requests'[id])
    BY <1>1, InvStep, RowEvolution DEF IInv
  <2> QED
    BY <1>1, <2>1 DEF SameKey, OwnEmail, ProvedInv
<1>2. CASE ~Exists(id)
  BY <1>2, NoNewRow, InsertedRow DEF vars, Exists
<1> QED
  BY <1>1, <1>2

LEMMA ProvedStep ==
    ASSUME IInv, ProvedInv, IdentitiesOwn, [Next]_vars
    PROVE  ProvedInv'
<1>1. \A id \in RequestIds : Exists(id)' => OwnEmail(requests'[id])
  BY RowsStayProved
<1>2. CASE UNCHANGED task
  BY <1>1, <1>2 DEF ProvedInv, Exists, OwnTask, OwnEmail
<1>3. ASSUME NEW t \in Tasks, InheritStep(t) PROVE ProvedInv'
  <2>1. PICK l : Set(t, l) /\ Inherits(t, l)
    BY <1>3 DEF InheritStep
  <2>2. OwnTask(l)
    BY <1>1, <2>1
       DEF Inherits, OwnTask, ProvedInv, IdentitiesOwn, Exists
  <2>3. \A u \in Tasks : task'[u] = IF u = t THEN l ELSE task[u]
    BY <2>1 DEF Set, IInv, TasksOK
  <2> QED
    BY <1>1, <2>2, <2>3 DEF ProvedInv, OwnTask, OwnEmail, Exists
<1>4. CASE Environment
  BY <1>2, <1>4
     DEF Environment, TimePasses, RoleChanges, IdentityChanges, OfficerChanges,
         LateUser, LateMember
<1> QED
  BY <1>2, <1>3, <1>4, TaskInherits DEF Next, vars

LEMMA ProvedInit == Init => ProvedInv
BY DEF Init, RepoInit, ProvedInv, Exists, OwnTask, Idle

LEMMA BotInvariance == BotSpec => [](IInv /\ WorkInv /\ ProvedInv)
<1>1. Init => ProvedInv
  BY ProvedInit
<1>2. IInv /\ ProvedInv /\ IdentitiesOwn /\ [Next]_vars => ProvedInv'
  BY ProvedStep
<1>3. BotSpec => Spec
  BY BotImplementsOnboarding DEF ImplementsOnboarding
<1>4. BotSpec => []IdentitiesOwn
  BY StandingIsLinked, IdentitiesProved, IdentitiesAreOwn, PTL
<1> QED
  BY <1>1, <1>2, <1>3, <1>4, Invariance, WorkInvariance, PTL DEF Spec

(***************************************************************************)
(* Access is only ever given on an address whose user proved to read it,   *)
(* on a request of that user for that target that an officer approved, for *)
(* any number of members, forms, clicks and workers.                       *)
(***************************************************************************)
THEOREM AccessIsProvedHolds == BotSpec => []AccessIsProved
<1>1. WorkInv /\ ProvedInv => AccessIsProved
  BY DEF WorkInv, ProvedInv, OwnEmail, AccessNeedsApproval, AccessIsProved
<1> QED
  BY <1>1, BotInvariance, PTL

(***************************************************************************)
(* The link that sets the password only goes to a reader of the account's  *)
(* address, however often the user verified again since, and whichever     *)
(* account was found, created or taken by a namesake.                      *)
(***************************************************************************)
THEOREM LinkReachesOwnerHolds == BotSpec => []LinkReachesOwner
<1>1. ASSUME IInv, WorkInv, ProvedInv PROVE LinkReachesOwner
  <2> SUFFICES ASSUME NEW t \in Tasks, At(t, "dm")
               PROVE  <<task[t].seen.user, accounts[task[t].account]>> \in Reads
    BY DEF LinkReachesOwner
  <2>1. accounts[task[t].account] = task[t].seen.identity.email
    BY <1>1 DEF WorkInv, WorkersOK, Worker, Deeds, At
  <2>2. task[t].seen # NoRow
    BY <1>1, TaskFacts, NullAssumption DEF At, LocalOK, DataOK, Holding
  <2> QED
    BY <1>1, <2>1, <2>2 DEF ProvedInv, OwnTask, OwnEmail
<1> QED
  BY <1>1, BotInvariance, PTL

(***************************************************************************)
(* Together they keep both promises: requests are opened, settled, given   *)
(* access and completed as OnboardingLifecycle says, while attempts are    *)
(* opened, closed and proved as VerificationLifecycle says.                *)
(***************************************************************************)
THEOREM BotKeepsPromises ==
    BotSpec => ImplementsLifecycle /\ Proved!ImplementsVerification
<1>1. Proved!Spec => Proved!ImplementsVerification
  BY VerifyingFacts, Proved!ImplementsVerificationHolds
<1>2. Spec => ImplementsLifecycle
  BY ImplementsLifecycleHolds
<1>3. BotSpec => Spec
  BY BotImplementsOnboarding DEF ImplementsOnboarding
<1> QED
  BY <1>1, <1>2, <1>3, BotVerifies, PTL

=============================================================================
