----------------------------- MODULE Onboarding -----------------------------
(***************************************************************************)
(* The onboarding handlers of commands/onboard/mod.rs at work on the       *)
(* tables of OnboardingRepository, together with what they talk to:        *)
(* Discord (member roles, review messages, direct messages), the persisted *)
(* identities, and Authentik (accounts and group members).                 *)
(*                                                                         *)
(* A task is one Discord interaction that a Tokio task is serving.  Each   *)
(* action is the code between two awaits: other tasks, officers, members   *)
(* and the clock may act at every step in between.  A call to another      *)
(* system may fail, and a failed call may still have taken effect, or take *)
(* effect later.                                                           *)
(*                                                                         *)
(* The bot keeps the case of an address's local part (domain/verification, *)
(* EmailAddress::parse) and compares addresses, asks Authentik for them    *)
(* and makes usernames of them as they are spelled.  So two spellings of   *)
(* one address are two members of Emails, with a username each.            *)
(***************************************************************************)
EXTENDS OnboardingRepository

CONSTANTS Tasks,         \* interactions served concurrently
          Emails,        \* e-mail addresses, as spelled
          Username,      \* an e-mail's local part, the Authentik username
          Registered,    \* e-mails of accounts that were there before the bot
          Handlers,      \* the interactions that occur
          Drifts,        \* which of roles, identities and officers change
          MaxAborts,     \* bound: tasks that die on an error or a crash
          MaxLate        \* bound: requests to Authentik that are late at a time

Kinds == {"onboard", "status", "approve", "deny", "retry"}

ASSUME IdentityAssumption == \A i \in Identities : i.email \in Emails

ASSUME ScenarioAssumption ==
    /\ Username \in [Emails -> STRING]
    /\ Registered \subseteq Emails
    /\ Handlers \subseteq Kinds
    /\ Drifts \subseteq {"role", "identity", "officer"}
    /\ MaxAborts \in Nat
    /\ MaxLate \in Nat
    /\ None \notin RequestIds \cup Users \cup Targets \cup Identities
    /\ None \notin Emails \cup [request : RequestIds, status : Statuses]

VARIABLES
    verified,    \* guild members that hold the verified role
    identity,    \* verified_identities: a user's confirmed identity
    officers,    \* who holds an approver role of which target
    accounts,    \* Authentik: the e-mail of each account
    members,     \* Authentik: accounts in the group of a target
    lateUsers,   \* creations that timed out and may yet be carried out
    lateMembers, \* ... and additions to a group
    dms,         \* direct messages delivered, by request, kind and attempt
    cards,       \* messages in the review channel and what they show
    task,        \* the local state of each task
    aborts       \* tasks that died so far

world == <<verified, identity, officers>>
authentik == <<accounts, members, lateUsers, lateMembers>>
vars == <<requests, audit, reviewAudit, verified, identity, officers,
          accounts, members, lateUsers, lateMembers, dms, cards, task, aborts>>

-----------------------------------------------------------------------------

Points == {"idle", "authorize", "role", "identity", "insert", "select",
           "decide", "denial", "provision", "recheck_role",
           "recheck_identity", "claim", "account", "create", "group", "link",
           "dm", "complete", "fail", "review", "post", "record", "reply"}

Task == [pc       : Points,
         kind     : Kinds \cup {None},
         actor    : Actors \cup {None},
         user     : Users \cup {None},
         target   : Targets \cup {None},
         identity : Identities \cup {None},   \* read for /onboard
         request  : RequestIds \cup {None},
         seen     : Row \cup {NoRow},         \* the last row returned
         account  : Accounts \cup {None},
         posted   : Messages \cup {None},     \* sent, not yet recorded
         after    : Points]                   \* where to go on after a sync

Idle == [pc |-> "idle", kind |-> None, actor |-> None, user |-> None,
         target |-> None, identity |-> None, request |-> None,
         seen |-> NoRow, account |-> None, posted |-> None, after |-> "idle"]

At(t, pc) == task[t].pc = pc

Set(t, local) == task' = [task EXCEPT ![t] = local]

Goto(t, pc) == Set(t, [task[t] EXCEPT !.pc = pc])

\* The handler returns: to its caller, or to go on after a best-effort sync.
Resume(t, pc) == IF pc = "idle" THEN Set(t, Idle) ELSE Goto(t, pc)

Finish(t) == Set(t, Idle)

\* ensure_review_message with the row a transaction returned.
Sync(t, id, row, after) ==
    Set(t, [task[t] EXCEPT !.pc = "review", !.request = id, !.seen = row,
                           !.after = after])

RowOf(t) == requests[task[t].request]

Attempt(t) == task[t].seen.attempts

\* Mutant: the worker reads the identity again instead of the request's copy.
EmailNow(t) == identity[task[t].seen.user].email

Email(t) == task[t].seen.identity.email

(***************************************************************************)
(* Bound on failures: a task of the last attempt meets none, because no    *)
(* attempt would be left to repeat it.                                     *)
(***************************************************************************)
MayFail(t) == task[t].seen # NoRow => Attempt(t) < MaxAttempts

\* Bound on requests: there is an id for every /onboard in flight.
RoomForRequest ==
    Cardinality({t \in Tasks : task[t].kind = "onboard"})
        < Cardinality({id \in RequestIds : ~Exists(id)})

-----------------------------------------------------------------------------

Begin(t, kind, actor, user, target, id) ==
    /\ kind \in Handlers
    /\ At(t, "idle")
    /\ Set(t, [Idle EXCEPT !.pc = "authorize", !.kind = kind, !.actor = actor,
                           !.user = user, !.target = target, !.request = id])
    /\ UNCHANGED <<requests, audit, reviewAudit, world, authentik, dms, cards,
                   aborts>>

(***************************************************************************)
(* /onboard, /onboarding_status, /onboarding_retry, and a click on a       *)
(* button of a review message: the custom id names the request.            *)
(***************************************************************************)
CallOnboard(t, actor, user, target) ==
    /\ RoomForRequest
    /\ Begin(t, "onboard", actor, user, target, None)

CallOn(t, kind, actor, id) ==
    /\ Exists(id)
    /\ Begin(t, kind, actor, requests[id].user, requests[id].target, id)

Click(t, kind, actor, message) ==
    /\ cards[message] # None
    /\ cards[message].status = "pending"
    /\ CallOn(t, kind, actor, cards[message].request)

(***************************************************************************)
(* can_approve_target on the freshly fetched member.  /onboarding_status   *)
(* keeps the row it has just read and goes on to show it.                  *)
(***************************************************************************)
Authorize(t) ==
    /\ At(t, "authorize")
    /\ IF <<task[t].actor, task[t].target>> \notin officers
       THEN Finish(t)
       ELSE CASE task[t].kind \in {"onboard", "approve"} -> Goto(t, "role")
              [] task[t].kind = "deny"   -> Goto(t, "decide")
              [] task[t].kind = "retry"  -> Goto(t, "provision")
              [] task[t].kind = "status" ->
                    Sync(t, task[t].request, RowOf(t), "idle")
    /\ UNCHANGED <<requests, audit, reviewAudit, world, authentik, dms, cards,
                   aborts>>

\* The target member holds the verified role, now.
CheckRole(t) ==
    /\ At(t, "role") \/ At(t, "recheck_role")
    /\ IF task[t].user \notin verified THEN Finish(t)
       ELSE Goto(t, IF At(t, "role") THEN "identity" ELSE "recheck_identity")
    /\ UNCHANGED <<requests, audit, reviewAudit, world, authentik, dms, cards,
                   aborts>>

\* /onboard reads the confirmed identity it copies into the request.
ReadIdentity(t) ==
    /\ At(t, "identity")
    /\ task[t].kind = "onboard"
    /\ IF identity[task[t].user] = None THEN Finish(t)
       ELSE Set(t, [task[t] EXCEPT !.pc = "insert",
                                   !.identity = identity[task[t].user]])
    /\ UNCHANGED <<requests, audit, reviewAudit, world, authentik, dms, cards,
                   aborts>>

\* target_remains_eligible, the identity: e-mail and name as requested.
IdentityMatches(row) == identity[row.user] = row.identity

CheckIdentity(t) ==
    /\ \/ At(t, "identity") /\ task[t].kind = "approve"
       \/ At(t, "recheck_identity")
    /\ IF ~IdentityMatches(RowOf(t)) THEN Finish(t)
       ELSE Goto(t, IF At(t, "identity") THEN "decide" ELSE "claim")
    /\ UNCHANGED <<requests, audit, reviewAudit, world, authentik, dms, cards,
                   aborts>>

(***************************************************************************)
(* start_or_reuse: the insert, and when it meets a conflict a second       *)
(* statement with a snapshot of its own.  A row denied in between is not   *)
(* found, and the command ends with an error.                              *)
(***************************************************************************)
Insert(t) ==
    /\ At(t, "insert")
    /\ IF Conflicts(task[t].user, task[t].target) = {}
       THEN \E id \in RequestIds :
              /\ StartRequest(id, task[t].user, task[t].target, task[t].actor,
                              task[t].identity)
              /\ Sync(t, id, requests'[id], "reply")
       ELSE Goto(t, "select") /\ UNCHANGED repoVars
    /\ UNCHANGED <<world, authentik, dms, cards, aborts>>

Select(t) ==
    /\ At(t, "select")
    /\ \/ \E id \in Conflicts(task[t].user, task[t].target) :
              Sync(t, id, requests[id], "reply")
       \/ Conflicts(task[t].user, task[t].target) = {} /\ Finish(t)
    /\ UNCHANGED <<requests, audit, reviewAudit, world, authentik, dms, cards,
                   aborts>>

\* The last message of /onboard.
Reply(t) ==
    /\ At(t, "reply")
    /\ Finish(t)
    /\ UNCHANGED <<requests, audit, reviewAudit, world, authentik, dms, cards,
                   aborts>>

-----------------------------------------------------------------------------

\* handle_approval and handle_denial from the decision on.
\* Mutant: the message shows the decision asked for, not the stored one.
ShownAsAsked(t) ==
    /\ At(t, "decide")
    /\ LET id == task[t].request
           decision == IF task[t].kind = "approve" THEN "approved" ELSE "denied" IN
       IF DecisionAllowed(requests[id])
       THEN /\ Decide(id, task[t].actor, decision)
            /\ Sync(t, id, requests'[id],
                    IF decision = "approved" THEN "provision" ELSE "denial")
       ELSE /\ Sync(t, id, [requests[id] EXCEPT !.status = decision], "idle")
            /\ UNCHANGED repoVars
    /\ UNCHANGED <<world, authentik, dms, cards, aborts>>

DecideRequest(t) ==
    /\ At(t, "decide")
    /\ LET id == task[t].request IN
       IF DecisionAllowed(requests[id])
       THEN \/ /\ task[t].kind = "approve"
               /\ Approve(id, task[t].actor)
               /\ Sync(t, id, requests'[id], "provision")
            \/ /\ task[t].kind = "deny"
               /\ Deny(id, task[t].actor)
               /\ Sync(t, id, requests'[id], "denial")
       ELSE Sync(t, id, requests[id], "idle") /\ UNCHANGED repoVars
    /\ UNCHANGED <<world, authentik, dms, cards, aborts>>

\* The user is told of a denial; a failure to do so is only logged.
SendDenial(t) ==
    /\ At(t, "denial")
    /\ dms' = dms \cup {<<task[t].request, "denied", 0>>} \/ dms' = dms
    /\ Finish(t)
    /\ UNCHANGED <<requests, audit, reviewAudit, world, authentik, cards,
                   aborts>>

(***************************************************************************)
(* provision_request: the officer is checked again, then the target user,  *)
(* then the attempt is claimed.                                            *)
(***************************************************************************)
AuthorizeProvisioning(t) ==
    /\ At(t, "provision")
    /\ IF <<task[t].actor, task[t].target>> \in officers
       THEN Goto(t, "recheck_role") ELSE Finish(t)
    /\ UNCHANGED <<requests, audit, reviewAudit, world, authentik, dms, cards,
                   aborts>>

\* Bound on attempts: the request is refused like an unavailable one.
RoomForAttempt(row) == row.attempts < MaxAttempts

Claim(t) ==
    /\ At(t, "claim")
    /\ LET id == task[t].request IN
       IF Claimable(requests[id]) /\ RoomForAttempt(requests[id])
       THEN /\ ClaimProvisioning(id, task[t].actor)
            /\ Sync(t, id, requests'[id], "account")
       ELSE Finish(t) /\ UNCHANGED repoVars
    /\ UNCHANGED <<world, authentik, dms, cards, aborts>>

\* Any call to Authentik or Discord may fail before it has an effect.
CallFails(t) ==
    /\ task[t].pc \in {"account", "create", "group", "link", "dm"}
    /\ MayFail(t)
    /\ Goto(t, "fail")
    /\ UNCHANGED <<requests, audit, reviewAudit, world, authentik, dms, cards,
                   aborts>>

(***************************************************************************)
(* ... or the client's timeout runs out (authentik.rs:92) while the        *)
(* request is under way: Authentik may carry it out much later.            *)
(***************************************************************************)
TimesOut(t) ==
    /\ MayFail(t)
    /\ Cardinality(lateUsers) + Cardinality(lateMembers) < MaxLate
    /\ \/ /\ At(t, "create")
          /\ lateUsers' = lateUsers \cup {Email(t)}
          /\ UNCHANGED lateMembers
       \/ /\ At(t, "group")
          /\ lateMembers' = lateMembers \cup {<<task[t].account, task[t].target>>}
          /\ UNCHANGED lateUsers
    /\ Goto(t, "fail")
    /\ UNCHANGED <<requests, audit, reviewAudit, world, accounts, members, dms,
                   cards, aborts>>

\* ... or take effect while the answer is lost: then `lost' is TRUE.
Answered(t, lost, local) ==
    /\ lost => MayFail(t)
    /\ Set(t, [local EXCEPT !.pc = IF lost THEN "fail" ELSE @])

\* Mutant: the account that was found is not kept.
FoundButForgotten(t) ==
    /\ At(t, "account")
    /\ Goto(t, IF \E a \in Accounts : accounts[a] = Email(t) THEN "group"
               ELSE "create")
    /\ UNCHANGED <<requests, audit, reviewAudit, world, authentik, dms, cards,
                   aborts>>

\* Mutant: an account that exists is taken to be in the group.
FoundMeansMember(t) ==
    /\ At(t, "account")
    /\ \/ \E a \in Accounts :
             /\ accounts[a] = Email(t)
             /\ Set(t, [task[t] EXCEPT !.pc = "link", !.account = a])
       \/ /\ \A a \in Accounts : accounts[a] # Email(t)
          /\ Goto(t, "create")
    /\ UNCHANGED <<requests, audit, reviewAudit, world, authentik, dms, cards,
                   aborts>>

\* Mutant: the account is looked up by its username.
FindByUsername(t) ==
    /\ At(t, "account")
    /\ \/ \E a \in Accounts :
             /\ accounts[a] # None
             /\ Username[accounts[a]] = Username[Email(t)]
             /\ Set(t, [task[t] EXCEPT !.pc = "group", !.account = a])
       \/ /\ \A a \in Accounts :
                accounts[a] # None => Username[accounts[a]] # Username[Email(t)]
          /\ Goto(t, "create")
    /\ UNCHANGED <<requests, audit, reviewAudit, world, authentik, dms, cards,
                   aborts>>

\* Authentik is asked for the address as the request spells it.
FindUser(t) ==
    /\ At(t, "account")
    /\ \/ \E a \in Accounts :
             /\ accounts[a] = Email(t)
             /\ Set(t, [task[t] EXCEPT !.pc = "group", !.account = a])
       \/ /\ \A a \in Accounts : accounts[a] # Email(t)
          /\ Goto(t, "create")
    /\ UNCHANGED <<requests, audit, reviewAudit, world, authentik, dms, cards,
                   aborts>>

\* Mutant: usernames made unique with a suffix are never refused.
NameWithSuffix(email) == FALSE

\* Authentik, not the bot, keeps usernames unique.
UsernameTaken(email) ==
    \E a \in Accounts : accounts[a] # None /\ Username[accounts[a]] = Username[email]

\* ... so those of the accounts that it has differ.
UsernamesDiffer ==
    \A a, b \in Accounts :
        /\ accounts[a] # None
        /\ accounts[b] # None
        /\ Username[accounts[a]] = Username[accounts[b]]
        => a = b

CreateUser(t, a, lost) ==
    /\ At(t, "create")
    /\ ~UsernameTaken(Email(t))
    /\ accounts[a] = None
    /\ accounts' = [accounts EXCEPT ![a] = Email(t)]
    /\ Answered(t, lost, [task[t] EXCEPT !.pc = "group", !.account = a])
    /\ UNCHANGED <<requests, audit, reviewAudit, world, members, lateUsers,
                   lateMembers, dms, cards, aborts>>

UsernameRefused(t) ==
    /\ At(t, "create")
    /\ UsernameTaken(Email(t))
    /\ Goto(t, "fail")
    /\ UNCHANGED <<requests, audit, reviewAudit, world, authentik, dms, cards,
                   aborts>>

AddToGroup(t, lost) ==
    /\ At(t, "group")
    /\ members' = members \cup {<<task[t].account, task[t].target>>}
    /\ Answered(t, lost, [task[t] EXCEPT !.pc = "link"])
    /\ UNCHANGED <<requests, audit, reviewAudit, world, accounts, lateUsers,
                   lateMembers, dms, cards, aborts>>

CreateRecoveryLink(t) ==
    /\ At(t, "link")
    /\ Goto(t, "dm")
    /\ UNCHANGED <<requests, audit, reviewAudit, world, authentik, dms, cards,
                   aborts>>

SendCompletion(t, lost) ==
    /\ At(t, "dm")
    /\ dms' = dms \cup {<<task[t].request, "completed", Attempt(t)>>}
    /\ Answered(t, lost, [task[t] EXCEPT !.pc = "complete"])
    /\ UNCHANGED <<requests, audit, reviewAudit, world, authentik, cards,
                   aborts>>

(***************************************************************************)
(* The outcome is recorded if the attempt still holds the row; otherwise   *)
(* the repository reports an error and the task ends.                      *)
(***************************************************************************)
RecordOutcome(t) ==
    /\ At(t, "complete") \/ At(t, "fail")
    /\ LET id == task[t].request IN
       IF HeldBy(requests[id], Attempt(t))
       THEN /\ \/ /\ At(t, "complete")
                  /\ MarkCompleted(id, task[t].account, Attempt(t))
               \/ At(t, "fail") /\ MarkFailed(id, Attempt(t))
            /\ Sync(t, id, requests'[id], "idle")
       ELSE Finish(t) /\ UNCHANGED repoVars
    /\ UNCHANGED <<world, authentik, dms, cards, aborts>>

-----------------------------------------------------------------------------

(***************************************************************************)
(* ensure_review_message: edit the message the row in hand names, to show  *)
(* the status of the row in hand; if there is none, or the edit fails or   *)
(* its answer is lost, post a new one and record it.                       *)
(***************************************************************************)
ShowsSeen(t) ==
    cards' = [cards EXCEPT ![task[t].seen.review].status = task[t].seen.status]

EditReview(t) ==
    /\ At(t, "review")
    /\ task[t].seen.review # None
    /\ \/ ShowsSeen(t) /\ Resume(t, task[t].after)
       \/ (ShowsSeen(t) \/ UNCHANGED cards) /\ Goto(t, "post")
    /\ UNCHANGED <<requests, audit, reviewAudit, world, authentik, dms, aborts>>

PostReview(t, message) ==
    /\ \/ At(t, "post")
       \/ At(t, "review") /\ task[t].seen.review = None
    /\ cards[message] = None
    /\ cards' = [cards EXCEPT ![message] =
                    [request |-> task[t].request, status |-> task[t].seen.status]]
    /\ Set(t, [task[t] EXCEPT !.pc = "record", !.posted = message])
    /\ UNCHANGED <<requests, audit, reviewAudit, world, authentik, dms, aborts>>

\* The message is not sent, or sent and not recorded.  /onboard and
\* /onboarding_status end on the error; a sync only logs it.
SyncFails(t) ==
    /\ \/ At(t, "post") \/ At(t, "record")
       \/ At(t, "review") /\ task[t].seen.review = None
    /\ IF task[t].kind \in {"onboard", "status"} THEN Finish(t)
       ELSE Resume(t, task[t].after)
    /\ UNCHANGED <<requests, audit, reviewAudit, world, authentik, dms, cards,
                   aborts>>

RecordReview(t) ==
    /\ At(t, "record")
    /\ SetReviewMessage(task[t].request, task[t].posted)
    /\ IF task[t].after = "reply"
       THEN Set(t, [task[t] EXCEPT !.pc = "reply",
                                   !.seen = requests'[task[t].request]])
       ELSE Resume(t, task[t].after)
    /\ UNCHANGED <<world, authentik, dms, cards, aborts>>

(***************************************************************************)
(* An await returns an error that the handler passes up, or the process    *)
(* dies: the task is gone and what it did stays.                           *)
(***************************************************************************)
Abort(t) ==
    /\ ~At(t, "idle")
    /\ aborts < MaxAborts
    /\ MayFail(t)
    /\ Finish(t)
    /\ aborts' = aborts + 1
    /\ UNCHANGED <<requests, audit, reviewAudit, world, authentik, dms, cards>>

-----------------------------------------------------------------------------

TimePasses(id) ==
    /\ LeaseExpires(id)
    /\ UNCHANGED <<world, authentik, dms, cards, task, aborts>>

\* Members leave, lose or regain the verified role.
RoleChanges(user) ==
    /\ "role" \in Drifts
    /\ verified' = IF user \in verified THEN verified \ {user}
                   ELSE verified \cup {user}
    /\ UNCHANGED <<requests, audit, reviewAudit, identity, officers, authentik,
                   dms, cards, task, aborts>>

\* A member verifies, or verifies again with another name or address.
IdentityChanges(user) ==
    /\ "identity" \in Drifts
    /\ \E i \in Identities \ {identity[user]} :
          identity' = [identity EXCEPT ![user] = i]
    /\ UNCHANGED <<requests, audit, reviewAudit, verified, officers, authentik,
                   dms, cards, task, aborts>>

OfficerChanges(actor, target) ==
    /\ "officer" \in Drifts
    /\ officers' = IF <<actor, target>> \in officers
                   THEN officers \ {<<actor, target>>}
                   ELSE officers \cup {<<actor, target>>}
    /\ UNCHANGED <<requests, audit, reviewAudit, verified, identity, authentik,
                   dms, cards, task, aborts>>

\* Authentik carries a creation out after its caller has given up.
LateUser(email) ==
    /\ email \in lateUsers
    /\ lateUsers' = lateUsers \ {email}
    /\ \/ UsernameTaken(email) /\ UNCHANGED accounts
       \/ /\ ~UsernameTaken(email)
          /\ \E a \in Accounts : /\ accounts[a] = None
                                /\ accounts' = [accounts EXCEPT ![a] = email]
    /\ UNCHANGED <<requests, audit, reviewAudit, world, members, lateMembers,
                   dms, cards, task, aborts>>

LateMember(m) ==
    /\ m \in lateMembers
    /\ lateMembers' = lateMembers \ {m}
    /\ members' = members \cup {m}
    /\ UNCHANGED <<requests, audit, reviewAudit, world, accounts, lateUsers,
                   dms, cards, task, aborts>>

-----------------------------------------------------------------------------

Init ==
    /\ RepoInit
    /\ verified \in SUBSET Users
    /\ identity \in [Users -> Identities \cup {None}]
    /\ officers = Actors \X Targets
    /\ accounts \in [Accounts -> Registered \cup {None}]
    /\ UsernamesDiffer
    /\ members = {}
    /\ lateUsers = {}
    /\ lateMembers = {}
    /\ dms = {}
    /\ cards = [m \in Messages |-> None]
    /\ task = [t \in Tasks |-> Idle]
    /\ aborts = 0

Start(t) ==
    \E actor \in Actors :
        \/ \E user \in Users, target \in Targets :
                CallOnboard(t, actor, user, target)
        \/ \E kind \in {"status", "retry"}, id \in RequestIds :
                CallOn(t, kind, actor, id)
        \/ \E kind \in {"approve", "deny"}, message \in Messages :
                Click(t, kind, actor, message)

\* What the task does when nothing goes wrong, or refuses to do.
Progress(t) ==
    \/ Authorize(t) \/ CheckRole(t) \/ ReadIdentity(t) \/ CheckIdentity(t)
    \/ Insert(t) \/ Select(t) \/ Reply(t)
    \/ DecideRequest(t) \/ SendDenial(t)
    \/ AuthorizeProvisioning(t) \/ Claim(t) \/ CallFails(t) \/ TimesOut(t)
    \/ FindUser(t) \/ UsernameRefused(t) \/ CreateRecoveryLink(t)
    \/ \E a \in Accounts, lost \in BOOLEAN : CreateUser(t, a, lost)
    \/ \E lost \in BOOLEAN : AddToGroup(t, lost) \/ SendCompletion(t, lost)
    \/ RecordOutcome(t)
    \/ EditReview(t) \/ SyncFails(t) \/ RecordReview(t)
    \/ \E message \in Messages : PostReview(t, message)

Environment ==
    \/ \E id \in RequestIds : TimePasses(id)
    \/ \E user \in Users : RoleChanges(user) \/ IdentityChanges(user)
    \/ \E actor \in Actors, target \in Targets : OfficerChanges(actor, target)
    \/ \E email \in lateUsers : LateUser(email)
    \/ \E m \in lateMembers : LateMember(m)

Next ==
    \/ \E t \in Tasks : Start(t) \/ Progress(t) \/ Abort(t)
    \/ Environment

Spec == Init /\ [][Next]_vars

-----------------------------------------------------------------------------

\* An officer of its target keeps retrying a request.
OfficerRetries(id) ==
    \E t \in Tasks, actor \in Actors :
        /\ Exists(id)
        /\ <<actor, requests[id].target>> \in officers
        /\ CallOn(t, "retry", actor, id)

(***************************************************************************)
(* Tokio runs every task on, and every call has a timeout; time passes; an *)
(* officer who sees that a request is not completed runs the command again.*)
(* Nobody is obliged to click, and no failure has to happen.               *)
(***************************************************************************)
FairSpec ==
    /\ Spec
    /\ \A t \in Tasks : WF_vars(Progress(t))
    /\ \A id \in RequestIds : WF_vars(TimePasses(id)) /\ SF_vars(OfficerRetries(id))

-----------------------------------------------------------------------------

(***************************************************************************)
(* The tasks and the other systems hold what they should.                  *)
(***************************************************************************)
TypeOK ==
    /\ RepoTypeOK
    /\ verified \subseteq Users
    /\ identity \in [Users -> Identities \cup {None}]
    /\ officers \subseteq Actors \X Targets
    /\ accounts \in [Accounts -> Emails \cup {None}]
    /\ members \subseteq Accounts \X Targets
    /\ lateUsers \subseteq Emails
    /\ lateMembers \subseteq Accounts \X Targets
    /\ dms \subseteq RequestIds \X {"denied", "completed"} \X (0..MaxAttempts)
    /\ cards \in [Messages -> [request : RequestIds, status : Statuses] \cup {None}]
    /\ task \in [Tasks -> Task]
    /\ aborts \in 0..MaxAborts

(***************************************************************************)
(* A request is completed only when all of it is done: its account has the *)
(* verified e-mail and is in the target's group, and the very attempt that *)
(* completed it delivered the link (ROADMAP 3.2, "Do not mark a request    *)
(* fully completed until every required target action succeeds").          *)
(***************************************************************************)
CompletedMeansProvisioned ==
    \A id \in RequestIds : Exists(id) /\ requests[id].status = "completed" =>
        LET row == requests[id] IN
        /\ accounts[row.account] = row.identity.email
        /\ <<row.account, row.target>> \in members
        /\ <<id, "completed", row.attempts>> \in dms

(***************************************************************************)
(* Nobody is in a target's group whose e-mail is not on a request for it   *)
(* that an officer approved, however handlers, retries and slow workers    *)
(* overlap.                                                                *)
(***************************************************************************)
AccessNeedsApproval ==
    \A a \in Accounts, target \in Targets : <<a, target>> \in members =>
        \E id \in RequestIds :
            /\ Exists(id)
            /\ requests[id].target = target
            /\ requests[id].identity.email = accounts[a]
            /\ Decision(requests[id]) = "approved"

(***************************************************************************)
(* Nobody is told both that a request was denied and that it is complete.  *)
(***************************************************************************)
MessagesAgree ==
    \A id \in RequestIds, n \in 0..MaxAttempts :
        /\ <<id, "denied", n>> \in dms => requests[id].status = "denied"
        /\ <<id, "completed", n>> \in dms => Decision(requests[id]) = "approved"

IsCompleted(id) == Exists(id) /\ requests[id].status = "completed"

(***************************************************************************)
(* All attempts of a request work on one account: whatever an earlier      *)
(* attempt created, gave access to or left under way, a later one goes on  *)
(* with that account, and so does the row when it is completed (ROADMAP    *)
(* 3.2, "Permit safe retries without creating duplicate Authentik users or *)
(* memberships").  It holds of an address as the request spells it;        *)
(* another spelling is another account to Authentik.                       *)
(***************************************************************************)
AttemptsShareAccount ==
    \A m \in members \cup lateMembers :
        /\ \A t \in Tasks :
              /\ task[t].pc \in {"group", "link", "dm", "complete"}
              /\ m[2] = task[t].target
              /\ accounts[m[1]] = Email(t)
              => m[1] = task[t].account
        /\ \A id \in RequestIds : IsCompleted(id) =>
              LET row == requests[id] IN
              m[2] = row.target /\ accounts[m[1]] = row.identity.email
                 => m[1] = row.account

\* Points at which a task holds a claimed attempt.
Working(t) ==
    \/ task[t].pc \in {"account", "create", "group", "link", "dm", "complete",
                       "fail"}
    \/ task[t].pc \in {"review", "post", "record"} /\ task[t].after = "account"

(***************************************************************************)
(* Workers of one request never share an attempt number, so of workers     *)
(* that overlap after a lease ran out at most one holds the row.           *)
(***************************************************************************)
AttemptsAreExclusive ==
    \A t, u \in Tasks :
        /\ Working(t) /\ Working(u)
        /\ task[t].request = task[u].request
        /\ Attempt(t) = Attempt(u)
        => t = u

(***************************************************************************)
(* Once an outcome of an attempt is recorded its worker has stopped, so a  *)
(* failed request can be claimed again without a second worker that would  *)
(* still believe in the old attempt.                                       *)
(***************************************************************************)
RecordedAttemptIsOver ==
    \A t \in Tasks : Working(t) =>
        LET row == RowOf(t) IN
        \/ row.attempts > Attempt(t)
        \/ row.attempts = Attempt(t) /\ row.status = "provisioning"

IsApproved(id) == Exists(id) /\ Decision(requests[id]) = "approved"

\* The bound: the last attempt lost the race for the username.
OutOfAttempts(id) ==
    /\ Exists(id)
    /\ requests[id].status = "failed"
    /\ requests[id].attempts = MaxAttempts

(***************************************************************************)
(* An approved request is completed in the end, whatever fails on the way  *)
(* and whichever task dies, as long as an officer keeps retrying and       *)
(* nobody's standing changes (ROADMAP milestone 3, "failures visible and   *)
(* recoverable").                                                          *)
(***************************************************************************)
ApprovedIsCompleted ==
    \A id \in RequestIds :
        IsApproved(id) ~> IsCompleted(id) \/ OutOfAttempts(id)

(***************************************************************************)
(* What the refusal of a retry says is missing is what is missing: a user  *)
(* with the verified role and the persisted e-mail of the request is not   *)
(* refused (mod.rs:1098, ROADMAP baseline "target verification and         *)
(* persisted email are rechecked before approval/retry").                  *)
(***************************************************************************)
VerifiedIsEligible ==
    \A t \in Tasks :
        /\ At(t, "recheck_identity")
        /\ task[t].user \in verified
        /\ identity[task[t].user] # None
        /\ identity[task[t].user].email = RowOf(t).identity.email
        => IdentityMatches(RowOf(t))

-----------------------------------------------------------------------------

Phase(id) ==
    IF ~Exists(id) THEN "none"
    ELSE IF requests[id].status = "completed" THEN "completed"
    ELSE Decision(requests[id])

Subject(id) ==
    IF ~Exists(id) THEN None
    ELSE [user |-> requests[id].user, target |-> requests[id].target,
          email |-> requests[id].identity.email]

Lifecycle ==
    INSTANCE OnboardingLifecycle
    WITH Subjects <- [user : Users, target : Targets, email : Emails],
         phase    <- [id \in RequestIds |-> Phase(id)],
         subject  <- [id \in RequestIds |-> Subject(id)],
         access   <- {<<accounts[m[1]], m[2]>> : m \in members}

(***************************************************************************)
(* The handlers implement the lifecycle: every step of a task, a worker or *)
(* the environment is a step of it or changes nothing it speaks of.        *)
(***************************************************************************)
ImplementsLifecycle == Lifecycle!LifecycleSpec

(***************************************************************************)
(* What a review message shows is true or was: the status is one the       *)
(* request has had.  An old snapshot may overwrite a newer one, but no     *)
(* message shows a decision or an outcome that was not committed.          *)
(***************************************************************************)
CardsShowHistory ==
    \A m \in Messages : cards[m] # None =>
        \E i \in 1..Len(audit[cards[m].request]) :
            StatusAfter(audit[cards[m].request][i].type) = cards[m].status

(***************************************************************************)
(* A review message follows its request: once it shows a decision it does  *)
(* not offer the buttons again (ROADMAP 3.4, "Keep the review message      *)
(* synchronized with approved, denied, failed, retrying, and completed     *)
(* states").                                                               *)
(***************************************************************************)
ReviewKeepsUp ==
    [][\A m \in Messages :
          cards[m] # None /\ cards[m].status # "pending"
              => cards'[m].status # "pending"]_cards

=============================================================================
