---------------------------- MODULE Verification ----------------------------
(***************************************************************************)
(* The verification panel's modals and the member-join handler of          *)
(* commands/verify.rs at work on the tables of VerificationRepository,     *)
(* with the mailboxes the codes are sent to and the guild's members.       *)
(*                                                                         *)
(* A task serves one interaction or event; an action is the code between   *)
(* two awaits.  /verify, which no feature set registers, is left out.      *)
(***************************************************************************)
EXTENDS VerificationRepository

CONSTANTS Tasks,        \* interactions and events served concurrently
          Reads,        \* pairs of a user and an address the user reads
          MaxMishaps,   \* bound: tasks that die, and departures
          Reserve       \* bound: codes kept for addresses the user reads

ASSUME ScenarioAssumption ==
    Reads \subseteq Users \X Addresses /\ MaxMishaps \in Nat /\ Reserve \in Nat

VARIABLES
    mailbox,   \* the codes delivered, with the address
    sent,      \* history: the codes whose delivery was reported to the bot
    guild,     \* the members: nickname, verified and unverified role
    task,      \* the local state of each task
    mishaps    \* tasks that died and members that left so far

vars == <<pending, identities, issued, wrong, accepted, mailbox, sent, guild,
          task, mishaps>>

-----------------------------------------------------------------------------

Points == {"idle", "lookup", "confirm", "start", "mail", "cleanup", "check",
           "fetch", "nick", "grant", "revoke", "mark"}

Member == [nick : Names \cup {None}, verified : BOOLEAN, unverified : BOOLEAN]

Task == [pc     : Points,
         kind   : {"email", "code", "join", None},
         user   : Users \cup {None},
         email  : Addresses \cup {None},
         name   : Names \cup {None},
         code   : Codes \cup {None},       \* submitted, or generated
         member : Member \cup {None}]      \* as fetched, or as it joined

Idle == [pc |-> "idle", kind |-> None, user |-> None, email |-> None,
         name |-> None, code |-> None, member |-> None]

NewMember == [nick |-> None, verified |-> FALSE, unverified |-> FALSE]

At(t, pc) == task[t].pc = pc

Set(t, local) == task' = [task EXCEPT ![t] = local]

Goto(t, pc) == Set(t, [task[t] EXCEPT !.pc = pc])

Finish(t) == Set(t, Idle)

Present(user) == guild[user] # None

\* Bound: what may go wrong does so while another code is left.
Spare == issued # Codes

-----------------------------------------------------------------------------

\* Somebody who has the verified role from before, with or without an
\* identity that was persisted (onboard/mod.rs:129).
OldMember == [nick |-> None, verified |-> TRUE, unverified |-> FALSE]

\* A member submits the form of handle_email_modal or of handle_code_modal.
SubmitEmail(t, user, email, name) ==
    /\ At(t, "idle")
    /\ Present(user)
    /\ Set(t, [Idle EXCEPT !.pc = "lookup", !.kind = "email", !.user = user,
                           !.email = email, !.name = name])
    /\ UNCHANGED <<tableVars, mailbox, sent, guild, mishaps>>

\* The code is one the user has received, or a wrong guess: None.
SubmitCode(t, user, code) ==
    /\ At(t, "idle")
    /\ Present(user)
    /\ code # None => \E e \in Addresses : <<user, e>> \in Reads /\ <<code, e>> \in mailbox
    /\ Set(t, [Idle EXCEPT !.pc = "check", !.kind = "code", !.user = user,
                           !.code = code])
    /\ UNCHANGED <<tableVars, mailbox, sent, guild, mishaps>>

\* Somebody joins; the bot sees it unless it is down.
Join(t, user) ==
    /\ ~Present(user)
    /\ At(t, "idle")
    /\ guild' = [guild EXCEPT ![user] = NewMember]
    /\ \/ Set(t, [Idle EXCEPT !.pc = "lookup", !.kind = "join", !.user = user,
                              !.member = NewMember])
       \/ UNCHANGED task
    /\ UNCHANGED <<tableVars, mailbox, sent, mishaps>>

(***************************************************************************)
(* find_user_by_id, and what each handler does with the identity.          *)
(***************************************************************************)
LookupForEmail(t) ==
    /\ At(t, "lookup")
    /\ task[t].kind = "email"
    /\ LET identity == identities[task[t].user] IN
       IF identity = None THEN Goto(t, "start")
       ELSE IF identity.email # task[t].email THEN Finish(t)
       ELSE Goto(t, "confirm")
    /\ UNCHANGED <<tableVars, mailbox, sent, guild, mishaps>>

LookupForJoin(t) ==
    /\ At(t, "lookup")
    /\ task[t].kind = "join"
    /\ LET identity == identities[task[t].user] IN
       IF identity # None /\ identity.confirmed
       THEN Set(t, [task[t] EXCEPT !.pc = "nick", !.name = identity.name])
       ELSE Goto(t, "mark")
    /\ UNCHANGED <<tableVars, mailbox, sent, guild, mishaps>>

\* Whether a row was changed is not looked at.
Confirm(t) ==
    /\ At(t, "confirm")
    /\ ConfirmDisplayName(task[t].user, task[t].email, task[t].name)
    /\ Goto(t, "fetch")
    /\ UNCHANGED <<mailbox, sent, guild, mishaps>>

\* Bound: an address the user does not read leaves the reserve.
RoomForCode(user, email) ==
    Cardinality(Codes \ issued) > IF <<user, email>> \in Reads THEN 0 ELSE Reserve

Start(t) ==
    /\ At(t, "start")
    /\ IF /\ Replaceable(pending[task[t].user])
          /\ RoomForCode(task[t].user, task[t].email)
       THEN \E code \in Codes :
              /\ StartAttempt(task[t].user, task[t].email, task[t].name, code)
              /\ Set(t, [task[t] EXCEPT !.pc = "mail", !.code = code])
       ELSE Finish(t) /\ UNCHANGED tableVars
    /\ UNCHANGED <<mailbox, sent, guild, mishaps>>

\* The code is sent; or that fails, whether or not it was delivered.
Mail(t, delivered, failed) ==
    /\ At(t, "mail")
    /\ ~delivered => failed
    /\ failed => Spare
    /\ mailbox' = IF delivered THEN mailbox \cup {<<task[t].code, task[t].email>>}
                  ELSE mailbox
    /\ sent' = IF failed THEN sent ELSE sent \cup {task[t].code}
    /\ IF failed THEN Goto(t, "cleanup") ELSE Finish(t)
    /\ UNCHANGED <<tableVars, guild, mishaps>>

\* A cleanup that fails is only logged.
Cleanup(t) ==
    /\ At(t, "cleanup")
    /\ DeleteIfCodeMatches(task[t].user, task[t].code) \/ UNCHANGED tableVars
    /\ Finish(t)
    /\ UNCHANGED <<mailbox, sent, guild, mishaps>>

-----------------------------------------------------------------------------

\* Bound: the last code is not used up.
LastTry(user) ==
    ~Spare /\ pending[user] # None /\ ~HasAttemptsRemaining(pending[user].failed + 1)

\* Mutant: an attempt that cannot be used falls through to the role.
CheckThenSync(t) ==
    /\ At(t, "check")
    /\ LET user == task[t].user code == task[t].code IN
       \/ /\ AcceptCode(user, code)
          /\ Set(t, [task[t] EXCEPT !.pc = "fetch", !.name = pending[user].name])
       \/ RejectCode(user, code) /\ ~LastTry(user) /\ Finish(t)
       \/ DiscardAttempt(user) /\ Goto(t, "fetch")
       \/ pending[user] = None /\ Finish(t) /\ UNCHANGED tableVars
    /\ UNCHANGED <<mailbox, sent, guild, mishaps>>

\* handle_code_modal: check_code, and only an accepted code goes on.
Check(t) ==
    /\ At(t, "check")
    /\ LET user == task[t].user code == task[t].code IN
       \/ /\ AcceptCode(user, code)
          /\ Set(t, [task[t] EXCEPT !.pc = "fetch", !.name = pending[user].name])
       \/ RejectCode(user, code) /\ ~LastTry(user) /\ Finish(t)
       \/ DiscardAttempt(user) /\ Finish(t)
       \/ pending[user] = None /\ Finish(t) /\ UNCHANGED tableVars
       \/ LastTry(user) /\ pending[user].code # code /\ Finish(t) /\ UNCHANGED tableVars
    /\ UNCHANGED <<mailbox, sent, guild, mishaps>>

-----------------------------------------------------------------------------

\* complete_verification and a confirmed name fetch the member first.
Fetch(t) ==
    /\ At(t, "fetch")
    /\ IF Present(task[t].user)
       THEN Set(t, [task[t] EXCEPT !.pc = "nick", !.member = guild[task[t].user]])
       ELSE Finish(t)
    /\ UNCHANGED <<tableVars, mailbox, sent, guild, mishaps>>

(***************************************************************************)
(* One call to Discord of sync_verified_member: made if the member, as     *)
(* fetched, needs it; an error if the member is gone.                      *)
(***************************************************************************)
Edit(t, needed, member, next) ==
    /\ IF needed /\ ~Present(task[t].user)
       THEN Finish(t) /\ UNCHANGED guild
       ELSE /\ guild' = IF needed THEN [guild EXCEPT ![task[t].user] = member]
                        ELSE guild
            /\ IF next = "idle" THEN Finish(t) ELSE Goto(t, next)
    /\ UNCHANGED <<tableVars, mailbox, sent, mishaps>>

SetNick(t) ==
    /\ At(t, "nick")
    /\ Edit(t, task[t].member.nick # task[t].name,
            [guild[task[t].user] EXCEPT !.nick = task[t].name], "grant")

AddVerifiedRole(t) ==
    /\ At(t, "grant")
    /\ Edit(t, ~task[t].member.verified,
            [guild[task[t].user] EXCEPT !.verified = TRUE], "revoke")

RemoveUnverifiedRole(t) ==
    /\ At(t, "revoke")
    /\ Edit(t, task[t].member.unverified,
            [guild[task[t].user] EXCEPT !.unverified = FALSE], "idle")

\* handle_member_join of somebody who has to verify.
AddUnverifiedRole(t) ==
    /\ At(t, "mark")
    /\ Edit(t, ~task[t].member.unverified,
            [guild[task[t].user] EXCEPT !.unverified = TRUE], "idle")

-----------------------------------------------------------------------------

\* An error is passed up, or the process dies.
Abort(t) ==
    /\ ~At(t, "idle")
    /\ Spare /\ mishaps < MaxMishaps
    /\ Finish(t)
    /\ mishaps' = mishaps + 1
    /\ UNCHANGED <<tableVars, mailbox, sent, guild>>

Leave(user) ==
    /\ Present(user)
    /\ Spare /\ mishaps < MaxMishaps
    /\ guild' = [guild EXCEPT ![user] = None]
    /\ mishaps' = mishaps + 1
    /\ UNCHANGED <<tableVars, mailbox, sent, task>>

HourPasses(user) ==
    /\ Spare
    /\ AttemptExpires(user)
    /\ UNCHANGED <<mailbox, sent, guild, task, mishaps>>

-----------------------------------------------------------------------------

Init ==
    /\ TablesInit
    /\ \A u \in Users : identities[u] # None => <<u, identities[u].email>> \in Reads
    /\ mailbox = {<<pending[u].code, pending[u].email>> :
                    u \in {v \in Users : pending[v] # None}}
    /\ sent = {}
    /\ guild \in [Users -> {None, OldMember}]
    /\ task = [t \in Tasks |-> Idle]
    /\ mishaps = 0

Arrive(t) ==
    \E user \in Users :
        \/ \E email \in Addresses, name \in Names : SubmitEmail(t, user, email, name)
        \/ \E code \in Codes \cup {None} : SubmitCode(t, user, code)
        \/ Join(t, user)

Progress(t) ==
    \/ LookupForEmail(t) \/ LookupForJoin(t) \/ Confirm(t)
    \/ Start(t) \/ Cleanup(t) \/ Check(t) \/ Fetch(t)
    \/ \E delivered, failed \in BOOLEAN : Mail(t, delivered, failed)
    \/ SetNick(t) \/ AddVerifiedRole(t) \/ RemoveUnverifiedRole(t)
    \/ AddUnverifiedRole(t)

Next ==
    \/ \E t \in Tasks : Arrive(t) \/ Progress(t) \/ Abort(t)
    \/ \E user \in Users : Leave(user) \/ HourPasses(user)

Spec == Init /\ [][Next]_vars

-----------------------------------------------------------------------------

\* The member fills in the form with an address of theirs.
AsksAgain(user) ==
    \E t \in Tasks, email \in Addresses, name \in Names :
        <<user, email>> \in Reads /\ SubmitEmail(t, user, email, name)

\* The member enters the code last received for the attempt.
EntersCode(user) ==
    \E t \in Tasks : pending[user] # None /\ SubmitCode(t, user, pending[user].code)

(***************************************************************************)
(* Tokio runs every task on and every call has a timeout; hours pass; a    *)
(* member who is not verified asks again and enters the code received.     *)
(***************************************************************************)
FairSpec ==
    /\ Spec
    /\ \A t \in Tasks : WF_vars(Progress(t))
    /\ \A u \in Users : /\ WF_vars(HourPasses(u))
                        /\ SF_vars(AsksAgain(u))
                        /\ SF_vars(EntersCode(u))

-----------------------------------------------------------------------------

(***************************************************************************)
(* The tasks, mailboxes and members hold what they should.                 *)
(***************************************************************************)
TypeOK ==
    /\ TablesTypeOK
    /\ mailbox \subseteq Codes \X Addresses
    /\ sent \subseteq Codes
    /\ guild \in [Users -> Member \cup {None}]
    /\ task \in [Tasks -> Task]
    /\ mishaps \in 0..MaxMishaps

(***************************************************************************)
(* An identity's address is one its user reads: the code that was accepted *)
(* had been mailed to that very address, whichever forms were submitted    *)
(* for which addresses meanwhile, and whichever attempt was reused.        *)
(***************************************************************************)
IdentityIsProved ==
    \A u \in Users : identities[u] # None => <<u, identities[u].email>> \in Reads

IsConfirmed(user) == identities[user] # None /\ identities[user].confirmed

(***************************************************************************)
(* The bot gives the verified role, or a nickname, only to a member whose  *)
(* identity is persisted and has a confirmed name, whatever happened since *)
(* the handler looked: the address changed, the member left and rejoined,  *)
(* or another form was accepted or refused (README, "assigns the verified  *)
(* role only after the workflow succeeds").                                *)
(***************************************************************************)
StandingIsEarned ==
    [][\A u \in Users : Present(u)' /\ ~IsConfirmed(u) =>
          /\ guild'[u].verified => Present(u) /\ guild[u].verified
          /\ guild'[u].nick # None => Present(u) /\ guild[u].nick = guild'[u].nick]_guild

(***************************************************************************)
(* A code whose delivery succeeded stays good until it expires, is         *)
(* accepted or is used up: a handler that cleans up after its own failed   *)
(* delivery leaves the attempt of another one alone.                       *)
(***************************************************************************)
DeliveredCodeStays ==
    [][\A u \in Users, c \in sent :
          Holds(u, c) /\ ~pending[u].expired =>
            Holds(u, c)' \/ c \in accepted' \/ wrong'[c] = MaxFailedAttempts]_vars

Settled(user) ==
    /\ Present(user)
    /\ identities[user] # None
    /\ identities[user].confirmed
    /\ guild[user] = [nick |-> identities[user].name, verified |-> TRUE,
                      unverified |-> FALSE]

(***************************************************************************)
(* Nobody is stranded: a member who stays, asks with an own address and    *)
(* enters the codes received ends up verified, named and without the       *)
(* unverified role, whatever expired, was mistyped, was not delivered, or  *)
(* died half-way (ROADMAP 1.3, "Allow a safe retry without issuing         *)
(* duplicate state or permanently stranding the user").                    *)
(***************************************************************************)
MemberIsSettled == \A u \in Users : Present(u) ~> Settled(u) \/ ~Present(u)

\* What onboarding gets to see: who has the role, and each confirmed identity.
Holders == {u \in Users : Present(u) /\ guild[u].verified}

Confirmed(user) ==
    LET row == identities[user] IN
    IF row # None /\ row.confirmed /\ row.name # None
    THEN [email |-> row.email, name |-> row.name] ELSE None

Asked(user) == IF Usable(pending[user]) THEN pending[user].email ELSE None

Proved(user) == IF identities[user] = None THEN None ELSE identities[user].email

Lifecycle == INSTANCE VerificationLifecycle WITH
    asked    <- [u \in Users |-> Asked(u)],
    proved   <- [u \in Users |-> Proved(u)],
    members  <- {u \in Users : Present(u)},
    verified <- Holders

(***************************************************************************)
(* However forms, checks, clean-ups, joins and crashes interleave, an      *)
(* attempt keeps its address while a code can still be entered for it, an  *)
(* identity changes its address only by closing an attempt of somebody who *)
(* reads it, and each change of a row or a member is one of those steps.   *)
(***************************************************************************)
ImplementsVerification == Lifecycle!VerificationSpec

=============================================================================
