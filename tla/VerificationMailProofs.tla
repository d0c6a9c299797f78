------------------------ MODULE VerificationMailProofs ------------------------
(***************************************************************************)
(* What follows from where codes travel: an identity has an address that   *)
(* its user reads, and a code that was delivered is not withdrawn.  Both   *)
(* rest on one fact: a code in a mailbox, or about to be mailed, belongs   *)
(* to one attempt with one address, for as long as that attempt exists.    *)
(* Together they make Verification implement VerificationLifecycle.        *)
(***************************************************************************)
EXTENDS VerificationProofs

\* Points at which a task knows a code it has generated.
Mailing == {"mail", "cleanup"}

\* The codes in mailboxes and those reported as sent are ones that exist.
KnownCodes ==
    /\ \A m \in mailbox : m[1] \in issued
    /\ sent \subseteq issued

\* An attempt with a mailed code is for the address the code was mailed to.
MailedAddress ==
    \A m \in mailbox, u \in Users : Holds(u, m[1]) => pending[u].email = m[2]

\* An attempt whose code was reported as sent has a name.
SentHasName ==
    \A c \in sent, u \in Users : Holds(u, c) => pending[u].name # None

\* A task that mails a code generated it, for the address and name it has.
MailerOK(local) ==
    /\ local.pc \in Mailing => local.code \in issued \ sent
    /\ local.pc = "mail" => \A u \in Users : Holds(u, local.code) =>
          pending[u].email = local.email /\ pending[u].name # None
    /\ local.pc = "check" /\ local.code # None =>
          \E e \in Addresses :
              <<local.user, e>> \in Reads /\ <<local.code, e>> \in mailbox

\* No two tasks mail the same code.
OneMailer ==
    \A t, u \in Tasks :
        task[t].pc \in Mailing /\ task[u].pc \in Mailing
            /\ task[t].code = task[u].code => t = u

MailInv ==
    /\ KnownCodes
    /\ MailedAddress
    /\ SentHasName
    /\ \A t \in Tasks : MailerOK(task[t])
    /\ OneMailer
    /\ IdentityIsProved

-----------------------------------------------------------------------------

\* A row that holds a code which was issued before keeps address and name.
LEMMA RowKept ==
    ASSUME TablesInv, [TablesNext]_tableVars, NEW u \in Users, NEW c \in issued,
           Holds(u, c)'
    PROVE  /\ Holds(u, c)
           /\ pending'[u].email = pending[u].email
           /\ pending'[u].name = pending[u].name
<1>1. CASE UNCHANGED pending
  BY <1>1 DEF Holds
<1>2. ASSUME NEW user \in Users, NEW email \in Addresses, NEW name \in Names,
             NEW code \in Codes, StartAttempt(user, email, name, code)
      PROVE  Holds(u, c) /\ UNCHANGED pending[u]
  BY <1>2 DEF StartAttempt, NewAttempt, Holds, TablesInv, TablesTypeOK
<1>3. ASSUME NEW user \in Users, pending' = [pending EXCEPT ![user] = None]
      PROVE  Holds(u, c) /\ UNCHANGED pending[u]
  BY <1>3 DEF Holds, TablesInv, TablesTypeOK
<1>4. ASSUME NEW user \in Users, NEW code, RejectCode(user, code)
      PROVE  /\ Holds(u, c)
             /\ pending'[u].email = pending[u].email
             /\ pending'[u].name = pending[u].name
  <2> DEFINE row == [pending[user] EXCEPT !.failed = pending[user].failed + 1]
  <2>1. pending[user] \in Attempt /\ pending[user] # None
    BY <1>4, PendingRow DEF RejectCode, Usable, TablesInv
  <2>2. /\ row.email = pending[user].email
        /\ row.name = pending[user].name
        /\ row.code = pending[user].code
    BY <2>1 DEF Attempt
  <2>3. \/ pending' = [pending EXCEPT ![user] = row]
        \/ pending' = [pending EXCEPT ![user] = None]
    BY <1>4 DEF RejectCode
  <2> HIDE DEF row
  <2> QED
    BY <2>1, <2>2, <2>3, <1>3 DEF Holds, TablesInv, TablesTypeOK
<1>5. ASSUME NEW user \in Users, AttemptExpires(user)
      PROVE  /\ Holds(u, c)
             /\ pending'[u].email = pending[u].email
             /\ pending'[u].name = pending[u].name
  <2>1. pending[user] \in Attempt
    BY <1>5, PendingRow DEF AttemptExpires, TablesInv
  <2> QED
    BY <1>5, <2>1 DEF AttemptExpires, Holds, TablesInv, TablesTypeOK, Attempt
<1> QED
  BY <1>1, <1>2, <1>3, <1>4, <1>5
     DEF TablesNext, tableVars, DeleteIfCodeMatches, AcceptCode, DiscardAttempt,
         ConfirmDisplayName

\* No transaction takes back a code that was issued.
LEMMA IssuedGrows ==
    ASSUME [TablesNext]_tableVars
    PROVE  issued \subseteq issued'
BY DEF TablesNext, tableVars, StartAttempt, DeleteIfCodeMatches, AcceptCode,
       RejectCode, DiscardAttempt, AttemptExpires, ConfirmDisplayName

\* A confirmed name leaves the address.
LEMMA ConfirmKeepsAddress ==
    ASSUME TablesInv, NEW user \in Users, NEW email \in Addresses, NEW name \in Names,
           ConfirmDisplayName(user, email, name), IdentityIsProved
    PROVE  IdentityIsProved'
<1>1. CASE identities[user] # None
  <2>1. identities[user] \in Identity
    BY <1>1 DEF TablesInv, TablesTypeOK
  <2> QED
    BY <1>1, <2>1
       DEF ConfirmDisplayName, TablesInv, TablesTypeOK, Identity, IdentityIsProved
<1> QED
  BY <1>1 DEF ConfirmDisplayName, IdentityIsProved

\* What a step of t does to the other tasks.
Others(t) == \A u \in Tasks \ {t} : task'[u] = task[u]

\* What the other tasks know stays true.
LEMMA OtherMailers ==
    ASSUME IInv, MailInv, [TablesNext]_tableVars, NEW u \in Tasks,
           task'[u] = task[u], mailbox \subseteq mailbox',
           task[u].pc \in Mailing => task[u].code \notin sent'
    PROVE  MailerOK(task[u])'
<1>1. task[u].pc \in Mailing => task[u].code \in issued'
  BY IssuedGrows DEF MailInv, MailerOK
<1>2. task[u].pc = "mail" => \A v \in Users : Holds(v, task[u].code)' =>
         pending'[v].email = task[u].email /\ pending'[v].name # None
  BY RowKept DEF IInv, MailInv, MailerOK, Mailing
<1>3. task[u].pc = "check" /\ task[u].code # None =>
         \E e \in Addresses :
            <<task[u].user, e>> \in Reads /\ <<task[u].code, e>> \in mailbox'
  BY DEF MailInv, MailerOK
<1> QED
  BY <1>1, <1>2, <1>3 DEF MailerOK, Holds

\* A step that delivers nothing.
LEMMA QuietStep ==
    ASSUME IInv, MailInv, [TablesNext]_tableVars, NEW t \in Tasks, Others(t),
           UNCHANGED <<mailbox, sent>>,
           MailerOK(task[t])',
           task'[t].pc \in Mailing => task'[t].code \notin issued,
           IdentityIsProved'
    PROVE  MailInv'
<1>1. KnownCodes'
  BY IssuedGrows DEF MailInv, KnownCodes
<1>2. MailedAddress'
  BY RowKept DEF IInv, MailInv, KnownCodes, MailedAddress
<1>3. SentHasName'
  BY RowKept DEF IInv, MailInv, KnownCodes, SentHasName
<1>4. \A u \in Tasks \ {t} : MailerOK(task[u])'
  BY OtherMailers DEF Others, MailInv, MailerOK
<1>5. OneMailer'
  BY DEF OneMailer, Others, MailInv, MailerOK
<1> QED
  BY <1>1, <1>2, <1>3, <1>4, <1>5 DEF MailInv

\* ... by a task that does not go on to mail or to check a code.
LEMMA PlainStep ==
    ASSUME IInv, MailInv, [TablesNext]_tableVars, NEW t \in Tasks, NEW local,
           task' = [task EXCEPT ![t] = local],
           local.pc \notin Mailing \cup {"check"},
           UNCHANGED <<mailbox, sent, identities>>
    PROVE  MailInv'
<1>1. Others(t) /\ task'[t] = local
  BY DEF Others, IInv, TypeOK
<1>2. MailerOK(task[t])' /\ IdentityIsProved'
  BY <1>1 DEF MailerOK, MailInv, IdentityIsProved, Mailing
<1> QED
  BY <1>1, <1>2, QuietStep

-----------------------------------------------------------------------------

LEMMA ArriveMail == ASSUME IInv, MailInv, NEW t \in Tasks, Arrive(t) PROVE MailInv'
<1>1. ASSUME NEW user \in Users, NEW email \in Addresses, NEW name \in Names,
             SubmitEmail(t, user, email, name)
      PROVE  MailInv'
  <2>1. UNCHANGED <<tableVars, mailbox, sent>>
    BY <1>1 DEF SubmitEmail
  <2> DEFINE local == [Idle EXCEPT !.pc = "lookup", !.kind = "email",
                         !.user = user, !.email = email, !.name = name]
  <2>2. task' = [task EXCEPT ![t] = local] /\ local.pc = "lookup"
    BY <1>1 DEF SubmitEmail, Set, Idle
  <2> HIDE DEF local
  <2> QED
    BY <2>1, <2>2, PlainStep DEF tableVars, Mailing
<1>2. ASSUME NEW user \in Users, NEW code \in Codes \cup {None},
             SubmitCode(t, user, code)
      PROVE  MailInv'
  <2> DEFINE local == [Idle EXCEPT !.pc = "check", !.kind = "code",
                         !.user = user, !.code = code]
  <2>1. task' = [task EXCEPT ![t] = local] /\ UNCHANGED <<tableVars, mailbox, sent>>
    BY <1>2 DEF SubmitCode, Set
  <2>2. local.pc = "check" /\ local.user = user /\ local.code = code
    BY DEF Idle
  <2> HIDE DEF local
  <2>3. Others(t) /\ task'[t] = local
    BY <2>1 DEF Others, IInv, TypeOK
  <2>4. MailerOK(task[t])' /\ task'[t].pc \notin Mailing
    BY <1>2, <2>1, <2>2, <2>3 DEF SubmitCode, MailerOK, Mailing
  <2>5. IdentityIsProved' /\ [TablesNext]_tableVars
    BY <2>1 DEF MailInv, IdentityIsProved, tableVars
  <2> QED
    BY <2>1, <2>3, <2>4, <2>5, QuietStep
<1>3. ASSUME NEW user \in Users, Join(t, user)
      PROVE  MailInv'
  <2> DEFINE local == [Idle EXCEPT !.pc = "lookup", !.kind = "join",
                         !.user = user, !.member = NewMember]
  <2>1. /\ task' = [task EXCEPT ![t] = local] \/ UNCHANGED task
        /\ UNCHANGED <<tableVars, mailbox, sent>>
        /\ local.pc = "lookup" /\ task[t].pc = "idle"
    BY <1>3 DEF Join, Set, At, Idle
  <2> HIDE DEF local
  <2>2. UNCHANGED task => task' = [task EXCEPT ![t] = task[t]]
    BY DEF IInv, TypeOK
  <2> QED
    BY <2>1, <2>2, PlainStep DEF tableVars, Mailing
<1> QED
  BY <1>1, <1>2, <1>3 DEF Arrive

\* Steps that read the tables, and calls to Discord.
LEMMA ReaderMail ==
    ASSUME IInv, MailInv, NEW t \in Tasks,
           \/ LookupForEmail(t) \/ LookupForJoin(t) \/ Fetch(t) \/ Abort(t)
           \/ SetNick(t) \/ AddVerifiedRole(t)
           \/ RemoveUnverifiedRole(t) \/ AddUnverifiedRole(t)
    PROVE  MailInv'
<1>1. UNCHANGED <<tableVars, mailbox, sent>> /\ task[t] \in Task
  BY DEF LookupForEmail, LookupForJoin, Fetch, Abort, SetNick, AddVerifiedRole,
         RemoveUnverifiedRole, AddUnverifiedRole, Edit, IInv, TypeOK
<1>2. ASSUME NEW local, task' = [task EXCEPT ![t] = local],
             local.pc \in {"idle", "start", "confirm", "nick", "mark", "grant", "revoke"}
      PROVE  MailInv'
  BY <1>1, <1>2, PlainStep DEF tableVars, Mailing
<1>3. CASE Finish(t)
  BY <1>2, <1>3 DEF Finish, Set, Idle
<1>4. ASSUME NEW pc \in {"start", "confirm", "mark", "grant", "revoke"}, Goto(t, pc)
      PROVE  MailInv'
  <2> DEFINE local == [task[t] EXCEPT !.pc = pc]
  <2>1. local.pc = pc
    BY <1>1 DEF Task
  <2>2. task' = [task EXCEPT ![t] = local]
    BY <1>4 DEF Goto, Set
  <2> HIDE DEF local
  <2> QED
    BY <1>2, <2>1, <2>2
<1>5. ASSUME NEW name, Set(t, [task[t] EXCEPT !.pc = "nick", !.name = name])
      PROVE  MailInv'
  <2> DEFINE local == [task[t] EXCEPT !.pc = "nick", !.name = name]
  <2>1. local.pc = "nick"
    BY <1>1 DEF Task
  <2> HIDE DEF local
  <2> QED
    BY <1>2, <1>5, <2>1 DEF Set, local
<1>6. ASSUME NEW member, Set(t, [task[t] EXCEPT !.pc = "nick", !.member = member])
      PROVE  MailInv'
  <2> DEFINE local == [task[t] EXCEPT !.pc = "nick", !.member = member]
  <2>1. local.pc = "nick"
    BY <1>1 DEF Task
  <2> HIDE DEF local
  <2> QED
    BY <1>2, <1>6, <2>1 DEF Set, local
<1>7. ASSUME NEW needed, NEW member, NEW next \in {"idle", "grant", "revoke"},
             Edit(t, needed, member, next)
      PROVE  MailInv'
  BY <1>3, <1>4, <1>7 DEF Edit
<1> QED
  BY <1>3, <1>4, <1>5, <1>6, <1>7
     DEF LookupForEmail, LookupForJoin, Fetch, Abort, SetNick, AddVerifiedRole,
         RemoveUnverifiedRole, AddUnverifiedRole

LEMMA ConfirmMail == ASSUME IInv, MailInv, NEW t \in Tasks, Confirm(t) PROVE MailInv'
<1> DEFINE local == [task[t] EXCEPT !.pc = "fetch"]
<1>1. /\ task[t] \in Task /\ task[t].user \in Users
      /\ task[t].email \in Addresses /\ task[t].name \in Names
      /\ ConfirmDisplayName(task[t].user, task[t].email, task[t].name)
      /\ task' = [task EXCEPT ![t] = local]
      /\ UNCHANGED <<mailbox, sent>>
  BY DEF Confirm, IInv, TypeOK, At, TaskOK, Goto, Set
<1>2. local.pc = "fetch"
  BY <1>1 DEF Task
<1> HIDE DEF local
<1>3. IdentityIsProved' /\ [TablesNext]_tableVars
  BY <1>1, ConfirmKeepsAddress DEF IInv, MailInv, TablesNext
<1>4. Others(t) /\ task'[t] = local
  BY <1>1 DEF Others, IInv, TypeOK
<1>5. MailerOK(task[t])' /\ task'[t].pc \notin Mailing
  BY <1>2, <1>4 DEF MailerOK, Mailing
<1> QED
  BY <1>1, <1>3, <1>4, <1>5, QuietStep

\* A new attempt has the address and the name of the task that mails it.
LEMMA StartMail == ASSUME IInv, MailInv, NEW t \in Tasks, Start(t) PROVE MailInv'
<1> DEFINE user == task[t].user
           email == task[t].email
           name == task[t].name
<1>1. /\ task[t] \in Task /\ user \in Users /\ email \in Addresses /\ name \in Names
      /\ UNCHANGED <<mailbox, sent>>
  BY DEF Start, IInv, TypeOK, At, TaskOK
<1>2. ASSUME NEW code \in Codes, StartAttempt(user, email, name, code),
             Set(t, [task[t] EXCEPT !.pc = "mail", !.code = code])
      PROVE  MailInv'
  <2> DEFINE local == [task[t] EXCEPT !.pc = "mail", !.code = code]
             row == NewAttempt(user, email, name, code)
  <2>1. local.pc = "mail" /\ local.code = code /\ local.email = email
    BY <1>1 DEF Task
  <2>2. /\ row.code = code /\ row.email = email /\ row.name = name
        /\ name # None
    BY <1>1, NoneAssumption DEF NewAttempt
  <2>3. /\ pending' = [pending EXCEPT ![user] = row]
        /\ issued' = issued \cup {code} /\ code \notin issued
        /\ UNCHANGED identities
    BY <1>2 DEF StartAttempt
  <2>4. [TablesNext]_tableVars
    BY <1>1, <1>2 DEF TablesNext
  <2>5. Others(t) /\ task'[t] = local
    BY <1>2 DEF Set, Others, IInv, TypeOK
  <2> HIDE DEF local, row
  <2>6. \A v \in Users : Holds(v, code)' => v = user
    BY <2>3, <2>4 DEF Holds, IInv, TablesInv, TablesTypeOK, CodesAreUsedOnce
  <2>7. pending'[user] = row
    BY <1>1, <2>3 DEF IInv, TablesInv, TablesTypeOK
  <2>8. code \in issued' \ sent'
    BY <1>1, <2>3 DEF MailInv, KnownCodes
  <2>9. MailerOK(task[t])'
    BY <2>1, <2>2, <2>5, <2>6, <2>7, <2>8 DEF MailerOK, Holds
  <2>10. IdentityIsProved'
    BY <2>3 DEF MailInv, IdentityIsProved
  <2> QED
    BY <1>1, <2>1, <2>3, <2>4, <2>5, <2>9, <2>10, QuietStep
<1>3. CASE Finish(t) /\ UNCHANGED tableVars
  BY <1>1, <1>3, PlainStep DEF Finish, Set, Idle, tableVars, Mailing
<1> QED
  BY <1>2, <1>3 DEF Start

LEMMA MailMail ==
    ASSUME IInv, MailInv, NEW t \in Tasks, NEW delivered \in BOOLEAN,
           NEW failed \in BOOLEAN, Mail(t, delivered, failed)
    PROVE  MailInv'
<1> DEFINE code == task[t].code
           email == task[t].email
<1>1. /\ task[t].pc = "mail" /\ task[t] \in Task /\ UNCHANGED tableVars
      /\ mailbox' = mailbox \/ mailbox' = mailbox \cup {<<code, email>>}
      /\ sent' = IF failed THEN sent ELSE sent \cup {code}
  BY DEF Mail, IInv, TypeOK, At
<1>2. /\ code \in issued \ sent
      /\ \A u \in Users : Holds(u, code) =>
            pending[u].email = email /\ pending[u].name # None
  BY <1>1 DEF MailInv, MailerOK, Mailing
<1>3. /\ KnownCodes' /\ MailedAddress' /\ SentHasName'
  BY <1>1, <1>2
     DEF MailInv, KnownCodes, MailedAddress, SentHasName, Holds, tableVars
<1>4. /\ Others(t)
      /\ \/ failed /\ task'[t] = [task[t] EXCEPT !.pc = "cleanup"]
         \/ task'[t] = Idle
  BY DEF Mail, Goto, Finish, Set, Others, IInv, TypeOK
<1>5. \A u \in Tasks \ {t} : task[u].pc \in Mailing => task[u].code \notin sent'
  <2> SUFFICES ASSUME NEW u \in Tasks \ {t}, task[u].pc \in Mailing
               PROVE  task[u].code \notin sent'
    OBVIOUS
  <2>1. task[u].code # code /\ task[u].code \notin sent
    BY <1>1 DEF MailInv, OneMailer, MailerOK, Mailing
  <2> QED
    BY <1>1, <2>1
<1>6. \A u \in Tasks \ {t} : MailerOK(task[u])'
  BY <1>1, <1>4, <1>5, OtherMailers DEF Others
<1>7. MailerOK(task[t])' /\ (task'[t].pc \in Mailing => task'[t].code = code)
  <2>1. CASE failed /\ task'[t] = [task[t] EXCEPT !.pc = "cleanup"]
    <3>1. task'[t].pc = "cleanup" /\ task'[t].code = code
      BY <1>1, <2>1 DEF Task
    <3> QED
      BY <1>1, <1>2, <2>1, <3>1 DEF MailerOK, Mailing, tableVars
  <2>2. CASE task'[t] = Idle
    BY <2>2 DEF MailerOK, Idle, Mailing
  <2> QED
    BY <1>4, <2>1, <2>2
<1>8. OneMailer'
  BY <1>1, <1>4, <1>7 DEF Others, MailInv, OneMailer, Mailing
<1>9. IdentityIsProved'
  BY <1>1 DEF MailInv, IdentityIsProved, tableVars
<1> QED
  BY <1>3, <1>6, <1>7, <1>8, <1>9 DEF MailInv

LEMMA CleanupMail == ASSUME IInv, MailInv, NEW t \in Tasks, Cleanup(t) PROVE MailInv'
<1>1. /\ task[t].user \in Users /\ task[t].code \in Codes
      /\ task' = [task EXCEPT ![t] = Idle] /\ Idle.pc = "idle"
      /\ UNCHANGED <<mailbox, sent>>
  BY DEF IInv, Cleanup, At, TaskOK, Finish, Set, Idle
<1>2. [TablesNext]_tableVars /\ UNCHANGED identities
  BY <1>1 DEF Cleanup, TablesNext, DeleteIfCodeMatches, tableVars
<1> QED
  BY <1>1, <1>2, PlainStep DEF Mailing

\* An accepted code was mailed to the address that becomes the identity's.
LEMMA CheckMail == ASSUME IInv, MailInv, NEW t \in Tasks, Check(t) PROVE MailInv'
<1> DEFINE user == task[t].user
           code == task[t].code
<1>1. /\ task[t].pc = "check" /\ task[t] \in Task /\ user \in Users
      /\ code \in Codes \cup {None} /\ UNCHANGED <<mailbox, sent>>
  BY DEF IInv, TypeOK, Check, At, TaskOK, Task
<1>2. CASE /\ AcceptCode(user, code)
           /\ Set(t, [task[t] EXCEPT !.pc = "fetch", !.name = pending[user].name])
  <2> DEFINE local == [task[t] EXCEPT !.pc = "fetch", !.name = pending[user].name]
             identity == [email |-> pending[user].email,
                          name |-> pending[user].name, confirmed |-> TRUE]
  <2>1. pending[user] \in Attempt /\ code \in Codes /\ Holds(user, code)
    BY <1>1, <1>2, PendingRow DEF AcceptCode, Usable, IInv, TablesInv, Holds
  <2>2. PICK e \in Addresses : <<user, e>> \in Reads /\ <<code, e>> \in mailbox
    BY <1>1, <2>1, NoneAssumption DEF MailInv, MailerOK
  <2>3. pending[user].email = e
    BY <1>1, <2>1, <2>2 DEF MailInv, MailedAddress
  <2>4. identity.email = pending[user].email
    OBVIOUS
  <2>5. identities' = [identities EXCEPT ![user] = identity]
    BY <1>2 DEF AcceptCode
  <2>6. local.pc = "fetch"
    BY <1>1 DEF Task
  <2>7. Others(t) /\ task'[t] = local
    BY <1>2 DEF Set, Others, IInv, TypeOK
  <2>8. [TablesNext]_tableVars
    BY <1>1, <1>2, <2>1 DEF TablesNext
  <2> HIDE DEF local, identity
  <2>9. IdentityIsProved'
    BY <1>1, <2>2, <2>3, <2>4, <2>5
       DEF MailInv, IdentityIsProved, IInv, TablesInv, TablesTypeOK
  <2>10. MailerOK(task[t])' /\ task'[t].pc \notin Mailing
    BY <2>6, <2>7 DEF MailerOK, Mailing
  <2> QED
    BY <1>1, <2>7, <2>8, <2>9, <2>10, QuietStep
<1>3. CASE /\ \/ RejectCode(user, code) \/ DiscardAttempt(user)
              \/ UNCHANGED tableVars
           /\ Finish(t)
  <2>1. [TablesNext]_tableVars /\ UNCHANGED identities
    BY <1>1, <1>3 DEF TablesNext, RejectCode, DiscardAttempt, tableVars
  <2> QED
    BY <1>1, <1>3, <2>1, PlainStep DEF Finish, Set, Idle, Mailing
<1> QED
  BY <1>2, <1>3 DEF Check

LEMMA WorldMail ==
    ASSUME IInv, MailInv, NEW user \in Users, Leave(user) \/ HourPasses(user)
    PROVE  MailInv'
<1>1. UNCHANGED <<task, mailbox, sent, identities>>
  BY DEF Leave, HourPasses, AttemptExpires, tableVars
<1>2. [TablesNext]_tableVars
  BY DEF Leave, HourPasses, TablesNext
<1>3. KnownCodes'
  BY <1>1, <1>2, IssuedGrows DEF MailInv, KnownCodes
<1>4. MailedAddress' /\ SentHasName'
  BY <1>1, <1>2, RowKept DEF IInv, MailInv, KnownCodes, MailedAddress, SentHasName
<1>5. \A u \in Tasks : MailerOK(task[u])'
  BY <1>1, <1>2, OtherMailers DEF MailInv, MailerOK
<1>6. OneMailer' /\ IdentityIsProved'
  BY <1>1 DEF MailInv, OneMailer, IdentityIsProved
<1> QED
  BY <1>3, <1>4, <1>5, <1>6 DEF MailInv

LEMMA InitMail == Init => MailInv
<1> SUFFICES ASSUME Init PROVE MailInv
  OBVIOUS
<1>1. KnownCodes /\ SentHasName
  BY DEF Init, TablesInit, KnownCodes, SentHasName
<1>2. MailedAddress
  BY DEF Init, TablesInit, MailedAddress, Holds
<1>3. /\ \A t \in Tasks : task[t].pc = "idle"
      /\ IdentityIsProved
  BY DEF Init, Idle, IdentityIsProved
<1> QED
  BY <1>1, <1>2, <1>3 DEF MailInv, MailerOK, OneMailer, Mailing

LEMMA NextMail == IInv /\ MailInv /\ [Next]_vars => MailInv'
<1> SUFFICES ASSUME IInv, MailInv, [Next]_vars PROVE MailInv'
  OBVIOUS
<1>1. CASE UNCHANGED vars
  BY <1>1 DEF vars, MailInv, KnownCodes, MailedAddress, SentHasName, MailerOK,
              OneMailer, IdentityIsProved, Holds
<1>2. ASSUME NEW t \in Tasks, Progress(t) PROVE MailInv'
  BY <1>2, ReaderMail, ConfirmMail, StartMail, MailMail, CleanupMail, CheckMail
     DEF Progress
<1> QED
  BY <1>1, <1>2, ArriveMail, ReaderMail, WorldMail DEF Next

\* Mailed codes stay with their attempts.
THEOREM MailInvariance == Spec => []MailInv
BY InitMail, NextMail, HandlersInvariant, PTL DEF Spec

(***************************************************************************)
(* Every identity's address is one its user reads: the accepted code had   *)
(* been mailed to it, whichever forms and attempts overlap.                *)
(***************************************************************************)
THEOREM IdentityIsProvedHolds == Spec => []IdentityIsProved
BY MailInvariance, PTL DEF MailInv

-----------------------------------------------------------------------------

\* How a step may end an attempt whose delivered code is still good.
Ends(u, c) == Holds(u, c)' \/ c \in accepted' \/ wrong'[c] = MaxFailedAttempts

LEMMA DeliveredStep ==
    ASSUME IInv, MailInv, [Next]_vars, NEW u \in Users, NEW c \in sent,
           Holds(u, c), ~pending[u].expired
    PROVE  Ends(u, c)
<1>1. /\ pending[u] \in Attempt /\ pending[u] # None /\ pending[u].code = c
      /\ c \in Codes
  BY PendingRow DEF Holds, IInv, TypeOK, TablesInv
<1>2. Usable(pending[u])
  BY <1>1 DEF Usable, MailInv, SentHasName
<1>3. CASE UNCHANGED pending
  BY <1>3 DEF Ends, Holds
<1>4. ASSUME NEW t \in Tasks, Start(t)
      PROVE  Ends(u, c)
  <2>1. task[t].user \in Users
    BY <1>4 DEF IInv, TaskOK, Start, At
  <2>2. CASE task[t].user = u
    BY <1>2, <1>3, <1>4, <2>2 DEF Start, Replaceable, Usable, tableVars
  <2>3. CASE task[t].user # u
    BY <1>4, <2>1, <2>3
       DEF Start, StartAttempt, Ends, Holds, IInv, TablesInv, TablesTypeOK, tableVars
  <2> QED
    BY <2>2, <2>3
<1>5. ASSUME NEW t \in Tasks, Cleanup(t)
      PROVE  Ends(u, c)
  <2>1. task[t].code # c /\ task[t].user \in Users
    BY <1>5 DEF Cleanup, At, MailInv, MailerOK, Mailing, IInv, TaskOK
  <2> QED
    BY <1>1, <1>3, <1>5, <2>1
       DEF Cleanup, DeleteIfCodeMatches, Deletes, Ends, Holds, tableVars,
           IInv, TablesInv, TablesTypeOK
<1>6. ASSUME NEW t \in Tasks, Check(t)
      PROVE  Ends(u, c)
  <2> DEFINE user == task[t].user
             code == task[t].code
  <2>1. user \in Users
    BY <1>6 DEF IInv, TaskOK, Check, At
  <2>2. CASE AcceptCode(user, code)
    BY <1>1, <2>1, <2>2
       DEF AcceptCode, Ends, Holds, IInv, TablesInv, TablesTypeOK
  <2>3. CASE RejectCode(user, code)
    <3>1. CASE user = u
      <4> DEFINE failed == pending[u].failed + 1
                 row == [pending[u] EXCEPT !.failed = failed]
      <4>1. wrong' = [wrong EXCEPT ![c] = wrong[c] + 1] /\ wrong[c] = pending[u].failed
        BY <1>1, <2>3, <3>1 DEF RejectCode, IInv, TablesInv, GuessesAreLimited, Holds
      <4>2. wrong'[c] = failed /\ failed \in Nat /\ failed <= MaxFailedAttempts
        BY <1>1, <4>1, LimitAssumption
           DEF IInv, TablesInv, TablesTypeOK, Attempt
      <4>3. CASE HasAttemptsRemaining(failed)
        <5>1. pending' = [pending EXCEPT ![u] = row]
          BY <2>3, <3>1, <4>3 DEF RejectCode
        <5>2. row.code = c /\ row \in Attempt
          BY <1>1, <4>2, <4>3, LimitAssumption DEF Attempt, HasAttemptsRemaining
        <5> HIDE DEF row
        <5> QED
          BY <5>1, <5>2, RowAssumption DEF Ends, Holds, IInv, TablesInv, TablesTypeOK
      <4>4. CASE ~HasAttemptsRemaining(failed)
        BY <4>2, <4>4, LimitAssumption DEF HasAttemptsRemaining, Ends
      <4> QED
        BY <4>3, <4>4
    <3>2. CASE user # u
      BY <2>1, <2>3, <3>2
         DEF RejectCode, Ends, Holds, IInv, TablesInv, TablesTypeOK
    <3> QED
      BY <3>1, <3>2
  <2>4. CASE DiscardAttempt(user)
    BY <1>2, <2>1, <2>4
       DEF DiscardAttempt, Ends, Holds, IInv, TablesInv, TablesTypeOK
  <2> QED
    BY <1>3, <1>6, <2>2, <2>3, <2>4 DEF Check, tableVars
<1>7. ASSUME NEW user \in Users, HourPasses(user)
      PROVE  Ends(u, c)
  <2> DEFINE row == [pending[user] EXCEPT !.expired = TRUE]
  <2>1. pending' = [pending EXCEPT ![user] = row] /\ pending[user] \in Attempt
    BY <1>7, PendingRow DEF HourPasses, AttemptExpires, IInv, TablesInv
  <2>2. row \in Attempt /\ row.code = pending[user].code
    BY <2>1 DEF Attempt
  <2> HIDE DEF row
  <2> QED
    BY <1>1, <2>1, <2>2, RowAssumption DEF Ends, Holds, IInv, TablesInv, TablesTypeOK
<1> QED
  BY <1>3, <1>4, <1>5, <1>6, <1>7
     DEF Next, vars, Arrive, SubmitEmail, SubmitCode, Join, Progress, Abort,
         Leave, LookupForEmail, LookupForJoin, Confirm, ConfirmDisplayName,
         Mail, Fetch, SetNick, AddVerifiedRole, RemoveUnverifiedRole,
         AddUnverifiedRole, Edit, tableVars

(***************************************************************************)
(* A delivered code is good until it expires, is accepted or used up:      *)
(* neither another form nor another task's clean-up withdraws it.          *)
(***************************************************************************)
THEOREM DeliveredCodeStaysHolds == Spec => DeliveredCodeStays
<1> DEFINE Stays == \A u \in Users, c \in sent :
              Holds(u, c) /\ ~pending[u].expired =>
                Holds(u, c)' \/ c \in accepted' \/ wrong'[c] = MaxFailedAttempts
<1>1. IInv /\ MailInv /\ [Next]_vars => [Stays]_vars
  BY DeliveredStep DEF Ends
<1> QED
  BY <1>1, HandlersInvariant, MailInvariance, PTL DEF Spec, DeliveredCodeStays

-----------------------------------------------------------------------------
(***************************************************************************)
(* The refinement.  A transaction changes a user's attempt or identity, a  *)
(* call to Discord one member; no step does both.                          *)
(***************************************************************************)

USE DEF Holders

Refines == [Lifecycle!VerificationNext]_Lifecycle!verificationVars

\* The step of the lifecycle that changes one user's attempt.
LEMMA AttemptChange ==
    ASSUME IInv, NEW user \in Users, NEW row \in Attempt \cup {None},
           pending' = [pending EXCEPT ![user] = row],
           UNCHANGED <<identities, guild>>,
           Usable(row) => ~Usable(pending[user]) \/ row.email = pending[user].email
    PROVE  Refines
<1> DEFINE asked == [u \in Users |-> Asked(u)]
<1>1. /\ \A u \in Users : pending'[u] = IF u = user THEN row ELSE pending[u]
      /\ pending[user] \in Attempt \cup {None}
  BY DEF IInv, TypeOK, TablesTypeOK
<1>2. \A u \in Users : Proved(u)' = Proved(u) /\ Present(u)' = Present(u)
  BY DEF Proved, Present
<1>3. \A u \in Users : u # user => Asked(u)' = Asked(u)
  BY <1>1 DEF Asked, Usable
<1>4. CASE ~Usable(row)
  <2>1. Asked(user)' = None
    BY <1>1, <1>4 DEF Asked, Usable
  <2>2. CASE Asked(user) = None
    BY <1>2, <1>3, <2>1, <2>2 DEF Refines, Lifecycle!verificationVars
  <2>3. CASE Asked(user) # None
    <3>1. Lifecycle!Lapse(user)
      BY <1>2, <1>3, <2>1, <2>3 DEF Lifecycle!Lapse
    <3> QED
      BY <3>1 DEF Refines, Lifecycle!VerificationNext
  <2> QED
    BY <2>2, <2>3
<1>5. CASE Usable(row)
  <2>1. row \in Attempt /\ row.email \in Addresses /\ Asked(user)' = row.email
    BY <1>1, <1>5 DEF Asked, Usable, Attempt
  <2>2. CASE Usable(pending[user])
    <3>1. Asked(user) = row.email
      BY <1>5, <2>2 DEF Asked
    <3> QED
      BY <1>2, <1>3, <2>1, <3>1 DEF Refines, Lifecycle!verificationVars
  <2>3. CASE ~Usable(pending[user])
    <3>1. Asked(user) = None
      BY <2>3 DEF Asked
    <3>2. Lifecycle!Ask(user, row.email)
      BY <1>2, <1>3, <2>1, <3>1 DEF Lifecycle!Ask
    <3> QED
      BY <2>1, <3>2 DEF Refines, Lifecycle!VerificationNext
  <2> QED
    BY <2>2, <2>3
<1> QED
  BY <1>4, <1>5

\* An accepted code closes the attempt; its address is one the user reads.
LEMMA AcceptRefines ==
    ASSUME IInv, IdentityIsProved', NEW user \in Users, NEW code \in Codes,
           AcceptCode(user, code), UNCHANGED guild
    PROVE  Refines
<1> DEFINE identity == [email |-> pending[user].email,
                        name |-> pending[user].name, confirmed |-> TRUE]
<1>1. pending[user] \in Attempt /\ Usable(pending[user])
  BY PendingRow DEF AcceptCode, Usable, IInv, TablesInv
<1>2. identity \in Identity /\ identity.email = pending[user].email
  BY <1>1 DEF Attempt, Identity
<1>3. identities' = [identities EXCEPT ![user] = identity]
  BY DEF AcceptCode
<1> HIDE DEF identity
<1>4. /\ \A u \in Users : identities'[u] = IF u = user THEN identity ELSE identities[u]
      /\ \A u \in Users : pending'[u] = IF u = user THEN None ELSE pending[u]
  BY <1>3 DEF AcceptCode, IInv, TypeOK, TablesTypeOK
<1>5. \A u \in Users : /\ u # user => Asked(u)' = Asked(u) /\ Proved(u)' = Proved(u)
                       /\ Present(u)' = Present(u)
  BY <1>4 DEF Asked, Usable, Proved, Present
<1>6. Asked(user) = pending[user].email /\ Asked(user)' = None
  BY <1>1, <1>4 DEF Asked, Usable
<1>7. Proved(user)' = pending[user].email
  BY <1>2, <1>4, RowAssumption DEF Proved
<1>8. <<user, pending[user].email>> \in Reads
  BY <1>2, <1>4, RowAssumption DEF IdentityIsProved
<1>9. Lifecycle!Prove(user)
  BY <1>5, <1>6, <1>7, <1>8 DEF Lifecycle!Prove
<1> QED
  BY <1>9 DEF Refines, Lifecycle!VerificationNext

\* A new name leaves the address of the identity.
LEMMA ConfirmRefines ==
    ASSUME IInv, NEW user \in Users, NEW email \in Addresses, NEW name \in Names,
           ConfirmDisplayName(user, email, name), UNCHANGED guild
    PROVE  Refines
<1>1. \A u \in Users : Asked(u)' = Asked(u) /\ Present(u)' = Present(u)
  BY DEF ConfirmDisplayName, Asked, Usable, Present
<1>2. \A u \in Users : Proved(u)' = Proved(u)
  <2>1. CASE UNCHANGED identities
    BY <2>1 DEF Proved
  <2>2. CASE identities[user] # None /\ ~UNCHANGED identities
    <3> DEFINE row == [identities[user] EXCEPT !.name = name, !.confirmed = TRUE]
    <3>1. identities[user] \in Identity
      BY <2>2 DEF IInv, TypeOK, TablesTypeOK
    <3>2. row \in Identity /\ row.email = identities[user].email
      BY <3>1 DEF Identity
    <3>3. identities' = [identities EXCEPT ![user] = row]
      BY <2>2 DEF ConfirmDisplayName
    <3> HIDE DEF row
    <3> QED
      BY <2>2, <3>2, <3>3, RowAssumption DEF Proved, IInv, TypeOK, TablesTypeOK
  <2> QED
    BY <2>1, <2>2 DEF ConfirmDisplayName
<1> QED
  BY <1>1, <1>2 DEF Refines, Lifecycle!verificationVars

LEMMA TablesRefine ==
    ASSUME IInv, IdentityIsProved', [TablesNext]_tableVars, UNCHANGED guild
    PROVE  Refines
<1>1. CASE UNCHANGED <<pending, identities>>
  <2>1. \A u \in Users : /\ Asked(u)' = Asked(u) /\ Proved(u)' = Proved(u)
                         /\ Present(u)' = Present(u)
    BY <1>1 DEF Asked, Usable, Proved, Present
  <2> QED
    BY <2>1 DEF Refines, Lifecycle!verificationVars
<1>2. ASSUME NEW user \in Users, NEW email \in Addresses, NEW name \in Names,
             NEW code \in Codes, StartAttempt(user, email, name, code)
      PROVE  Refines
  <2> DEFINE row == NewAttempt(user, email, name, code)
  <2>1. row \in Attempt
    BY LimitAssumption DEF NewAttempt, Attempt
  <2>2. ~Usable(pending[user])
    BY <1>2 DEF StartAttempt, Replaceable, Usable
  <2>3. pending' = [pending EXCEPT ![user] = row] /\ UNCHANGED identities
    BY <1>2 DEF StartAttempt
  <2> HIDE DEF row
  <2> QED
    BY <2>1, <2>2, <2>3, AttemptChange
<1>3. ASSUME NEW user \in Users, pending' = [pending EXCEPT ![user] = None],
             UNCHANGED identities
      PROVE  Refines
  <2>1. ~Usable(None)
    BY DEF Usable
  <2> QED
    BY <1>3, <2>1, AttemptChange
<1>4. ASSUME NEW user \in Users, NEW code \in Codes \cup {None}, RejectCode(user, code)
      PROVE  Refines
  <2> DEFINE row == [pending[user] EXCEPT !.failed = pending[user].failed + 1]
  <2>1. pending[user] \in Attempt /\ pending[user] # None
    BY <1>4, PendingRow DEF RejectCode, Usable, IInv, TablesInv
  <2>2. HasAttemptsRemaining(pending[user].failed + 1) =>
           row \in Attempt /\ row.email = pending[user].email
    BY <2>1, LimitAssumption DEF Attempt, HasAttemptsRemaining
  <2>3. /\ \/ /\ HasAttemptsRemaining(pending[user].failed + 1)
              /\ pending' = [pending EXCEPT ![user] = row]
           \/ pending' = [pending EXCEPT ![user] = None]
        /\ UNCHANGED identities
    BY <1>4 DEF RejectCode
  <2> HIDE DEF row
  <2> QED
    BY <2>2, <2>3, <1>3, AttemptChange
<1>5. ASSUME NEW user \in Users, AttemptExpires(user)
      PROVE  Refines
  <2> DEFINE row == [pending[user] EXCEPT !.expired = TRUE]
  <2>1. pending[user] \in Attempt
    BY <1>5, PendingRow DEF AttemptExpires, IInv, TablesInv
  <2>2. row \in Attempt /\ ~Usable(row)
    BY <2>1 DEF Attempt, Usable
  <2>3. pending' = [pending EXCEPT ![user] = row] /\ UNCHANGED identities
    BY <1>5 DEF AttemptExpires
  <2> HIDE DEF row
  <2> QED
    BY <2>2, <2>3, AttemptChange
<1> QED
  BY <1>1, <1>2, <1>3, <1>4, <1>5, AcceptRefines, ConfirmRefines
     DEF TablesNext, tableVars, DeleteIfCodeMatches, DiscardAttempt

-----------------------------------------------------------------------------

\* One member changes, and no table.
MemberChange(user, member) ==
    /\ guild' = [guild EXCEPT ![user] = member]
    /\ UNCHANGED <<pending, identities>>

LEMMA MemberRefines ==
    ASSUME IInv, NEW user \in Users, NEW member \in Member \cup {None},
           MemberChange(user, member),
           member # None /\ ~Present(user) => ~member.verified,
           member # None /\ Present(user) =>
              \/ member.verified = guild[user].verified
              \/ member.verified /\ identities[user] # None
    PROVE  Refines
<1>1. \A u \in Users : guild'[u] = IF u = user THEN member ELSE guild[u]
  BY DEF MemberChange, IInv, TypeOK
<1>2. \A u \in Users : Asked(u)' = Asked(u) /\ Proved(u)' = Proved(u)
  BY DEF MemberChange, Asked, Usable, Proved
<1>3. CASE member = None
  <2>1. Lifecycle!Exit(user)
    BY <1>1, <1>2, <1>3 DEF Lifecycle!Exit, Present
  <2> QED
    BY <2>1 DEF Refines, Lifecycle!VerificationNext
<1>4. CASE member # None /\ ~Present(user)
  <2>1. Lifecycle!Enter(user)
    BY <1>1, <1>2, <1>4 DEF Lifecycle!Enter, Present
  <2> QED
    BY <2>1 DEF Refines, Lifecycle!VerificationNext
<1>5. CASE member # None /\ Present(user) /\ member.verified = guild[user].verified
  BY <1>1, <1>2, <1>5 DEF Refines, Lifecycle!verificationVars, Present
<1>6. CASE member # None /\ Present(user) /\ member.verified /\ identities[user] # None
  <2>1. Proved(user) # None
    BY <1>6, NoneAssumption DEF Proved, IInv, TypeOK, TablesTypeOK, Identity
  <2>2. Lifecycle!Promote(user)
    BY <1>1, <1>2, <1>6, <2>1 DEF Lifecycle!Promote, Present
  <2> QED
    BY <2>2 DEF Refines, Lifecycle!VerificationNext
<1> QED
  BY <1>3, <1>4, <1>5, <1>6

\* The calls to Discord of sync_verified_member and handle_member_join.
LEMMA SyncRefines ==
    ASSUME IInv, NEW t \in Tasks, ~UNCHANGED guild,
           \/ SetNick(t) \/ AddVerifiedRole(t)
           \/ RemoveUnverifiedRole(t) \/ AddUnverifiedRole(t)
    PROVE  Refines
<1> DEFINE user == task[t].user
           member == guild[user]
<1>1. user \in Users /\ task[t].name \in Names \cup {None}
  BY DEF IInv, TypeOK, TaskOK, Task, At,
         SetNick, AddVerifiedRole, RemoveUnverifiedRole, AddUnverifiedRole
<1>2. Present(user) /\ UNCHANGED <<pending, identities>>
  BY DEF SetNick, AddVerifiedRole, RemoveUnverifiedRole, AddUnverifiedRole, Edit,
         tableVars
<1>3. member \in Member
  BY <1>1, <1>2 DEF Present, IInv, TypeOK
<1>4. ASSUME NEW next \in Member, guild' = [guild EXCEPT ![user] = next],
             \/ next.verified = member.verified
             \/ next.verified /\ identities[user] # None
      PROVE  Refines
  BY <1>1, <1>2, <1>4, MemberRefines DEF MemberChange
<1>5. CASE SetNick(t)
  <2> DEFINE next == [member EXCEPT !.nick = task[t].name]
  <2>1. next \in Member /\ next.verified = member.verified
    BY <1>1, <1>3 DEF Member
  <2>2. guild' = [guild EXCEPT ![user] = next]
    BY <1>5 DEF SetNick, Edit
  <2> HIDE DEF next
  <2> QED
    BY <1>4, <2>1, <2>2
<1>6. CASE AddVerifiedRole(t)
  <2> DEFINE next == [member EXCEPT !.verified = TRUE]
  <2>1. next \in Member /\ next.verified
    BY <1>3 DEF Member
  <2>2. guild' = [guild EXCEPT ![user] = next]
    BY <1>6 DEF AddVerifiedRole, Edit
  <2>3. identities[user] # None
    BY <1>6 DEF AddVerifiedRole, At, IInv, SyncersAreEntitled, Syncing,
                Entitled
  <2> HIDE DEF next
  <2> QED
    BY <1>4, <2>1, <2>2, <2>3
<1>7. CASE RemoveUnverifiedRole(t)
  <2> DEFINE next == [member EXCEPT !.unverified = FALSE]
  <2>1. next \in Member /\ next.verified = member.verified
    BY <1>3 DEF Member
  <2>2. guild' = [guild EXCEPT ![user] = next]
    BY <1>7 DEF RemoveUnverifiedRole, Edit
  <2> HIDE DEF next
  <2> QED
    BY <1>4, <2>1, <2>2
<1>8. CASE AddUnverifiedRole(t)
  <2> DEFINE next == [member EXCEPT !.unverified = TRUE]
  <2>1. next \in Member /\ next.verified = member.verified
    BY <1>3 DEF Member
  <2>2. guild' = [guild EXCEPT ![user] = next]
    BY <1>8 DEF AddUnverifiedRole, Edit
  <2> HIDE DEF next
  <2> QED
    BY <1>4, <2>1, <2>2
<1> QED
  BY <1>5, <1>6, <1>7, <1>8

\* Every step of the handlers is one of the lifecycle, or none.
LEMMA RefinementStep ==
    IInv /\ MailInv /\ [Next]_vars /\ IInv' /\ MailInv' => Refines
<1> SUFFICES ASSUME IInv, MailInv, [Next]_vars, IInv', MailInv'
             PROVE  Refines
  OBVIOUS
<1>1. CASE UNCHANGED guild
  <2>1. [TablesNext]_tableVars
    BY NextGood DEF GoodStep
  <2> QED
    BY <1>1, <2>1, TablesRefine DEF MailInv
<1>2. ASSUME NEW t \in Tasks, NEW user \in Users, Join(t, user)
      PROVE  Refines
  <2>1. NewMember \in Member /\ ~NewMember.verified
    BY DEF NewMember, Member
  <2>2. MemberChange(user, NewMember) /\ ~Present(user)
    BY <1>2 DEF Join, MemberChange, tableVars
  <2> HIDE DEF NewMember
  <2> QED
    BY <2>1, <2>2, MemberRefines
<1>3. ASSUME NEW user \in Users, Leave(user)
      PROVE  Refines
  <2>1. MemberChange(user, None)
    BY <1>3 DEF Leave, MemberChange, tableVars
  <2> QED
    BY <2>1, MemberRefines
<1>4. CASE ~UNCHANGED guild
  BY <1>2, <1>3, <1>4, SyncRefines
     DEF Next, vars, Arrive, Progress, Abort, HourPasses, SubmitEmail, SubmitCode,
         LookupForEmail, LookupForJoin, Confirm, Start, Cleanup, Check, Mail, Fetch
<1> QED
  BY <1>1, <1>4

LEMMA RefinementInit == Init => Lifecycle!VerificationInit
<1> SUFFICES ASSUME Init PROVE Lifecycle!VerificationInit
  OBVIOUS
<1>1. \A u \in Users : Asked(u) = None
  BY DEF Init, TablesInit, LegacyAttempt, Asked, Usable
<1>2. \A u \in Users : /\ Proved(u) \in Addresses \cup {None}
                       /\ identities[u] # None =>
                            Proved(u) = identities[u].email /\ Proved(u) # None
                       /\ identities[u] = None => Proved(u) = None
  BY NoneAssumption DEF Init, TablesInit, LegacyIdentity, Identity, Proved
<1>3. \A u \in Holders : Present(u)
  BY DEF Holders
<1> QED
  BY <1>1, <1>2, <1>3 DEF Init, Holders, Lifecycle!VerificationInit

(***************************************************************************)
(* Verification implements its lifecycle, for any number of users, tasks   *)
(* and codes: an attempt is for one address while it is open, and only     *)
(* closing it for an address its user reads makes or changes an identity.  *)
(***************************************************************************)
THEOREM ImplementsVerificationHolds == Spec => ImplementsVerification
<1>1. IInv /\ MailInv /\ [Next]_vars /\ IInv' /\ MailInv' =>
        [Lifecycle!VerificationNext]_Lifecycle!verificationVars
  BY RefinementStep DEF Refines
<1> QED
  BY <1>1, RefinementInit, HandlersInvariant, MailInvariance, PTL
     DEF Spec, ImplementsVerification, Lifecycle!VerificationSpec

(***************************************************************************)
(* The lifecycle is worth implementing: in it an identity's address is     *)
(* read by its user, whatever was asked and closed meanwhile, and nobody   *)
(* gets the verified role without an identity.                             *)
(***************************************************************************)
THEOREM LifecycleIsProved ==
    Lifecycle!VerificationSpec => []Lifecycle!ProvedIsRead /\ Lifecycle!RoleIsProved
<1>1. Lifecycle!VerificationInit => Lifecycle!ProvedIsRead
  BY DEF Lifecycle!VerificationInit, Lifecycle!ProvedIsRead
<1>2. /\ Lifecycle!ProvedIsRead
      /\ [Lifecycle!VerificationNext]_Lifecycle!verificationVars
      => Lifecycle!ProvedIsRead'
  <2> SUFFICES ASSUME Lifecycle!ProvedIsRead,
                      [Lifecycle!VerificationNext]_Lifecycle!verificationVars
               PROVE  Lifecycle!ProvedIsRead'
    OBVIOUS
  <2>1. ASSUME NEW user \in Users, Lifecycle!Prove(user)
        PROVE  Lifecycle!ProvedIsRead'
    <3>1. /\ Proved(user)' = Asked(user)
          /\ \A u \in Users \ {user} : Proved(u)' = Proved(u)
          /\ UNCHANGED <<{u \in Users : Present(u)}, Holders>>
          /\ <<user, Asked(user)>> \in Reads
      BY <2>1 DEF Lifecycle!Prove
    <3>2. Asked(user) # None
      BY <3>1, NoneAssumption, ScenarioAssumption
    <3> QED
      BY <3>1, <3>2 DEF Lifecycle!ProvedIsRead
  <2>2. ASSUME NEW user \in Users, Lifecycle!Promote(user)
        PROVE  Lifecycle!ProvedIsRead'
    BY <2>2 DEF Lifecycle!Promote, Lifecycle!ProvedIsRead
  <2>3. ASSUME NEW user \in Users, Lifecycle!Enter(user) \/ Lifecycle!Exit(user)
        PROVE  Lifecycle!ProvedIsRead'
    BY <2>3 DEF Lifecycle!Enter, Lifecycle!Exit, Lifecycle!ProvedIsRead
  <2>4. ASSUME NEW user \in Users,
               \/ \E email \in Addresses : Lifecycle!Ask(user, email)
               \/ Lifecycle!Lapse(user)
        PROVE  Lifecycle!ProvedIsRead'
    BY <2>4 DEF Lifecycle!Ask, Lifecycle!Lapse, Lifecycle!ProvedIsRead
  <2>5. CASE UNCHANGED Lifecycle!verificationVars
    BY <2>5 DEF Lifecycle!verificationVars, Lifecycle!ProvedIsRead
  <2> QED
    BY <2>1, <2>2, <2>3, <2>4, <2>5 DEF Lifecycle!VerificationNext
<1>3. [Lifecycle!VerificationNext]_Lifecycle!verificationVars =>
        [Lifecycle!OnlyProvedRise]_Lifecycle!verificationVars
  <2> SUFFICES ASSUME Lifecycle!VerificationNext, NEW user \in Holders' \ Holders
               PROVE  [u \in Users |-> Proved(u)][user] # None
    BY DEF Lifecycle!OnlyProvedRise
  <2> QED
    BY DEF Lifecycle!VerificationNext, Lifecycle!Ask, Lifecycle!Lapse, Lifecycle!Prove,
           Lifecycle!Promote, Lifecycle!Enter, Lifecycle!Exit
<1> QED
  BY <1>1, <1>2, <1>3, PTL DEF Lifecycle!VerificationSpec, Lifecycle!RoleIsProved

\* Hence no interleaving of forms, checks, joins and crashes leaves a user with
\* an identity whose address only others read, or gives the role without one.
COROLLARY StandingIsProvedHolds ==
    Spec => []Lifecycle!ProvedIsRead /\ Lifecycle!RoleIsProved
BY LifecycleIsProved, ImplementsVerificationHolds DEF ImplementsVerification
=============================================================================
