-------------------------- MODULE VerificationProofs --------------------------
(***************************************************************************)
(* The verification handlers use the tables through the transactions of    *)
(* VerificationRepository alone, and give the verified role and a nickname *)
(* only to users with a confirmed identity.                                *)
(***************************************************************************)
EXTENDS Verification, VerificationRepositoryProofs

\* What the locals of a task hold at the point where it is.
TaskOK(local) ==
    /\ local.pc # "idle" => local.user \in Users
    /\ local.pc \in {"confirm", "start"} =>
          local.email \in Addresses /\ local.name \in Names
    /\ local.pc = "lookup" /\ local.kind = "email" =>
          local.email \in Addresses /\ local.name \in Names
    /\ local.pc = "lookup" /\ local.kind = "join" => local.member \in Member
    /\ local.pc \in {"mail", "cleanup"} =>
          local.code \in Codes /\ local.email \in Addresses
    /\ local.pc \in {"nick", "grant", "revoke", "mark"} => local.member \in Member

\* The points on the way to the verified role.
Syncing == {"confirm", "fetch", "nick", "grant", "revoke"}

\* Such a task's user has a confirmed identity in the table, or one with the
\* address that was submitted, which the task is about to confirm.
Entitled(local, rows) ==
    /\ rows[local.user] # None
    /\ \/ rows[local.user].confirmed
       \/ local.pc = "confirm" /\ rows[local.user].email = local.email

SyncersAreEntitled ==
    \A t \in Tasks : task[t].pc \in Syncing => Entitled(task[t], identities)

\* The inductive invariant of the handlers.
IInv ==
    /\ TypeOK
    /\ TablesInv
    /\ \A t \in Tasks : TaskOK(task[t])
    /\ SyncersAreEntitled

-----------------------------------------------------------------------------

\* No transaction removes or unconfirms an identity, and one whose address
\* changes is confirmed.
LEMMA EntitledStays ==
    ASSUME TablesInv, [TablesNext]_tableVars, NEW local, local.user \in Users,
           Entitled(local, identities)
    PROVE  Entitled(local, identities')
<1>1. CASE UNCHANGED identities
  BY <1>1 DEF Entitled
<1>2. ASSUME NEW user \in Users, NEW row \in Identity, row.confirmed,
             identities' = [identities EXCEPT ![user] = row]
      PROVE  Entitled(local, identities')
  BY <1>2, RowAssumption DEF Entitled, TablesInv, TablesTypeOK
<1>3. ASSUME NEW user \in Users, NEW email \in Addresses, NEW name \in Names,
             ConfirmDisplayName(user, email, name), ~UNCHANGED identities
      PROVE  Entitled(local, identities')
  <2> DEFINE row == [identities[user] EXCEPT !.name = name, !.confirmed = TRUE]
  <2>1. identities[user] \in Identity
    BY <1>3 DEF ConfirmDisplayName, TablesInv, TablesTypeOK
  <2>2. row \in Identity /\ row.confirmed
    BY <2>1 DEF Identity
  <2>3. identities' = [identities EXCEPT ![user] = row]
    BY <1>3 DEF ConfirmDisplayName
  <2> HIDE DEF row
  <2> QED
    BY <1>2, <2>2, <2>3
<1>4. ASSUME NEW user \in Users, NEW code \in Codes, AcceptCode(user, code)
      PROVE  Entitled(local, identities')
  <2> DEFINE row == [email |-> pending[user].email,
                     name |-> pending[user].name, confirmed |-> TRUE]
  <2>1. pending[user] \in Attempt
    BY <1>4, PendingRow DEF AcceptCode, Usable, TablesInv
  <2>2. row \in Identity /\ row.confirmed
    BY <2>1 DEF Attempt, Identity
  <2>3. identities' = [identities EXCEPT ![user] = row]
    BY <1>4 DEF AcceptCode
  <2> HIDE DEF row
  <2> QED
    BY <1>2, <2>2, <2>3
<1> QED
  BY <1>1, <1>3, <1>4
     DEF TablesNext, tableVars, StartAttempt, DeleteIfCodeMatches, RejectCode,
         DiscardAttempt, AttemptExpires

\* A step of a task, or of nobody's, that keeps the parts of the invariant.
LEMMA TaskStep ==
    ASSUME IInv, [TablesNext]_tableVars, NEW t \in Tasks, NEW local \in Task,
           task' = [task EXCEPT ![t] = local],
           TaskOK(local),
           local.pc \in Syncing => Entitled(local, identities'),
           mailbox' \subseteq Codes \X Addresses,
           sent' \subseteq Codes,
           guild' \in [Users -> Member \cup {None}],
           mishaps' \in 0..MaxMishaps
    PROVE  IInv'
<1>1. TablesInv'
  BY TablesInvStep DEF IInv
<1>2. TypeOK'
  BY <1>1 DEF IInv, TypeOK, TablesInv
<1>3. \A u \in Tasks : task'[u] = IF u = t THEN local ELSE task[u]
  BY DEF IInv, TypeOK
<1>4. \A u \in Tasks : TaskOK(task[u])'
  BY <1>3 DEF IInv, TaskOK
<1>5. SyncersAreEntitled'
  <2> SUFFICES ASSUME NEW u \in Tasks, task'[u].pc \in Syncing
               PROVE  Entitled(task'[u], identities')
    BY DEF SyncersAreEntitled
  <2>1. CASE u = t
    BY <1>3, <2>1 DEF Entitled
  <2>2. CASE u # t
    <3> DEFINE other == task[u]
    <3>1. task'[u] = other /\ other.user \in Users /\ Entitled(other, identities)
      BY <1>3, <2>2 DEF IInv, TaskOK, SyncersAreEntitled, Syncing
    <3> HIDE DEF other
    <3>2. Entitled(other, identities')
      BY <3>1, EntitledStays DEF IInv
    <3> QED
      BY <3>1, <3>2
  <2> QED
    BY <2>1, <2>2
<1> QED
  BY <1>1, <1>2, <1>4, <1>5 DEF IInv

-----------------------------------------------------------------------------

\* What each step is shown to do.
GoodStep == [TablesNext]_tableVars /\ IInv'

\* A step that leaves the tables and the guild alone.
LEMMA LocalStep ==
    ASSUME IInv, UNCHANGED <<tableVars, guild>>, NEW t \in Tasks, NEW local \in Task,
           task' = [task EXCEPT ![t] = local],
           TaskOK(local),
           local.pc \in Syncing => Entitled(local, identities),
           mailbox' \subseteq Codes \X Addresses,
           sent' \subseteq Codes,
           mishaps' \in 0..MaxMishaps
    PROVE  GoodStep
<1>1. [TablesNext]_tableVars /\ UNCHANGED identities
  BY DEF tableVars
<1> QED
  BY <1>1, TaskStep DEF GoodStep, IInv, TypeOK, Entitled

\* A step that runs one transaction.
LEMMA TableStep ==
    ASSUME IInv, [TablesNext]_tableVars, NEW t \in Tasks, NEW local \in Task,
           task' = [task EXCEPT ![t] = local],
           TaskOK(local),
           local.pc \in Syncing => Entitled(local, identities'),
           UNCHANGED <<mailbox, sent, guild, mishaps>>
    PROVE  GoodStep
BY TaskStep DEF GoodStep, IInv, TypeOK

\* The state a finished task is left in.
LEMMA IdleTask == Idle \in Task /\ TaskOK(Idle) /\ Idle.pc \notin Syncing
BY DEF Idle, Task, Points, TaskOK, Syncing

\* A task that only moves on keeps its type.
LEMMA MovedTask ==
    ASSUME IInv, NEW t \in Tasks, NEW pc \in Points
    PROVE  /\ [task[t] EXCEPT !.pc = pc] \in Task
           /\ [task[t] EXCEPT !.pc = pc].pc = pc
           /\ [task[t] EXCEPT !.pc = pc].kind = task[t].kind
           /\ [task[t] EXCEPT !.pc = pc].user = task[t].user
           /\ [task[t] EXCEPT !.pc = pc].email = task[t].email
           /\ [task[t] EXCEPT !.pc = pc].name = task[t].name
           /\ [task[t] EXCEPT !.pc = pc].code = task[t].code
           /\ [task[t] EXCEPT !.pc = pc].member = task[t].member
<1>1. task[t] \in Task
  BY DEF IInv, TypeOK
<1> QED
  BY <1>1 DEF Task

-----------------------------------------------------------------------------

\* Interactions and events arrive.
LEMMA ArriveGood == ASSUME IInv, NEW t \in Tasks, Arrive(t) PROVE GoodStep
<1>1. ASSUME NEW user \in Users, NEW email \in Addresses, NEW name \in Names,
             SubmitEmail(t, user, email, name)
      PROVE  GoodStep
  <2> DEFINE local == [Idle EXCEPT !.pc = "lookup", !.kind = "email",
                         !.user = user, !.email = email, !.name = name]
  <2>1. local \in Task /\ TaskOK(local) /\ local.pc \notin Syncing
    BY DEF Idle, Task, Points, TaskOK, Syncing
  <2>2. /\ task' = [task EXCEPT ![t] = local]
        /\ UNCHANGED <<tableVars, mailbox, sent, guild, mishaps>>
    BY <1>1 DEF SubmitEmail, Set
  <2> HIDE DEF local
  <2> QED
    BY <2>1, <2>2, LocalStep DEF IInv, TypeOK
<1>2. ASSUME NEW user \in Users, NEW code \in Codes \cup {None},
             SubmitCode(t, user, code)
      PROVE  GoodStep
  <2> DEFINE local == [Idle EXCEPT !.pc = "check", !.kind = "code",
                         !.user = user, !.code = code]
  <2>1. local \in Task /\ TaskOK(local) /\ local.pc \notin Syncing
    BY DEF Idle, Task, Points, TaskOK, Syncing
  <2>2. /\ task' = [task EXCEPT ![t] = local]
        /\ UNCHANGED <<tableVars, mailbox, sent, guild, mishaps>>
    BY <1>2 DEF SubmitCode, Set
  <2> HIDE DEF local
  <2> QED
    BY <2>1, <2>2, LocalStep DEF IInv, TypeOK
<1>3. ASSUME NEW user \in Users, Join(t, user) PROVE GoodStep
  <2> DEFINE local == [Idle EXCEPT !.pc = "lookup", !.kind = "join",
                         !.user = user, !.member = NewMember]
  <2>1. NewMember \in Member
    BY DEF NewMember, Member
  <2>2. local \in Task /\ TaskOK(local) /\ local.pc \notin Syncing
    BY <2>1 DEF Idle, Task, Points, TaskOK, Syncing
  <2>3. /\ guild' = [guild EXCEPT ![user] = NewMember]
        /\ task' = [task EXCEPT ![t] = local] \/ UNCHANGED task
        /\ UNCHANGED <<tableVars, mailbox, sent, mishaps>>
    BY <1>3 DEF Join, Set
  <2> HIDE DEF local
  <2>4. guild' \in [Users -> Member \cup {None}]
    BY <2>1, <2>3 DEF IInv, TypeOK
  <2>5. [TablesNext]_tableVars
    BY <2>3
  <2>6. CASE task' = [task EXCEPT ![t] = local]
    BY <2>2, <2>3, <2>4, <2>5, <2>6, TaskStep DEF GoodStep, IInv, TypeOK
  <2>7. CASE UNCHANGED task
    <3>1. /\ task[t] \in Task /\ task' = [task EXCEPT ![t] = task[t]]
          /\ TaskOK(task[t]) /\ task[t].pc = "idle"
      BY <1>3, <2>7 DEF IInv, TypeOK, Join, At
    <3> QED
      BY <2>3, <2>4, <2>5, <3>1, TaskStep DEF GoodStep, IInv, TypeOK, Syncing
  <2> QED
    BY <2>3, <2>6, <2>7
<1> QED
  BY <1>1, <1>2, <1>3 DEF Arrive

\* find_user_by_id and what follows it.
LEMMA LookupGood ==
    ASSUME IInv, NEW t \in Tasks, LookupForEmail(t) \/ LookupForJoin(t)
    PROVE  GoodStep
<1>1. /\ task[t] \in Task /\ TaskOK(task[t]) /\ task[t].user \in Users
      /\ UNCHANGED <<tableVars, guild, mailbox, sent, mishaps>>
      /\ mailbox' \subseteq Codes \X Addresses /\ sent' \subseteq Codes
      /\ mishaps' \in 0..MaxMishaps
  BY DEF IInv, TypeOK, LookupForEmail, LookupForJoin, At, TaskOK
<1>2. CASE task' = [task EXCEPT ![t] = Idle]
  BY <1>1, <1>2, IdleTask, LocalStep
<1>3. ASSUME NEW pc \in {"start", "confirm"},
             task[t].pc = "lookup", task[t].kind = "email",
             pc = "confirm" => /\ identities[task[t].user] # None
                               /\ identities[task[t].user].email = task[t].email,
             task' = [task EXCEPT ![t] = [task[t] EXCEPT !.pc = pc]]
      PROVE  GoodStep
  <2> DEFINE local == [task[t] EXCEPT !.pc = pc]
  <2>1. pc \in Points
    BY DEF Points
  <2>2. /\ local \in Task /\ TaskOK(local)
        /\ local.pc \in Syncing => Entitled(local, identities)
    BY <1>1, <1>3, <2>1, MovedTask DEF TaskOK, Syncing, Entitled
  <2> HIDE DEF local
  <2> QED
    BY <1>1, <1>3, <2>2, LocalStep DEF local
<1>4. ASSUME task[t].pc = "lookup", task[t].kind = "join",
             task' = [task EXCEPT ![t] = [task[t] EXCEPT !.pc = "mark"]]
      PROVE  GoodStep
  <2> DEFINE local == [task[t] EXCEPT !.pc = "mark"]
  <2>1. "mark" \in Points
    BY DEF Points
  <2>2. local \in Task /\ TaskOK(local) /\ local.pc \notin Syncing
    BY <1>1, <1>4, <2>1, MovedTask DEF TaskOK, Syncing
  <2> HIDE DEF local
  <2> QED
    BY <1>1, <1>4, <2>2, LocalStep DEF local
<1>5. ASSUME task[t].pc = "lookup", task[t].kind = "join",
             identities[task[t].user] # None,
             identities[task[t].user].confirmed,
             task' = [task EXCEPT ![t] =
                        [task[t] EXCEPT !.pc = "nick",
                                        !.name = identities[task[t].user].name]]
      PROVE  GoodStep
  <2> DEFINE local == [task[t] EXCEPT !.pc = "nick",
                                      !.name = identities[task[t].user].name]
  <2>1. identities[task[t].user].name \in Names \cup {None}
    BY <1>1, <1>5 DEF IInv, TypeOK, TablesTypeOK, Identity
  <2>2. /\ local \in Task /\ local.pc = "nick" /\ local.user = task[t].user
        /\ local.member = task[t].member
    BY <1>1, <2>1 DEF Task, Points
  <2>3. TaskOK(local) /\ Entitled(local, identities)
    BY <1>1, <1>5, <2>2 DEF TaskOK, Entitled
  <2> HIDE DEF local
  <2> QED
    BY <1>1, <1>5, <2>2, <2>3, LocalStep DEF local
<1> QED
  BY <1>2, <1>3, <1>4, <1>5 DEF LookupForEmail, LookupForJoin, At, Goto, Set, Finish

-----------------------------------------------------------------------------

\* A transaction after which the task only moves on, or ends.
LEMMA ConfirmGood == ASSUME IInv, NEW t \in Tasks, Confirm(t) PROVE GoodStep
<1> DEFINE local == [task[t] EXCEPT !.pc = "fetch"]
<1>1. /\ task[t].pc = "confirm" /\ TaskOK(task[t]) /\ task[t].user \in Users
      /\ task[t].email \in Addresses /\ task[t].name \in Names
      /\ Entitled(task[t], identities)
  BY DEF IInv, Confirm, At, TaskOK, SyncersAreEntitled, Syncing
<1>2. TablesNext
  BY <1>1 DEF Confirm, TablesNext
<1>3. "fetch" \in Points
  BY DEF Points
<1>4. /\ local \in Task /\ TaskOK(local)
      /\ local.pc = "fetch" /\ local.user = task[t].user
  BY <1>1, <1>3, MovedTask DEF TaskOK
<1>5. Entitled(local, identities')
  <2> DEFINE user == task[t].user
             row == [identities[user] EXCEPT !.name = task[t].name, !.confirmed = TRUE]
  <2>1. identities[user] \in Identity
    BY <1>1 DEF Entitled, IInv, TablesInv, TablesTypeOK
  <2>2. row \in Identity /\ row.confirmed
    BY <1>1, <2>1 DEF Identity
  <2>3. CASE identities[user].email = task[t].email
    <3>1. identities' = [identities EXCEPT ![user] = row]
      BY <1>1, <2>3 DEF Entitled, Confirm, ConfirmDisplayName
    <3> HIDE DEF row
    <3>2. identities'[user] = row
      BY <1>1, <3>1 DEF IInv, TablesInv, TablesTypeOK
    <3> QED
      BY <1>4, <2>2, <3>2, RowAssumption DEF Entitled
  <2>4. CASE identities[user].email # task[t].email
    <3>1. UNCHANGED identities
      BY <2>4 DEF Confirm, ConfirmDisplayName
    <3> QED
      BY <1>1, <1>4, <2>4, <3>1 DEF Entitled
  <2> QED
    BY <2>3, <2>4
<1>6. /\ task' = [task EXCEPT ![t] = local]
      /\ UNCHANGED <<mailbox, sent, guild, mishaps>>
  BY DEF Confirm, Goto, Set
<1> HIDE DEF local
<1> QED
  BY <1>2, <1>4, <1>5, <1>6, TableStep

LEMMA StartGood == ASSUME IInv, NEW t \in Tasks, Start(t) PROVE GoodStep
<1>1. /\ task[t].pc = "start" /\ task[t] \in Task /\ task[t].user \in Users
      /\ task[t].email \in Addresses /\ task[t].name \in Names
      /\ UNCHANGED <<mailbox, sent, guild, mishaps>>
  BY DEF IInv, TypeOK, Start, At, TaskOK
<1>2. ASSUME NEW code \in Codes,
             StartAttempt(task[t].user, task[t].email, task[t].name, code),
             Set(t, [task[t] EXCEPT !.pc = "mail", !.code = code])
      PROVE  GoodStep
  <2> DEFINE local == [task[t] EXCEPT !.pc = "mail", !.code = code]
  <2>1. local \in Task /\ TaskOK(local) /\ local.pc \notin Syncing
    BY <1>1 DEF Task, Points, TaskOK, Syncing
  <2>2. TablesNext
    BY <1>1, <1>2 DEF TablesNext
  <2>3. task' = [task EXCEPT ![t] = local]
    BY <1>2 DEF Set
  <2> HIDE DEF local
  <2> QED
    BY <1>1, <2>1, <2>2, <2>3, TableStep
<1>3. CASE Finish(t) /\ UNCHANGED tableVars
  BY <1>1, <1>3, IdleTask, TableStep DEF Finish, Set
<1> QED
  BY <1>2, <1>3 DEF Start

LEMMA MailGood ==
    ASSUME IInv, NEW t \in Tasks, NEW delivered \in BOOLEAN, NEW failed \in BOOLEAN,
           Mail(t, delivered, failed)
    PROVE  GoodStep
<1>1. /\ task[t].pc = "mail" /\ TaskOK(task[t]) /\ task[t].user \in Users
      /\ task[t].code \in Codes /\ task[t].email \in Addresses
      /\ UNCHANGED <<tableVars, guild>> /\ mishaps' \in 0..MaxMishaps
  BY DEF IInv, TypeOK, Mail, At, TaskOK
<1>2. mailbox' \subseteq Codes \X Addresses /\ sent' \subseteq Codes
  BY <1>1 DEF IInv, TypeOK, Mail
<1>3. CASE Goto(t, "cleanup")
  <2> DEFINE local == [task[t] EXCEPT !.pc = "cleanup"]
  <2>1. "cleanup" \in Points
    BY DEF Points
  <2>2. local \in Task /\ TaskOK(local) /\ local.pc \notin Syncing
    BY <1>1, <2>1, MovedTask DEF TaskOK, Syncing
  <2>3. task' = [task EXCEPT ![t] = local]
    BY <1>3 DEF Goto, Set
  <2> HIDE DEF local
  <2> QED
    BY <1>1, <1>2, <2>2, <2>3, LocalStep
<1>4. CASE Finish(t)
  BY <1>1, <1>2, <1>4, IdleTask, LocalStep DEF Finish, Set
<1> QED
  BY <1>3, <1>4 DEF Mail

LEMMA CleanupGood == ASSUME IInv, NEW t \in Tasks, Cleanup(t) PROVE GoodStep
<1>1. /\ task[t].pc = "cleanup" /\ task[t].user \in Users /\ task[t].code \in Codes
      /\ task' = [task EXCEPT ![t] = Idle]
      /\ UNCHANGED <<mailbox, sent, guild, mishaps>>
  BY DEF IInv, Cleanup, At, TaskOK, Finish, Set
<1>2. [TablesNext]_tableVars
  BY <1>1 DEF Cleanup, TablesNext
<1> QED
  BY <1>1, <1>2, IdleTask, TableStep

LEMMA CheckGood == ASSUME IInv, NEW t \in Tasks, Check(t) PROVE GoodStep
<1> DEFINE user == task[t].user
           code == task[t].code
<1>1. /\ task[t].pc = "check" /\ task[t] \in Task /\ user \in Users
      /\ code \in Codes \cup {None}
      /\ UNCHANGED <<mailbox, sent, guild, mishaps>>
  BY DEF IInv, TypeOK, Check, At, TaskOK, Task
<1>2. CASE /\ AcceptCode(user, code)
           /\ Set(t, [task[t] EXCEPT !.pc = "fetch", !.name = pending[user].name])
  <2> DEFINE local == [task[t] EXCEPT !.pc = "fetch", !.name = pending[user].name]
  <2>1. pending[user] \in Attempt /\ code \in Codes
    BY <1>1, <1>2, PendingRow DEF AcceptCode, Usable, IInv, TablesInv
  <2>2. local \in Task /\ TaskOK(local) /\ local.user = user
    BY <1>1, <2>1 DEF Attempt, Task, Points, TaskOK
  <2>3. TablesNext
    BY <1>1, <1>2, <2>1 DEF TablesNext
  <2>4. Entitled(local, identities')
    <3> DEFINE identity == [email |-> pending[user].email,
                            name |-> pending[user].name, confirmed |-> TRUE]
    <3>1. identity \in Identity
      BY <2>1 DEF Attempt, Identity
    <3>2. identities' = [identities EXCEPT ![user] = identity]
      BY <1>2 DEF AcceptCode
    <3>3. identity.confirmed
      OBVIOUS
    <3> HIDE DEF identity
    <3>4. identities'[user] = identity
      BY <1>1, <3>2 DEF IInv, TablesInv, TablesTypeOK
    <3> QED
      BY <2>2, <3>1, <3>3, <3>4, RowAssumption DEF Entitled
  <2>5. task' = [task EXCEPT ![t] = local]
    BY <1>2 DEF Set
  <2> HIDE DEF local
  <2> QED
    BY <1>1, <2>2, <2>3, <2>4, <2>5, TableStep
<1>3. CASE (RejectCode(user, code) \/ DiscardAttempt(user)) /\ Finish(t)
  <2>1. TablesNext
    BY <1>1, <1>3 DEF TablesNext
  <2> QED
    BY <1>1, <1>3, <2>1, IdleTask, TableStep DEF Finish, Set
<1>4. CASE UNCHANGED tableVars /\ Finish(t)
  BY <1>1, <1>4, IdleTask, TableStep DEF Finish, Set
<1> QED
  BY <1>2, <1>3, <1>4 DEF Check

-----------------------------------------------------------------------------

LEMMA FetchGood == ASSUME IInv, NEW t \in Tasks, Fetch(t) PROVE GoodStep
<1>1. /\ task[t].pc = "fetch" /\ task[t] \in Task /\ task[t].user \in Users
      /\ Entitled(task[t], identities)
      /\ UNCHANGED <<tableVars, mailbox, sent, guild, mishaps>>
  BY DEF IInv, TypeOK, Fetch, At, TaskOK, SyncersAreEntitled, Syncing
<1>2. CASE Present(task[t].user)
  <2> DEFINE local == [task[t] EXCEPT !.pc = "nick", !.member = guild[task[t].user]]
  <2>1. guild[task[t].user] \in Member
    BY <1>1, <1>2 DEF IInv, TypeOK, Present
  <2>2. /\ local \in Task /\ TaskOK(local)
        /\ local.pc = "nick" /\ local.user = task[t].user
    BY <1>1, <2>1 DEF Task, Points, TaskOK
  <2>3. task' = [task EXCEPT ![t] = local]
    BY <1>2 DEF Fetch, Set
  <2>4. Entitled(local, identities')
    BY <1>1, <2>2 DEF tableVars, Entitled
  <2> HIDE DEF local
  <2> QED
    BY <1>1, <2>2, <2>3, <2>4, TableStep
<1>3. CASE ~Present(task[t].user)
  BY <1>1, <1>3, IdleTask, TableStep DEF Fetch, Finish, Set
<1> QED
  BY <1>2, <1>3

\* A call to Discord, after which the task only moves on, or ends.
LEMMA EditGood ==
    ASSUME IInv, NEW t \in Tasks, NEW needed \in BOOLEAN, NEW member,
           NEW next \in {"idle", "grant", "revoke"},
           task[t].pc \in {"nick", "grant", "revoke", "mark"},
           needed /\ Present(task[t].user) => member \in Member,
           next \in Syncing => task[t].pc \in Syncing,
           Edit(t, needed, member, next)
    PROVE  GoodStep
<1>1. /\ task[t] \in Task /\ TaskOK(task[t]) /\ task[t].user \in Users
      /\ task[t].member \in Member
      /\ task[t].pc \in Syncing => Entitled(task[t], identities)
      /\ UNCHANGED <<tableVars, mailbox, sent, mishaps>>
      /\ mailbox' \subseteq Codes \X Addresses /\ sent' \subseteq Codes
      /\ mishaps' \in 0..MaxMishaps
  BY DEF IInv, TypeOK, TaskOK, SyncersAreEntitled, Edit
<1>2. guild' \in [Users -> Member \cup {None}]
  BY <1>1 DEF IInv, TypeOK, Edit
<1>3. ASSUME NEW local \in Task, task' = [task EXCEPT ![t] = local], TaskOK(local),
             local.pc \in Syncing => Entitled(local, identities)
      PROVE  GoodStep
  <2>1. [TablesNext]_tableVars /\ UNCHANGED identities
    BY <1>1 DEF tableVars
  <2> QED
    BY <1>1, <1>2, <1>3, <2>1, TaskStep DEF GoodStep, Entitled
<1>4. CASE task' = [task EXCEPT ![t] = Idle]
  BY <1>3, <1>4, IdleTask
<1>5. CASE next # "idle" /\ task' = [task EXCEPT ![t] = [task[t] EXCEPT !.pc = next]]
  <2> DEFINE local == [task[t] EXCEPT !.pc = next]
  <2>1. next \in Points
    BY DEF Points
  <2>2. /\ local \in Task /\ TaskOK(local)
        /\ local.pc = next /\ local.user = task[t].user
    BY <1>1, <1>5, <2>1, MovedTask DEF TaskOK
  <2> HIDE DEF local
  <2>3. local.pc \in Syncing => Entitled(local, identities)
    BY <1>1, <2>2 DEF Entitled
  <2> QED
    BY <1>3, <1>5, <2>2, <2>3 DEF local
<1> QED
  BY <1>4, <1>5 DEF Edit, Finish, Goto, Set

LEMMA SyncGood ==
    ASSUME IInv, NEW t \in Tasks,
           \/ SetNick(t) \/ AddVerifiedRole(t)
           \/ RemoveUnverifiedRole(t) \/ AddUnverifiedRole(t)
    PROVE  GoodStep
<1> DEFINE member == guild[task[t].user]
<1>1. /\ task[t] \in Task /\ task[t].user \in Users
      /\ task[t].name \in Names \cup {None}
      /\ task[t].member \in Member
      /\ Present(task[t].user) => member \in Member
  BY DEF IInv, TypeOK, TaskOK, Task, At, Present,
         SetNick, AddVerifiedRole, RemoveUnverifiedRole, AddUnverifiedRole
<1>2. CASE SetNick(t)
  <2>1. Present(task[t].user) => [member EXCEPT !.nick = task[t].name] \in Member
    BY <1>1 DEF Member
  <2>2. /\ task[t].pc = "nick" /\ task[t].pc \in Syncing
        /\ Edit(t, task[t].member.nick # task[t].name,
                [member EXCEPT !.nick = task[t].name], "grant")
    BY <1>2 DEF SetNick, At, Syncing
  <2> QED
    BY <2>1, <2>2, EditGood
<1>3. CASE AddVerifiedRole(t)
  <2>1. Present(task[t].user) => [member EXCEPT !.verified = TRUE] \in Member
    BY <1>1 DEF Member
  <2>2. /\ task[t].pc = "grant" /\ task[t].pc \in Syncing
        /\ Edit(t, ~task[t].member.verified,
                [member EXCEPT !.verified = TRUE], "revoke")
    BY <1>3 DEF AddVerifiedRole, At, Syncing
  <2> QED
    BY <2>1, <2>2, EditGood
<1>4. CASE RemoveUnverifiedRole(t)
  <2>1. /\ task[t].member.unverified \in BOOLEAN
        /\ Present(task[t].user) => [member EXCEPT !.unverified = FALSE] \in Member
    BY <1>1 DEF Member
  <2>2. /\ task[t].pc = "revoke" /\ task[t].pc \in Syncing
        /\ Edit(t, task[t].member.unverified,
                [member EXCEPT !.unverified = FALSE], "idle")
    BY <1>4 DEF RemoveUnverifiedRole, At, Syncing
  <2> QED
    BY <2>1, <2>2, EditGood
<1>5. CASE AddUnverifiedRole(t)
  <2>1. Present(task[t].user) => [member EXCEPT !.unverified = TRUE] \in Member
    BY <1>1 DEF Member
  <2>2. /\ task[t].pc = "mark" /\ "idle" \notin Syncing
        /\ Edit(t, ~task[t].member.unverified,
                [member EXCEPT !.unverified = TRUE], "idle")
    BY <1>5 DEF AddUnverifiedRole, At, Syncing
  <2> QED
    BY <2>1, <2>2, EditGood
<1> QED
  BY <1>2, <1>3, <1>4, <1>5

-----------------------------------------------------------------------------

LEMMA AbortGood == ASSUME IInv, NEW t \in Tasks, Abort(t) PROVE GoodStep
<1>1. /\ task' = [task EXCEPT ![t] = Idle]
      /\ UNCHANGED <<tableVars, mailbox, sent, guild>>
      /\ mishaps' = mishaps + 1 /\ mishaps < MaxMishaps
  BY DEF Abort, Finish, Set
<1>2. mishaps' \in 0..MaxMishaps
  BY <1>1, ScenarioAssumption DEF IInv, TypeOK
<1> QED
  BY <1>1, <1>2, IdleTask, LocalStep DEF IInv, TypeOK

LEMMA WorldGood ==
    ASSUME IInv, NEW user \in Users, Leave(user) \/ HourPasses(user)
    PROVE  GoodStep
<1>1. UNCHANGED <<task, mailbox, sent>> /\ UNCHANGED <<accepted, identities>>
  BY DEF Leave, HourPasses, AttemptExpires, tableVars
<1>2. [TablesNext]_tableVars
  BY DEF Leave, HourPasses, TablesNext
<1>3. mishaps' \in 0..MaxMishaps
  BY ScenarioAssumption DEF Leave, HourPasses, IInv, TypeOK
<1>4. guild' \in [Users -> Member \cup {None}]
  BY DEF Leave, HourPasses, IInv, TypeOK
<1>5. TablesInv'
  BY <1>2, TablesInvStep DEF IInv
<1>6. TypeOK'
  BY <1>1, <1>3, <1>4, <1>5 DEF IInv, TypeOK, TablesInv
<1>7. (\A t \in Tasks : TaskOK(task[t]))' /\ SyncersAreEntitled'
  BY <1>1 DEF IInv, TaskOK, SyncersAreEntitled, Entitled
<1> QED
  BY <1>2, <1>4, <1>5, <1>6, <1>7 DEF GoodStep, IInv

\* The initial states.
LEMMA InitGood == Init => IInv
<1> SUFFICES ASSUME Init PROVE IInv
  OBVIOUS
<1>1. TablesInv
  BY TablesInitInv DEF Init
<1>2. /\ task \in [Tasks -> Task]
      /\ \A t \in Tasks : TaskOK(task[t]) /\ task[t].pc \notin Syncing
  BY IdleTask DEF Init
<1>3. guild \in [Users -> Member \cup {None}]
  <2>1. OldMember \in Member
    BY DEF OldMember, Member
  <2> QED
    BY <2>1 DEF Init
<1>4. mailbox \subseteq Codes \X Addresses
  BY <1>1, PendingRow DEF Init, TablesInv, Attempt
<1>5. TypeOK
  BY <1>1, <1>2, <1>3, <1>4, ScenarioAssumption DEF Init, TypeOK, TablesInv
<1> QED
  BY <1>1, <1>2, <1>5 DEF IInv, SyncersAreEntitled

\* Every step is good.
LEMMA NextGood == IInv /\ [Next]_vars => GoodStep
<1> SUFFICES ASSUME IInv, [Next]_vars PROVE GoodStep
  OBVIOUS
<1>1. CASE UNCHANGED vars
  BY <1>1 DEF GoodStep, vars, tableVars, IInv, TypeOK, TablesInv, TablesTypeOK,
              GuessesAreLimited, CodesAreUsedOnce, FreshCodes, Holds, TaskOK,
              SyncersAreEntitled, Entitled
<1>2. ASSUME NEW t \in Tasks, Progress(t) PROVE GoodStep
  BY <1>2, LookupGood, ConfirmGood, StartGood, MailGood, CleanupGood, CheckGood,
     FetchGood, SyncGood DEF Progress
<1> QED
  BY <1>1, <1>2, ArriveGood, AbortGood, WorldGood DEF Next

-----------------------------------------------------------------------------

\* The invariant holds, and every step is a transaction or leaves the tables.
THEOREM HandlersInvariant == Spec => []IInv /\ TablesSpec
<1>1. Init => IInv /\ TablesInit
  BY InitGood DEF Init
<1>2. IInv /\ [Next]_vars => IInv' /\ [TablesNext]_tableVars
  BY NextGood DEF GoodStep
<1> QED
  BY <1>1, <1>2, PTL DEF Spec, TablesSpec

(***************************************************************************)
(* The handlers, the mailboxes and the guild keep their types.             *)
(***************************************************************************)
THEOREM TypeCorrect == Spec => []TypeOK
BY HandlersInvariant, PTL DEF IInv

(***************************************************************************)
(* The handlers implement the tables' specification: each step of a modal, *)
(* of a clean-up or of a join is one transaction or leaves the tables be.  *)
(***************************************************************************)
THEOREM HandlersUseTransactions == Spec => TablesSpec
BY HandlersInvariant, PTL

(***************************************************************************)
(* The limit on wrong codes holds for any number of concurrent modals.     *)
(***************************************************************************)
THEOREM HandlersLimitGuesses == Spec => []GuessesAreLimited
BY HandlersUseTransactions, GuessesAreLimitedHolds, PTL

(***************************************************************************)
(* No interleaving of modals takes a code twice.                           *)
(***************************************************************************)
THEOREM HandlersUseCodesOnce == Spec => []CodesAreUsedOnce
BY HandlersUseTransactions, CodesAreUsedOnceHolds, PTL

-----------------------------------------------------------------------------

\* What StandingIsEarned says of a step.
EarnedStep ==
    \A u \in Users : Present(u)' /\ ~IsConfirmed(u) =>
        /\ guild'[u].verified => Present(u) /\ guild[u].verified
        /\ guild'[u].nick # None => Present(u) /\ guild[u].nick = guild'[u].nick

\* One member changes, or comes, or goes.
LEMMA MemberEarned ==
    ASSUME IInv, NEW user \in Users, NEW member,
           guild' = [guild EXCEPT ![user] = member],
           \/ IsConfirmed(user)
           \/ member = None
           \/ member.nick = None /\ ~member.verified
           \/ /\ Present(user)
              /\ member.nick = guild[user].nick
              /\ member.verified = guild[user].verified
    PROVE  EarnedStep
<1>1. \A u \in Users : guild'[u] = IF u = user THEN member ELSE guild[u]
  BY DEF IInv, TypeOK
<1> QED
  BY <1>1 DEF EarnedStep, Present

\* The calls to Discord.
LEMMA SyncEarned ==
    ASSUME IInv, NEW t \in Tasks, ~UNCHANGED guild,
           \/ SetNick(t) \/ AddVerifiedRole(t)
           \/ RemoveUnverifiedRole(t) \/ AddUnverifiedRole(t)
    PROVE  EarnedStep
<1> DEFINE user == task[t].user
<1>1. user \in Users
  BY DEF IInv, TaskOK, At,
         SetNick, AddVerifiedRole, RemoveUnverifiedRole, AddUnverifiedRole
<1>2. Present(user)
  BY DEF SetNick, AddVerifiedRole, RemoveUnverifiedRole, AddUnverifiedRole, Edit
<1>3. guild[user] \in Member
  BY <1>1, <1>2 DEF Present, IInv, TypeOK
<1>4. CASE SetNick(t) \/ AddVerifiedRole(t)
  <2>1. IsConfirmed(user)
    BY <1>4 DEF SetNick, AddVerifiedRole, At, IInv, SyncersAreEntitled, Syncing,
                Entitled, IsConfirmed
  <2> QED
    BY <1>1, <1>4, <2>1, MemberEarned DEF SetNick, AddVerifiedRole, Edit
<1>5. ASSUME NEW member \in Member,
             member.nick = guild[user].nick, member.verified = guild[user].verified,
             guild' = [guild EXCEPT ![user] = member]
      PROVE  EarnedStep
  BY <1>1, <1>2, <1>5, MemberEarned
<1>6. CASE RemoveUnverifiedRole(t)
  BY <1>3, <1>5, <1>6 DEF RemoveUnverifiedRole, Edit, Member
<1>7. CASE AddUnverifiedRole(t)
  BY <1>3, <1>5, <1>7 DEF AddUnverifiedRole, Edit, Member
<1> QED
  BY <1>4, <1>6, <1>7

(***************************************************************************)
(* Whatever runs concurrently, dies or leaves, and whoever has the role    *)
(* from before without an identity: the bot gives the role or a nickname   *)
(* only to a member with a confirmed identity.                             *)
(***************************************************************************)
THEOREM StandingIsEarnedHolds == Spec => StandingIsEarned
<1>1. IInv /\ [Next]_vars => [EarnedStep]_guild
  <2> SUFFICES ASSUME IInv, Next, ~UNCHANGED guild PROVE EarnedStep
    BY DEF vars
  <2>1. ASSUME NEW t \in Tasks, NEW user \in Users, Join(t, user)
        PROVE  EarnedStep
    BY <2>1, MemberEarned DEF Join, NewMember
  <2>2. ASSUME NEW user \in Users, Leave(user)
        PROVE  EarnedStep
    BY <2>2, MemberEarned DEF Leave
  <2> QED
    BY <2>1, <2>2, SyncEarned
       DEF Next, Arrive, Progress, Abort, HourPasses, SubmitEmail, SubmitCode,
           LookupForEmail, LookupForJoin, Confirm, Start, Cleanup, Check, Mail, Fetch
<1>2. [][EarnedStep]_guild => StandingIsEarned
  BY PTL DEF StandingIsEarned, EarnedStep
<1> QED
  BY <1>1, <1>2, HandlersInvariant, PTL DEF Spec

-----------------------------------------------------------------------------
(***************************************************************************)
(* What other handlers rely on.  In one step the role of one user changes, *)
(* or the confirmed identity of one user, which is never withdrawn.        *)
(***************************************************************************)

ConfirmedIdentity == [email : Addresses, name : Names]

SameIdentities == \A u \in Users : Confirmed(u)' = Confirmed(u)

\* One user gets or loses the role.
RoleMoves(user) ==
    Holders' = IF user \in Holders THEN Holders \ {user} ELSE Holders \cup {user}

IdentityMoves(user) ==
    /\ Confirmed(user)' \in ConfirmedIdentity \ {Confirmed(user)}
    /\ \A u \in Users \ {user} : Confirmed(u)' = Confirmed(u)

StandingStep ==
    \/ UNCHANGED Holders /\ SameIdentities
    \/ SameIdentities /\ \E user \in Users : RoleMoves(user)
    \/ UNCHANGED Holders /\ \E user \in Users : IdentityMoves(user)

\* One row is written, with a confirmed name.
LEMMA IdentityWritten ==
    ASSUME IInv, UNCHANGED guild, NEW user \in Users, NEW row \in Identity,
           row.confirmed, row.name \in Names,
           identities' = [identities EXCEPT ![user] = row]
    PROVE  StandingStep
<1>1. \A u \in Users : identities'[u] = IF u = user THEN row ELSE identities[u]
  BY DEF IInv, TypeOK, TablesTypeOK
<1>2. UNCHANGED Holders
  BY DEF Holders, Present
<1>3. \A u \in Users \ {user} : Confirmed(u)' = Confirmed(u)
  BY <1>1 DEF Confirmed
<1>4. Confirmed(user)' \in ConfirmedIdentity
  <2>1. identities'[user] = row /\ row # None /\ row.name # None
    BY <1>1, RowAssumption, NoneAssumption
  <2>2. Confirmed(user)' = [email |-> row.email, name |-> row.name]
    BY <2>1 DEF Confirmed
  <2> QED
    BY <2>2 DEF ConfirmedIdentity, Identity
<1> QED
  BY <1>2, <1>3, <1>4 DEF StandingStep, IdentityMoves, SameIdentities

\* One member changes.
LEMMA MemberWritten ==
    ASSUME IInv, UNCHANGED identities, NEW user \in Users, NEW member,
           guild' = [guild EXCEPT ![user] = member]
    PROVE  StandingStep
<1>1. \A u \in Users : guild'[u] = IF u = user THEN member ELSE guild[u]
  BY DEF IInv, TypeOK
<1>2. SameIdentities
  BY DEF SameIdentities, Confirmed
<1>3. \A u \in Users \ {user} : u \in Holders' <=> u \in Holders
  BY <1>1 DEF Holders, Present
<1>4. UNCHANGED Holders \/ RoleMoves(user)
  BY <1>3 DEF RoleMoves, Holders
<1> QED
  BY <1>2, <1>4 DEF StandingStep

\* The transactions that write identities.
LEMMA TablesStanding ==
    ASSUME IInv, [TablesNext]_tableVars, UNCHANGED guild
    PROVE  StandingStep
<1>1. CASE UNCHANGED identities
  BY <1>1 DEF StandingStep, SameIdentities, Confirmed, Holders, Present
<1>2. ASSUME NEW user \in Users, NEW email \in Addresses, NEW name \in Names,
             ConfirmDisplayName(user, email, name), ~UNCHANGED identities
      PROVE  StandingStep
  <2> DEFINE row == [identities[user] EXCEPT !.name = name, !.confirmed = TRUE]
  <2>1. identities[user] \in Identity
    BY <1>2 DEF ConfirmDisplayName, IInv, TypeOK, TablesTypeOK
  <2>2. row \in Identity /\ row.confirmed /\ row.name \in Names
    BY <2>1 DEF Identity
  <2>3. identities' = [identities EXCEPT ![user] = row]
    BY <1>2 DEF ConfirmDisplayName
  <2> HIDE DEF row
  <2> QED
    BY <2>2, <2>3, IdentityWritten
<1>3. ASSUME NEW user \in Users, NEW code \in Codes, AcceptCode(user, code)
      PROVE  StandingStep
  <2> DEFINE row == [email |-> pending[user].email,
                     name |-> pending[user].name, confirmed |-> TRUE]
  <2>1. pending[user] \in Attempt /\ pending[user].name # None
    BY <1>3, PendingRow DEF AcceptCode, Usable, IInv, TablesInv
  <2>2. row \in Identity /\ row.confirmed /\ row.name \in Names
    BY <2>1 DEF Attempt, Identity
  <2>3. identities' = [identities EXCEPT ![user] = row]
    BY <1>3 DEF AcceptCode
  <2> HIDE DEF row
  <2> QED
    BY <2>2, <2>3, IdentityWritten
<1> QED
  BY <1>1, <1>2, <1>3
     DEF TablesNext, tableVars, StartAttempt, DeleteIfCodeMatches, RejectCode,
         DiscardAttempt, AttemptExpires

\* The steps that change a member.
LEMMA GuildStanding ==
    ASSUME IInv, Next, ~UNCHANGED guild
    PROVE  StandingStep
<1>1. \A t \in Tasks : At(t, "nick") \/ At(t, "grant") \/ At(t, "revoke") \/ At(t, "mark")
         => task[t].user \in Users
  BY DEF At, IInv, TaskOK
<1>2. ASSUME NEW t \in Tasks, NEW user \in Users, Join(t, user)
      PROVE  StandingStep
  BY <1>2, MemberWritten DEF Join, tableVars
<1>3. ASSUME NEW user \in Users, Leave(user)
      PROVE  StandingStep
  BY <1>3, MemberWritten DEF Leave, tableVars
<1>4. ASSUME NEW t \in Tasks,
             \/ SetNick(t) \/ AddVerifiedRole(t)
             \/ RemoveUnverifiedRole(t) \/ AddUnverifiedRole(t)
      PROVE  StandingStep
  BY <1>1, <1>4, MemberWritten
     DEF SetNick, AddVerifiedRole, RemoveUnverifiedRole, AddUnverifiedRole, Edit,
         tableVars
<1> QED
  BY <1>2, <1>3, <1>4
     DEF Next, vars, Arrive, Progress, Abort, HourPasses, SubmitEmail, SubmitCode,
         LookupForEmail, LookupForJoin, Confirm, Start, Cleanup, Check, Mail, Fetch

(***************************************************************************)
(* Roles and confirmed identities change one user at a time, and what was  *)
(* confirmed is replaced but never withdrawn.                              *)
(***************************************************************************)
THEOREM StandingChangesSingly == Spec => [][StandingStep]_vars
<1>1. IInv /\ [Next]_vars => [StandingStep]_vars
  <2> SUFFICES ASSUME IInv, Next PROVE StandingStep
    OBVIOUS
  <2>1. CASE UNCHANGED guild
    <3>1. [TablesNext]_tableVars
      BY NextGood DEF GoodStep
    <3> QED
      BY <2>1, <3>1, TablesStanding
  <2> QED
    BY <2>1, GuildStanding
<1> QED
  BY <1>1, HandlersInvariant, PTL DEF Spec

=============================================================================
