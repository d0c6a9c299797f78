--------------------------- MODULE OnboardingProofs ---------------------------
(***************************************************************************)
(* The handlers keep their types and only ever change the tables through   *)
(* the transactions of OnboardingRepository, so that all that is proved of *)
(* the transactions holds while the handlers run.                          *)
(***************************************************************************)
EXTENDS Onboarding, OnboardingRepositoryProofs

Holding == {"account", "create", "group", "link", "dm", "complete", "fail"}

Syncing == {"review", "post", "record"}

\* Points of a task that has a row of the table to work on.
NamedPoints ==
    Holding \cup Syncing \cup {"decide", "denial", "provision", "recheck_role",
                               "recheck_identity", "claim", "reply"}

Named(l, rows) == l.request \in RequestIds /\ rows[l.request] # NoRow

\* The task holds an attempt, or will once a sync is over.
Holds(l) ==
    \/ l.pc \in Holding
    \/ l.pc \in Syncing /\ l.after = "account"

(***************************************************************************)
(* What a task has in its local variables at each point, as a property of  *)
(* its record l and the rows of the table.                                 *)
(***************************************************************************)
CallerOK(l) ==
    l.pc # "idle" => /\ l.kind \in Kinds
                     /\ l.actor \in Actors
                     /\ l.user \in Users
                     /\ l.target \in Targets

NamedOK(l, rows) ==
    l.pc \in NamedPoints \/ (l.pc # "idle" /\ l.kind # "onboard")
        => Named(l, rows)

DataOK(l) ==
    /\ l.pc = "insert" => l.identity \in Identities
    /\ l.pc \in Holding \cup Syncing \cup {"reply"} => l.seen \in Row
    /\ l.pc \in {"group", "link", "dm", "complete"} => l.account \in Accounts
    /\ l.pc = "record" => l.posted \in Messages

SyncOK(l) ==
    l.pc \in Syncing
        => l.after \in {"idle", "reply", "provision", "denial", "account"}

HoldsOK(l) == Holds(l) => l.seen.attempts \in 1..MaxAttempts

LocalOK(l, rows) ==
    CallerOK(l) /\ NamedOK(l, rows) /\ DataOK(l) /\ SyncOK(l) /\ HoldsOK(l)

TasksOK ==
    /\ task \in [Tasks -> Task]
    /\ \A t \in Tasks : LocalOK(task[t], requests)

WorldOK ==
    /\ verified \subseteq Users
    /\ identity \in [Users -> Identities \cup {None}]
    /\ officers \subseteq Actors \X Targets
    /\ accounts \in [Accounts -> Emails \cup {None}]
    /\ members \subseteq Accounts \X Targets
    /\ lateUsers \subseteq Emails
    /\ lateMembers \subseteq Accounts \X Targets
    /\ dms \subseteq RequestIds \X {"denied", "completed"} \X (0..MaxAttempts)
    /\ cards \in [Messages -> [request : RequestIds, status : Statuses] \cup {None}]
    /\ aborts \in 0..MaxAborts

\* Review messages that the table or a task names have been sent.
CardsOK ==
    /\ \A id \in RequestIds :
          Exists(id) /\ requests[id].review # None
              => cards[requests[id].review] # None
    /\ \A t \in Tasks :
          /\ task[t].seen # NoRow /\ task[t].seen.review # None
                => cards[task[t].seen.review] # None
          /\ At(t, "record") => cards[task[t].posted] # None

\* The inductive invariant: types, the locals at each point, and messages.
IInv == RepoTypeOK /\ WorldOK /\ TasksOK /\ CardsOK

\* What every action of a task is shown to do.
GoodStep(t) ==
    /\ [RepoNext]_repoVars
    /\ WorldOK'
    /\ \E l \in Task : Set(t, l) /\ LocalOK(l, requests')

-----------------------------------------------------------------------------

\* Lemmas about local states.

\* A task that serves nothing is well-formed, whatever the rows are.
LEMMA IdleOK == Idle \in Task /\ \A rows : LocalOK(Idle, rows)
BY DEF Idle, Task, Points, LocalOK, CallerOK, NamedOK, DataOK, SyncOK, HoldsOK,
       Holds, Holding, Syncing, NamedPoints

\* Moving on to a point whose demands are met.
LEMMA GotoType ==
    ASSUME TasksOK, NEW t \in Tasks, NEW pc \in Points
    PROVE  /\ task[t] \in Task
           /\ [task[t] EXCEPT !.pc = pc] \in Task
BY DEF TasksOK, Task

\* The other tasks do not notice that a row changes or appears.
LEMMA OthersKeep ==
    ASSUME IInv, NEW t \in Tasks, GoodStep(t)
    PROVE  RepoTypeOK' /\ WorldOK' /\ TasksOK'
<1>1. RepoTypeOK'
  BY TypeStep DEF IInv, GoodStep
<1>2. PICK l \in Task : Set(t, l) /\ LocalOK(l, requests')
  BY DEF GoodStep
<1>3. \A id \in RequestIds : requests[id] # NoRow => requests'[id] # NoRow
  BY RowEvolution DEF IInv, GoodStep, Exists
<1>4. ASSUME NEW u \in Tasks PROVE LocalOK(task'[u], requests')
  <2>1. CASE u = t
    BY <1>2, <2>1 DEF Set, IInv, TasksOK
  <2>2. CASE u # t
    <3>1. task'[u] = task[u] /\ LocalOK(task[u], requests)
      BY <1>2, <2>2 DEF Set, IInv, TasksOK
    <3>2. NamedOK(task[u], requests')
      BY <3>1, <1>3 DEF LocalOK, NamedOK, Named
    <3> QED BY <3>1, <3>2 DEF LocalOK
  <2> QED BY <2>1, <2>2
<1>5. task' \in [Tasks -> Task]
  BY <1>2 DEF Set, IInv, TasksOK
<1> QED BY <1>1, <1>4, <1>5 DEF IInv, GoodStep, TasksOK

-----------------------------------------------------------------------------

\* Facts about every task that a proof of an action starts from.
LEMMA TaskFacts ==
    ASSUME IInv, NEW t \in Tasks
    PROVE  /\ task[t] \in Task
           /\ LocalOK(task[t], requests)
BY DEF IInv, TasksOK

\* An action that changes nothing but the task's own variables.
LEMMA QuietStep ==
    ASSUME IInv, NEW t \in Tasks,
           \E l \in Task : Set(t, l) /\ LocalOK(l, requests),
           UNCHANGED <<requests, audit, reviewAudit, world, authentik, dms,
                       cards, aborts>>
    PROVE  GoodStep(t)
BY DEF GoodStep, IInv, WorldOK, world, authentik, repoVars

\* A task that ends.
LEMMA FinishStep ==
    ASSUME IInv, NEW t \in Tasks, Finish(t),
           UNCHANGED <<requests, audit, reviewAudit, world, authentik, dms,
                       cards, aborts>>
    PROVE  GoodStep(t)
BY QuietStep, IdleOK DEF Finish

\* Assigning one local variable.
LEMMA OneField ==
    ASSUME NEW l \in Task
    PROVE  /\ \A pc \in Points : [l EXCEPT !.pc = pc] \in Task
           /\ \A kind \in Kinds : [l EXCEPT !.kind = kind] \in Task
           /\ \A actor \in Actors : [l EXCEPT !.actor = actor] \in Task
           /\ \A user \in Users : [l EXCEPT !.user = user] \in Task
           /\ \A target \in Targets : [l EXCEPT !.target = target] \in Task
           /\ \A i \in Identities : [l EXCEPT !.identity = i] \in Task
           /\ \A id \in RequestIds \cup {None} :
                [l EXCEPT !.request = id] \in Task
           /\ \A row \in Row : [l EXCEPT !.seen = row] \in Task
           /\ \A a \in Accounts : [l EXCEPT !.account = a] \in Task
           /\ \A m \in Messages : [l EXCEPT !.posted = m] \in Task
           /\ \A pc \in Points : [l EXCEPT !.after = pc] \in Task
BY DEF Task

\* A task that goes on to show a row: it holds an attempt if the row has one.
LEMMA SyncLocal ==
    ASSUME NEW t \in Tasks, task[t] \in Task, CallerOK(task[t]),
           task[t].pc # "idle",
           NEW id \in RequestIds, NEW rows, rows[id] # NoRow,
           NEW row \in Row,
           NEW after \in {"idle", "reply", "provision", "denial", "account"},
           after = "account" => row.attempts \in 1..MaxAttempts,
           Sync(t, id, row, after)
    PROVE  \E l \in Task : Set(t, l) /\ LocalOK(l, rows)
<1> DEFINE l == [task[t] EXCEPT !.pc = "review", !.request = id, !.seen = row,
                                !.after = after]
<1>1. l \in Task
  <2> DEFINE l1 == [task[t] EXCEPT !.pc = "review"]
             l2 == [l1 EXCEPT !.request = id]
             l3 == [l2 EXCEPT !.seen = row]
  <2>1. l1 \in Task
    BY OneField DEF Points
  <2>2. l2 \in Task
    BY <2>1, OneField
  <2>3. l3 \in Task
    BY <2>2, OneField
  <2>4. after \in Points
    BY DEF Points
  <2> QED
    BY <2>3, <2>4, OneField
<1>2. CallerOK(l) /\ NamedOK(l, rows)
  BY DEF Task, CallerOK, NamedOK, Named
<1>3. DataOK(l) /\ SyncOK(l) /\ HoldsOK(l)
  BY DEF Task, DataOK, SyncOK, HoldsOK, Holds, Holding, Syncing
<1> QED
  BY <1>1, <1>2, <1>3 DEF Sync, LocalOK

-----------------------------------------------------------------------------

\* can_approve_target touches the task alone; /onboarding_status keeps a row
\* that exists.
LEMMA AuthorizeOK ==
    ASSUME IInv, NEW t \in Tasks, Authorize(t)
    PROVE  GoodStep(t)
<1>1. SUFFICES \E l \in Task : Set(t, l) /\ LocalOK(l, requests)
  BY QuietStep DEF Authorize
<1>2. CASE Finish(t)
  BY <1>2, IdleOK DEF Finish
<1>3. CASE \E pc \in {"role", "decide", "provision"} :
             /\ Goto(t, pc)
             /\ At(t, "authorize")
             /\ pc = "decide" => task[t].kind = "deny"
             /\ pc = "provision" => task[t].kind = "retry"
  BY <1>3, TaskFacts
     DEF Goto, At, Task, Points, LocalOK, CallerOK, NamedOK, Named, DataOK,
         SyncOK, HoldsOK, Holds, Holding, Syncing, NamedPoints
<1>4. CASE /\ Sync(t, task[t].request, RowOf(t), "idle")
           /\ At(t, "authorize")
           /\ task[t].kind = "status"
  <2>1. Named(task[t], requests) /\ task[t] \in Task /\ CallerOK(task[t])
    BY <1>4, TaskFacts DEF At, LocalOK, NamedOK
  <2>2. RowOf(t) \in Row
    BY <2>1, ExistingRow DEF IInv, Exists, Named, RowOf
  <2>3. /\ task[t].request \in RequestIds
        /\ requests[task[t].request] # NoRow
        /\ task[t].pc # "idle"
    BY <1>4, <2>1 DEF At, Named
  <2> QED
    BY <1>4, <2>1, <2>2, <2>3, SyncLocal
<1> QED
  BY <1>2, <1>3, <1>4, TaskFacts DEF Authorize, At, LocalOK, CallerOK, Kinds

\* The check of the verified role touches the task alone.
LEMMA CheckRoleOK ==
    ASSUME IInv, NEW t \in Tasks, CheckRole(t)
    PROVE  GoodStep(t)
<1>1. SUFFICES \E l \in Task : Set(t, l) /\ LocalOK(l, requests)
  BY QuietStep DEF CheckRole
<1> QED
  BY TaskFacts, IdleOK
     DEF CheckRole, Goto, Finish, Sync, Resume, At, RowOf, Email, Task, Points, Kinds, LocalOK,
         CallerOK, NamedOK, Named, DataOK, SyncOK, HoldsOK, Holds, Holding,
         Syncing, NamedPoints

\* /onboard keeps the identity it has read, and one there is.
LEMMA ReadIdentityOK ==
    ASSUME IInv, NEW t \in Tasks, ReadIdentity(t)
    PROVE  GoodStep(t)
<1>1. SUFFICES \E l \in Task : Set(t, l) /\ LocalOK(l, requests)
  BY QuietStep DEF ReadIdentity
<1>2. At(t, "identity") /\ task[t].kind = "onboard"
  BY DEF ReadIdentity
<1>3. identity[task[t].user] \in Identities \cup {None}
  BY <1>2, TaskFacts DEF At, LocalOK, CallerOK, IInv, WorldOK
<1>4. CASE Finish(t)
  BY <1>4, IdleOK DEF Finish
<1>5. CASE /\ identity[task[t].user] # None
           /\ Set(t, [task[t] EXCEPT !.pc = "insert",
                                     !.identity = identity[task[t].user]])
  <2>1. /\ [task[t] EXCEPT !.pc = "insert"] \in Task
        /\ identity[task[t].user] \in Identities
    BY <1>3, <1>5, TaskFacts, OneField DEF Points
  <2>2. [task[t] EXCEPT !.pc = "insert", !.identity = identity[task[t].user]]
          \in Task
    BY <2>1, OneField
  <2> DEFINE l == [task[t] EXCEPT !.pc = "insert",
                                  !.identity = identity[task[t].user]]
  <2>3. /\ l.pc = "insert" /\ l.kind = "onboard"
        /\ l.identity \in Identities
        /\ l.actor \in Actors /\ l.user \in Users /\ l.target \in Targets
    BY <1>2, <2>1, TaskFacts DEF At, Task, LocalOK, CallerOK
  <2>4. LocalOK(l, requests)
    BY <2>3 DEF LocalOK, CallerOK, Kinds, NamedOK, DataOK, SyncOK, HoldsOK,
                Holds, Holding, Syncing, NamedPoints
  <2> QED
    BY <1>5, <2>2, <2>4
<1> QED
  BY <1>4, <1>5 DEF ReadIdentity

\* The comparison of the identity touches the task alone.
LEMMA CheckIdentityOK ==
    ASSUME IInv, NEW t \in Tasks, CheckIdentity(t)
    PROVE  GoodStep(t)
<1>1. SUFFICES \E l \in Task : Set(t, l) /\ LocalOK(l, requests)
  BY QuietStep DEF CheckIdentity
<1> QED
  BY TaskFacts, IdleOK
     DEF CheckIdentity, Goto, Finish, Sync, Resume, At, RowOf, Email, Task, Points, Kinds, LocalOK,
         CallerOK, NamedOK, Named, DataOK, SyncOK, HoldsOK, Holds, Holding,
         Syncing, NamedPoints

\* The row that start_or_reuse finds after a conflict exists and is the
\* task's.
LEMMA SelectOK ==
    ASSUME IInv, NEW t \in Tasks, Select(t)
    PROVE  GoodStep(t)
<1>1. SUFFICES \E l \in Task : Set(t, l) /\ LocalOK(l, requests)
  BY QuietStep DEF Select
<1>2. At(t, "select") /\ task[t] \in Task /\ CallerOK(task[t])
  BY TaskFacts DEF Select, LocalOK
<1>3. CASE Finish(t)
  BY <1>3, IdleOK DEF Finish
<1>4. ASSUME NEW id \in Conflicts(task[t].user, task[t].target),
             Sync(t, id, requests[id], "reply")
      PROVE  \E l \in Task : Set(t, l) /\ LocalOK(l, requests)
  <2>1. id \in RequestIds /\ requests[id] \in Row /\ requests[id] # NoRow
    BY <1>4, ExistingRow DEF Conflicts, Active, Exists, IInv
  <2> QED
    BY <1>2, <1>4, <2>1, SyncLocal DEF At
<1> QED
  BY <1>3, <1>4 DEF Select

\* The last message of /onboard ends the task.
LEMMA ReplyOK ==
    ASSUME IInv, NEW t \in Tasks, Reply(t)
    PROVE  GoodStep(t)
<1>1. SUFFICES \E l \in Task : Set(t, l) /\ LocalOK(l, requests)
  BY QuietStep DEF Reply
<1> QED
  BY TaskFacts, IdleOK
     DEF Reply, Goto, Finish, Sync, Resume, At, RowOf, Email, Task, Points, Kinds, LocalOK,
         CallerOK, NamedOK, Named, DataOK, SyncOK, HoldsOK, Holds, Holding,
         Syncing, NamedPoints

\* The second authorization touches the task alone.
LEMMA AuthorizeProvisioningOK ==
    ASSUME IInv, NEW t \in Tasks, AuthorizeProvisioning(t)
    PROVE  GoodStep(t)
<1>1. SUFFICES \E l \in Task : Set(t, l) /\ LocalOK(l, requests)
  BY QuietStep DEF AuthorizeProvisioning
<1> QED
  BY TaskFacts, IdleOK
     DEF AuthorizeProvisioning, Goto, Finish, Sync, Resume, At, RowOf, Email, Task, Points, Kinds, LocalOK,
         CallerOK, NamedOK, Named, DataOK, SyncOK, HoldsOK, Holds, Holding,
         Syncing, NamedPoints

\* A failed call sends the task to mark_failed with the row it holds.
LEMMA CallFailsOK ==
    ASSUME IInv, NEW t \in Tasks, CallFails(t)
    PROVE  GoodStep(t)
<1>1. SUFFICES \E l \in Task : Set(t, l) /\ LocalOK(l, requests)
  BY QuietStep DEF CallFails
<1> QED
  BY TaskFacts, IdleOK
     DEF CallFails, Goto, Finish, Sync, Resume, At, RowOf, Email, Task, Points, Kinds, LocalOK,
         CallerOK, NamedOK, Named, DataOK, SyncOK, HoldsOK, Holds, Holding,
         Syncing, NamedPoints

\* The account that is found is one of Authentik's.
LEMMA FindUserOK ==
    ASSUME IInv, NEW t \in Tasks, FindUser(t)
    PROVE  GoodStep(t)
<1>1. SUFFICES \E l \in Task : Set(t, l) /\ LocalOK(l, requests)
  BY QuietStep DEF FindUser
<1>2. At(t, "account")
  BY DEF FindUser
<1>3. ASSUME NEW a \in Accounts,
             Set(t, [task[t] EXCEPT !.pc = "group", !.account = a])
      PROVE  \E l \in Task : Set(t, l) /\ LocalOK(l, requests)
  <2>1. [task[t] EXCEPT !.pc = "group"] \in Task
    BY TaskFacts, OneField DEF Points
  <2>2. [task[t] EXCEPT !.pc = "group", !.account = a] \in Task
    BY <2>1, OneField
  <2> QED
    BY <1>2, <1>3, <2>2, TaskFacts
       DEF At, Task, LocalOK, CallerOK, NamedOK, Named, DataOK, SyncOK,
           HoldsOK, Holds, Holding, Syncing, NamedPoints
<1>4. CASE Goto(t, "create")
  BY <1>2, <1>4, TaskFacts
     DEF Goto, At, Task, Points, LocalOK, CallerOK, NamedOK, Named, DataOK,
         SyncOK, HoldsOK, Holds, Holding, Syncing, NamedPoints
<1> QED
  BY <1>3, <1>4 DEF FindUser

\* A refused username sends the task to mark_failed.
LEMMA UsernameRefusedOK ==
    ASSUME IInv, NEW t \in Tasks, UsernameRefused(t)
    PROVE  GoodStep(t)
<1>1. SUFFICES \E l \in Task : Set(t, l) /\ LocalOK(l, requests)
  BY QuietStep DEF UsernameRefused
<1> QED
  BY TaskFacts, IdleOK
     DEF UsernameRefused, Goto, Finish, Sync, Resume, At, RowOf, Email, Task, Points, Kinds, LocalOK,
         CallerOK, NamedOK, Named, DataOK, SyncOK, HoldsOK, Holds, Holding,
         Syncing, NamedPoints

\* Asking for the recovery link touches the task alone.
LEMMA CreateRecoveryLinkOK ==
    ASSUME IInv, NEW t \in Tasks, CreateRecoveryLink(t)
    PROVE  GoodStep(t)
<1>1. SUFFICES \E l \in Task : Set(t, l) /\ LocalOK(l, requests)
  BY QuietStep DEF CreateRecoveryLink
<1> QED
  BY TaskFacts, IdleOK
     DEF CreateRecoveryLink, Goto, Finish, Sync, Resume, At, RowOf, Email, Task, Points, Kinds, LocalOK,
         CallerOK, NamedOK, Named, DataOK, SyncOK, HoldsOK, Holds, Holding,
         Syncing, NamedPoints

\* A sync that fails ends the task or lets it go on where it was going.
LEMMA SyncFailsOK ==
    ASSUME IInv, NEW t \in Tasks, SyncFails(t)
    PROVE  GoodStep(t)
<1>1. SUFFICES \E l \in Task : Set(t, l) /\ LocalOK(l, requests)
  BY QuietStep DEF SyncFails
<1> QED
  BY TaskFacts, IdleOK
     DEF SyncFails, Goto, Finish, Sync, Resume, At, RowOf, Email, Task, Points, Kinds, LocalOK,
         CallerOK, NamedOK, Named, DataOK, SyncOK, HoldsOK, Holds, Holding,
         Syncing, NamedPoints

-----------------------------------------------------------------------------

\* Actions that start a task.
LEMMA BeginOK ==
    ASSUME IInv, NEW t \in Tasks, NEW kind \in Kinds, NEW actor \in Actors,
           NEW user \in Users, NEW target \in Targets,
           NEW id \in RequestIds \cup {None},
           kind # "onboard" => id \in RequestIds /\ Exists(id),
           Begin(t, kind, actor, user, target, id)
    PROVE  GoodStep(t)
<1> DEFINE l == [Idle EXCEPT !.pc = "authorize", !.kind = kind,
                             !.actor = actor, !.user = user,
                             !.target = target, !.request = id]
<1>1. l \in Task
  <2> DEFINE l1 == [Idle EXCEPT !.pc = "authorize"]
             l2 == [l1 EXCEPT !.kind = kind]
             l3 == [l2 EXCEPT !.actor = actor]
             l4 == [l3 EXCEPT !.user = user]
             l5 == [l4 EXCEPT !.target = target]
  <2>1. l1 \in Task
    BY IdleOK, OneField DEF Points
  <2>2. l2 \in Task
    BY <2>1, OneField
  <2>3. l3 \in Task
    BY <2>2, OneField
  <2>4. l4 \in Task
    BY <2>3, OneField
  <2>5. l5 \in Task
    BY <2>4, OneField
  <2> QED
    BY <2>5, OneField
<1>2. /\ l.pc = "authorize" /\ l.kind = kind /\ l.actor = actor
      /\ l.user = user /\ l.target = target /\ l.request = id
  BY DEF Idle
<1>3. LocalOK(l, requests)
  BY <1>2 DEF LocalOK, CallerOK, NamedOK, Named, DataOK, SyncOK, HoldsOK, Holds,
              Holding, Syncing, NamedPoints, Exists
<1> QED
  BY <1>1, <1>3, QuietStep DEF Begin

\* Every command and click starts its task well-formed, with the row's user
\* and target.
LEMMA StartOK == ASSUME IInv, NEW t \in Tasks, Start(t) PROVE GoodStep(t)
<1>1. ASSUME NEW kind \in Kinds, NEW actor \in Actors, NEW id \in RequestIds,
             CallOn(t, kind, actor, id)
      PROVE  GoodStep(t)
  <2>1. requests[id].user \in Users /\ requests[id].target \in Targets
    BY <1>1, ExistingRow DEF CallOn, IInv, Row
  <2> QED
    BY <1>1, <2>1, BeginOK DEF CallOn
<1>2. ASSUME NEW kind \in {"approve", "deny"}, NEW actor \in Actors,
             NEW message \in Messages, Click(t, kind, actor, message)
      PROVE  GoodStep(t)
  <2>1. cards[message].request \in RequestIds
    BY <1>2 DEF Click, IInv, WorldOK
  <2> QED
    BY <1>1, <1>2, <2>1 DEF Click, Kinds
<1>3. ASSUME NEW actor \in Actors, NEW user \in Users, NEW target \in Targets,
             CallOnboard(t, actor, user, target)
      PROVE  GoodStep(t)
  BY <1>3, BeginOK DEF CallOnboard, Kinds
<1>4. PICK actor \in Actors :
        \/ \E user \in Users, target \in Targets :
                CallOnboard(t, actor, user, target)
        \/ \E kind \in {"status", "retry"}, id \in RequestIds :
                CallOn(t, kind, actor, id)
        \/ \E kind \in {"approve", "deny"}, message \in Messages :
                Click(t, kind, actor, message)
  BY DEF Start
<1>5. {"status", "retry"} \subseteq Kinds
  BY DEF Kinds
<1> QED
  BY <1>1, <1>2, <1>3, <1>4, <1>5

\* Actions that run a transaction.
LEMMA InsertOK == ASSUME IInv, NEW t \in Tasks, Insert(t) PROVE GoodStep(t)
<1>1. /\ task[t] \in Task /\ CallerOK(task[t]) /\ At(t, "insert")
      /\ task[t].identity \in Identities
  BY TaskFacts DEF Insert, At, LocalOK, DataOK
<1>2. /\ task[t].actor \in Actors /\ task[t].user \in Users
      /\ task[t].target \in Targets /\ task[t].pc # "idle"
  BY <1>1 DEF At, CallerOK
<1>3. CASE /\ Goto(t, "select")
           /\ UNCHANGED <<requests, audit, reviewAudit, world, authentik, dms,
                          cards, aborts>>
  <2>1. \E l \in Task : Set(t, l) /\ LocalOK(l, requests)
    BY <1>1, <1>3, TaskFacts
       DEF Goto, At, Task, Points, LocalOK, CallerOK, NamedOK, Named, DataOK,
           SyncOK, HoldsOK, Holds, Holding, Syncing, NamedPoints
  <2> QED
    BY <1>3, <2>1, QuietStep
<1>4. ASSUME NEW id \in RequestIds,
             StartRequest(id, task[t].user, task[t].target, task[t].actor,
                          task[t].identity),
             Sync(t, id, requests'[id], "reply")
      PROVE  GoodStep(t)
  <2>1. RepoNext
    BY <1>1, <1>2, <1>4 DEF RepoNext
  <2>2. requests'[id] \in Row /\ requests'[id] # NoRow
    <3>1. NewRow(task[t].user, task[t].target, task[t].actor, task[t].identity)
            \in Row
      BY <1>1, <1>2, NewRowType
    <3>2. AuditEvent("request_created", task[t].actor, 0) \in Event
      BY <1>2, BoundsAssumption DEF AuditEvent, Event, EventTypes
    <3> QED
      BY <1>4, <3>1, <3>2, CommitEffect, NullAssumption DEF StartRequest, IInv
  <2>3. \E l \in Task : Set(t, l) /\ LocalOK(l, requests')
    BY <1>1, <1>2, <1>4, <2>2, SyncLocal
  <2> QED
    BY <2>1, <2>3 DEF GoodStep, Insert, IInv, WorldOK, world, authentik
<1> QED
  BY <1>3, <1>4 DEF Insert, repoVars

\* What a committed decision, claim or outcome leaves behind.
LEMMA CommittedRow ==
    ASSUME IInv, [RepoNext]_repoVars, NEW id \in RequestIds, Exists(id)
    PROVE  requests'[id] \in Row /\ requests'[id] # NoRow
BY TypeStep, RowEvolution DEF IInv, Exists, RepoTypeOK

\* The row a task is named after, and who called it.
LEMMA NamedFacts ==
    ASSUME IInv, NEW t \in Tasks, task[t].pc \in NamedPoints
    PROVE  /\ task[t].request \in RequestIds
           /\ Exists(task[t].request)
           /\ requests[task[t].request] # NoRow
           /\ requests[task[t].request] \in Row
           /\ task[t].actor \in Actors
           /\ CallerOK(task[t]) /\ task[t] \in Task
<1>1. Named(task[t], requests) /\ CallerOK(task[t]) /\ task[t] \in Task
  BY TaskFacts DEF LocalOK, NamedOK
<1>2. task[t].actor \in Actors
  BY <1>1 DEF CallerOK, NamedPoints, Holding, Syncing
<1> QED
  BY <1>1, <1>2, ExistingRow DEF Named, Exists, IInv

\* Deciding is Approve, Deny or no transaction; the task keeps the row as
\* stored.
LEMMA DecideRequestOK ==
    ASSUME IInv, NEW t \in Tasks, DecideRequest(t) PROVE GoodStep(t)
<1> DEFINE id == task[t].request
<1>1. At(t, "decide") /\ task[t].pc \in NamedPoints /\ task[t].pc # "idle"
  BY DEF DecideRequest, At, NamedPoints
<1>2. /\ id \in RequestIds /\ Exists(id) /\ task[t].actor \in Actors
      /\ requests[id] # NoRow /\ requests[id] \in Row
      /\ CallerOK(task[t]) /\ task[t] \in Task
  BY <1>1, NamedFacts
<1>3. [RepoNext]_repoVars
  BY <1>2 DEF DecideRequest, RepoNext
<1>4. requests'[id] \in Row /\ requests'[id] # NoRow
  BY <1>2, <1>3, CommittedRow
<1>5. \E after \in {"provision", "denial", "idle"} :
         Sync(t, id, requests'[id], after)
  BY DEF DecideRequest, repoVars
<1>6. \E l \in Task : Set(t, l) /\ LocalOK(l, requests')
  BY <1>1, <1>2, <1>4, <1>5, SyncLocal
<1> QED
  BY <1>3, <1>6 DEF GoodStep, DecideRequest, IInv, WorldOK, world, authentik

\* The message of a denial names the request; the task ends either way.
LEMMA SendDenialOK ==
    ASSUME IInv, NEW t \in Tasks, SendDenial(t) PROVE GoodStep(t)
<1>1. task[t].request \in RequestIds
  BY NamedFacts DEF SendDenial, At, NamedPoints
<1>2. dms' \subseteq RequestIds \X {"denied", "completed"} \X (0..MaxAttempts)
  BY <1>1, BoundsAssumption DEF SendDenial, IInv, WorldOK
<1> QED
  BY <1>2, IdleOK
     DEF SendDenial, Finish, GoodStep, IInv, WorldOK, world, authentik, repoVars

\* Claiming is ClaimProvisioning or no transaction; the attempt in hand is at
\* least 1.
LEMMA ClaimOK == ASSUME IInv, NEW t \in Tasks, Claim(t) PROVE GoodStep(t)
<1> DEFINE id == task[t].request
<1>1. At(t, "claim") /\ task[t].pc \in NamedPoints /\ task[t].pc # "idle"
  BY DEF Claim, At, NamedPoints
<1>2. /\ id \in RequestIds /\ Exists(id) /\ task[t].actor \in Actors
      /\ requests[id] # NoRow /\ requests[id] \in Row
      /\ CallerOK(task[t]) /\ task[t] \in Task
  BY <1>1, NamedFacts
<1>3. CASE Finish(t) /\ UNCHANGED repoVars
  BY <1>3, IdleOK
     DEF Claim, Finish, GoodStep, IInv, WorldOK, world, authentik, repoVars
<1>4. CASE /\ ClaimProvisioning(id, task[t].actor)
           /\ Sync(t, id, requests'[id], "account")
  <2>1. RepoNext
    BY <1>2, <1>4 DEF RepoNext
  <2>2. ClaimEffect(id, requests[id], requests'[id])
    BY <1>2, <1>4, ClaimStepEffect DEF ClaimStep, IInv
  <2>3. /\ requests'[id] \in Row /\ requests'[id] # NoRow
        /\ requests'[id].attempts \in 1..MaxAttempts
    BY <1>2, <2>2, NullAssumption, BoundsAssumption DEF ClaimEffect, Row
  <2>4. \E l \in Task : Set(t, l) /\ LocalOK(l, requests')
    BY <1>1, <1>2, <1>4, <2>3, SyncLocal
  <2> QED
    BY <2>1, <2>4 DEF GoodStep, Claim, IInv, WorldOK, world, authentik
<1> QED
  BY <1>3, <1>4 DEF Claim

\* Recording is MarkCompleted or MarkFailed of the attempt in hand, or no
\* transaction.
LEMMA RecordOutcomeOK ==
    ASSUME IInv, NEW t \in Tasks, RecordOutcome(t) PROVE GoodStep(t)
<1> DEFINE id == task[t].request
<1>1. /\ task[t].pc \in NamedPoints /\ task[t].pc # "idle"
      /\ task[t].pc \in {"complete", "fail"}
  BY DEF RecordOutcome, At, NamedPoints, Holding
<1>2. /\ id \in RequestIds /\ Exists(id)
      /\ requests[id] # NoRow /\ requests[id] \in Row
      /\ CallerOK(task[t]) /\ task[t] \in Task
  BY <1>1, NamedFacts
<1>3. /\ Attempt(t) \in 1..MaxAttempts
      /\ At(t, "complete") => task[t].account \in Accounts
  BY <1>1, TaskFacts DEF At, Attempt, LocalOK, DataOK, HoldsOK, Holds, Holding
<1>4. CASE Finish(t) /\ UNCHANGED repoVars
  BY <1>4, IdleOK
     DEF RecordOutcome, Finish, GoodStep, IInv, WorldOK, world, authentik, repoVars
<1>5. CASE /\ \/ /\ At(t, "complete")
                 /\ MarkCompleted(id, task[t].account, Attempt(t))
              \/ At(t, "fail") /\ MarkFailed(id, Attempt(t))
           /\ Sync(t, id, requests'[id], "idle")
  <2>1. RepoNext
    BY <1>2, <1>3, <1>5 DEF RepoNext
  <2>2. requests'[id] \in Row /\ requests'[id] # NoRow
    BY <1>2, <2>1, CommittedRow
  <2>3. \E l \in Task : Set(t, l) /\ LocalOK(l, requests')
    BY <1>1, <1>2, <1>5, <2>2, SyncLocal
  <2> QED
    BY <2>1, <2>3 DEF GoodStep, RecordOutcome, IInv, WorldOK, world, authentik
<1> QED
  BY <1>4, <1>5 DEF RecordOutcome

\* Actions that call Authentik or Discord.
LEMMA AnsweredLocal ==
    ASSUME NEW t \in Tasks, NEW lost \in BOOLEAN, NEW l \in Task, NEW rows,
           l.pc \in Holding, LocalOK(l, rows), Answered(t, lost, l)
    PROVE  \E new \in Task : Set(t, new) /\ LocalOK(new, rows)
<1> DEFINE new == [l EXCEPT !.pc = IF lost THEN "fail" ELSE @]
<1>1. new \in Task
  BY DEF Task, Points
<1>2. LocalOK(new, rows)
  BY DEF Task, LocalOK, CallerOK, NamedOK, Named, DataOK, SyncOK, HoldsOK,
         Holds, Holding, Syncing, NamedPoints
<1> QED
  BY <1>1, <1>2 DEF Answered

\* A new account has the e-mail of the request; the task holds it.
LEMMA CreateUserOK ==
    ASSUME IInv, NEW t \in Tasks, NEW a \in Accounts, NEW lost \in BOOLEAN,
           CreateUser(t, a, lost)
    PROVE  GoodStep(t)
<1> DEFINE l == [task[t] EXCEPT !.pc = "group", !.account = a]
<1>1. At(t, "create") /\ task[t] \in Task /\ LocalOK(task[t], requests)
  BY TaskFacts DEF CreateUser
<1>2. l \in Task
  <2>1. [task[t] EXCEPT !.pc = "group"] \in Task
    BY <1>1, OneField DEF Points
  <2> QED
    BY <2>1, OneField
<1>3. LocalOK(l, requests) /\ l.pc \in Holding
  BY <1>1 DEF At, Task, LocalOK, CallerOK, NamedOK, Named, DataOK, SyncOK,
              HoldsOK, Holds, Holding, Syncing, NamedPoints
<1>4. \E new \in Task : Set(t, new) /\ LocalOK(new, requests)
  BY <1>2, <1>3, AnsweredLocal DEF CreateUser
<1>5. Email(t) \in Emails
  <2>1. task[t].seen \in Row
    BY <1>1 DEF At, LocalOK, DataOK, Holding
  <2> QED
    BY <2>1, IdentityAssumption DEF Row, Email
<1>6. accounts' \in [Accounts -> Emails \cup {None}]
  BY <1>5 DEF CreateUser, IInv, WorldOK
<1> QED
  BY <1>4, <1>6 DEF CreateUser, GoodStep, IInv, WorldOK, world, repoVars

\* The membership that is added is of a known account and target.
LEMMA AddToGroupOK ==
    ASSUME IInv, NEW t \in Tasks, NEW lost \in BOOLEAN, AddToGroup(t, lost)
    PROVE  GoodStep(t)
<1> DEFINE l == [task[t] EXCEPT !.pc = "link"]
<1>1. At(t, "group") /\ task[t] \in Task /\ LocalOK(task[t], requests)
  BY TaskFacts DEF AddToGroup
<1>2. l \in Task
  BY <1>1, OneField DEF Points
<1>3. LocalOK(l, requests) /\ l.pc \in Holding
  BY <1>1 DEF At, Task, LocalOK, CallerOK, NamedOK, Named, DataOK, SyncOK,
              HoldsOK, Holds, Holding, Syncing, NamedPoints
<1>4. \E new \in Task : Set(t, new) /\ LocalOK(new, requests)
  BY <1>2, <1>3, AnsweredLocal DEF AddToGroup
<1>5. task[t].account \in Accounts /\ task[t].target \in Targets
  BY <1>1 DEF At, LocalOK, DataOK, CallerOK
<1>6. members' \subseteq Accounts \X Targets
  BY <1>5 DEF AddToGroup, IInv, WorldOK
<1> QED
  BY <1>4, <1>6 DEF AddToGroup, GoodStep, IInv, WorldOK, world, repoVars

\* What is under way when the client gives up is for known data as well.
LEMMA TimesOutOK ==
    ASSUME IInv, NEW t \in Tasks, TimesOut(t)
    PROVE  GoodStep(t)
<1>1. /\ task[t].pc \in {"create", "group"} /\ Goto(t, "fail")
      /\ task[t] \in Task /\ LocalOK(task[t], requests)
  BY TaskFacts DEF TimesOut, At
<1>2. \E l \in Task : Set(t, l) /\ LocalOK(l, requests)
  BY <1>1 DEF Goto, Task, Points, LocalOK, CallerOK, NamedOK, Named, DataOK,
              SyncOK, HoldsOK, Holds, Holding, Syncing, NamedPoints
<1>3. Email(t) \in Emails
  <2>1. task[t].seen \in Row
    BY <1>1 DEF LocalOK, DataOK, Holding
  <2> QED
    BY <2>1, IdentityAssumption DEF Row, Email
<1>4. At(t, "group") =>
        task[t].account \in Accounts /\ task[t].target \in Targets
  BY <1>1 DEF At, LocalOK, DataOK, CallerOK
<1>5. lateUsers' \subseteq Emails /\ lateMembers' \subseteq Accounts \X Targets
  BY <1>3, <1>4 DEF TimesOut, IInv, WorldOK
<1> QED
  BY <1>2, <1>5 DEF TimesOut, GoodStep, IInv, WorldOK, world, repoVars

\* The message delivered names an attempt within the bound.
LEMMA SendCompletionOK ==
    ASSUME IInv, NEW t \in Tasks, NEW lost \in BOOLEAN, SendCompletion(t, lost)
    PROVE  GoodStep(t)
<1> DEFINE l == [task[t] EXCEPT !.pc = "complete"]
<1>1. At(t, "dm") /\ task[t] \in Task /\ LocalOK(task[t], requests)
  BY TaskFacts DEF SendCompletion
<1>2. l \in Task
  BY <1>1, OneField DEF Points
<1>3. LocalOK(l, requests) /\ l.pc \in Holding
  BY <1>1 DEF At, Task, LocalOK, CallerOK, NamedOK, Named, DataOK, SyncOK,
              HoldsOK, Holds, Holding, Syncing, NamedPoints
<1>4. \E new \in Task : Set(t, new) /\ LocalOK(new, requests)
  BY <1>2, <1>3, AnsweredLocal DEF SendCompletion
<1>5. task[t].request \in RequestIds /\ Attempt(t) \in 0..MaxAttempts
  BY <1>1, BoundsAssumption
     DEF At, Attempt, LocalOK, NamedOK, Named, HoldsOK, Holds, Holding, NamedPoints
<1>6. dms' \subseteq RequestIds \X {"denied", "completed"} \X (0..MaxAttempts)
  BY <1>5 DEF SendCompletion, IInv, WorldOK
<1> QED
  BY <1>4, <1>6
     DEF SendCompletion, GoodStep, IInv, WorldOK, world, authentik, repoVars

\* Actions of the review message.
LEMMA ResumeLocal ==
    ASSUME NEW t \in Tasks, NEW rows, task[t] \in Task,
           LocalOK(task[t], rows), task[t].pc \in Syncing,
           Resume(t, task[t].after)
    PROVE  \E l \in Task : Set(t, l) /\ LocalOK(l, rows)
<1>1. CASE task[t].after = "idle"
  BY <1>1, IdleOK DEF Resume
<1>2. CASE task[t].after # "idle"
  BY <1>2
     DEF Resume, Goto, Task, LocalOK, CallerOK, NamedOK, Named, DataOK, SyncOK,
         HoldsOK, Holds, Holding, Syncing, NamedPoints
<1> QED
  BY <1>1, <1>2

\* An edit touches a message and the task alone.
LEMMA EditReviewOK ==
    ASSUME IInv, NEW t \in Tasks, EditReview(t) PROVE GoodStep(t)
<1>1. /\ At(t, "review") /\ task[t].pc \in Syncing
      /\ task[t] \in Task /\ LocalOK(task[t], requests)
  BY TaskFacts DEF EditReview, At, Syncing
<1>2. task[t].seen \in Row
  BY <1>1 DEF LocalOK, DataOK
<1>3. cards' \in [Messages -> [request : RequestIds, status : Statuses]
                                 \cup {None}]
  <2>1. /\ task[t].seen.review \in Messages
        /\ task[t].seen.status \in Statuses
        /\ cards[task[t].seen.review] # None
    BY <1>2, NullAssumption DEF IInv, CardsOK, EditReview, Row
  <2> QED
    BY <2>1 DEF EditReview, ShowsSeen, IInv, WorldOK
<1>4. \E l \in Task : Set(t, l) /\ LocalOK(l, requests)
  <2>1. CASE Goto(t, "post")
    BY <1>1, <2>1
       DEF Goto, At, Task, Points, LocalOK, CallerOK, NamedOK, Named, DataOK,
           SyncOK, HoldsOK, Holds, Holding, Syncing, NamedPoints
  <2>2. CASE Resume(t, task[t].after)
    BY <1>1, <2>2, ResumeLocal
  <2> QED
    BY <2>1, <2>2 DEF EditReview
<1> QED
  BY <1>3, <1>4
     DEF EditReview, GoodStep, IInv, WorldOK, world, authentik, repoVars

\* A post touches a free message and the task alone.
LEMMA PostReviewOK ==
    ASSUME IInv, NEW t \in Tasks, NEW message \in Messages,
           PostReview(t, message)
    PROVE  GoodStep(t)
<1> DEFINE l == [task[t] EXCEPT !.pc = "record", !.posted = message]
<1>1. /\ task[t].pc \in {"review", "post"}
      /\ task[t] \in Task /\ LocalOK(task[t], requests)
  BY TaskFacts DEF PostReview, At
<1>2. l \in Task
  <2>1. [task[t] EXCEPT !.pc = "record"] \in Task
    BY <1>1, OneField DEF Points
  <2> QED
    BY <2>1, OneField
<1>3. LocalOK(l, requests)
  BY <1>1 DEF Task, LocalOK, CallerOK, NamedOK, Named, DataOK, SyncOK, HoldsOK,
              Holds, Holding, Syncing, NamedPoints
<1>4. task[t].request \in RequestIds /\ task[t].seen \in Row
  BY <1>1, NamedFacts DEF LocalOK, DataOK, Syncing, NamedPoints
<1>5. cards' \in [Messages -> [request : RequestIds, status : Statuses]
                                 \cup {None}]
  BY <1>4 DEF IInv, WorldOK, PostReview, Row
<1> QED
  BY <1>2, <1>3, <1>5
     DEF PostReview, GoodStep, IInv, WorldOK, world, authentik, repoVars

\* Recording the message is SetReviewMessage of the task's request.
LEMMA RecordReviewOK ==
    ASSUME IInv, NEW t \in Tasks, RecordReview(t) PROVE GoodStep(t)
<1> DEFINE id == task[t].request
<1>1. /\ At(t, "record") /\ task[t].pc \in Syncing
      /\ task[t] \in Task /\ LocalOK(task[t], requests)
  BY TaskFacts DEF RecordReview, At, Syncing
<1>2. /\ id \in RequestIds /\ Exists(id)
      /\ task[t].posted \in Messages /\ CallerOK(task[t])
  BY <1>1, NamedFacts DEF At, NamedPoints, LocalOK, DataOK
<1>3. RepoNext
  BY <1>2 DEF RecordReview, RepoNext
<1>4. requests'[id] \in Row /\ requests'[id] # NoRow
  BY <1>2, <1>3, CommittedRow
<1>5. LocalOK(task[t], requests')
  BY <1>1, <1>2, <1>4 DEF LocalOK, NamedOK, Named
<1>6. CASE Resume(t, task[t].after)
  <2>1. \E l \in Task : Set(t, l) /\ LocalOK(l, requests')
    BY <1>1, <1>5, <1>6, ResumeLocal
  <2> QED
    BY <1>3, <2>1
       DEF RecordReview, GoodStep, IInv, WorldOK, world, authentik
<1>7. CASE Set(t, [task[t] EXCEPT !.pc = "reply", !.seen = requests'[id]])
  <2> DEFINE l == [task[t] EXCEPT !.pc = "reply", !.seen = requests'[id]]
  <2>1. l \in Task
    <3>1. [task[t] EXCEPT !.pc = "reply"] \in Task
      BY <1>1, OneField DEF Points
    <3> QED
      BY <1>4, <3>1, OneField
  <2>2. LocalOK(l, requests')
    <3>1. /\ l.pc = "reply" /\ l.seen \in Row
          /\ l.kind = task[t].kind /\ l.actor = task[t].actor
          /\ l.user = task[t].user /\ l.target = task[t].target
          /\ l.request = id
      BY <1>1, <1>4 DEF Task
    <3>2. CallerOK(l) /\ Named(l, requests')
      BY <1>1, <1>2, <1>4, <3>1 DEF At, CallerOK, Named
    <3> QED
      BY <3>1, <3>2 DEF LocalOK, NamedOK, DataOK, SyncOK, HoldsOK, Holds,
                        Holding, Syncing
  <2> QED
    BY <1>3, <1>7, <2>1, <2>2
       DEF RecordReview, GoodStep, IInv, WorldOK, world, authentik
<1> QED
  BY <1>6, <1>7 DEF RecordReview

\* A task that dies.
LEMMA AbortOK == ASSUME IInv, NEW t \in Tasks, Abort(t) PROVE GoodStep(t)
<1>1. aborts' \in 0..MaxAborts
  BY ScenarioAssumption DEF Abort, IInv, WorldOK
<1> QED
  BY <1>1, IdleOK
     DEF Abort, Finish, GoodStep, IInv, WorldOK, world, authentik, repoVars

-----------------------------------------------------------------------------

\* Every step of a handler is a good one.
LEMMA ProgressOK == ASSUME IInv, NEW t \in Tasks, Progress(t) PROVE GoodStep(t)
BY AuthorizeOK, CheckRoleOK, ReadIdentityOK, CheckIdentityOK, InsertOK,
   SelectOK, ReplyOK, DecideRequestOK, SendDenialOK, AuthorizeProvisioningOK,
   ClaimOK, CallFailsOK, TimesOutOK, FindUserOK, CreateUserOK,
   UsernameRefusedOK, AddToGroupOK, CreateRecoveryLinkOK, SendCompletionOK, RecordOutcomeOK,
   EditReviewOK, PostReviewOK, SyncFailsOK, RecordReviewOK
   DEF Progress

\* A step that leaves the rows and messages alone and reads at most a row.
ReadsAtMost(t, l) ==
    /\ l.pc # "record"
    /\ \/ l.seen \in {task[t].seen, NoRow}
       \/ \E id \in RequestIds : l.seen = requests[id]

\* A step that leaves the rows and the messages alone keeps the messages
\* well-formed.
LEMMA QuietCards ==
    ASSUME IInv, NEW t \in Tasks, UNCHANGED <<requests, cards>>,
           \E l : Set(t, l) /\ ReadsAtMost(t, l)
    PROVE  CardsOK'
<1>1. PICK l : Set(t, l) /\ ReadsAtMost(t, l)
  OBVIOUS
<1>2. task' = [task EXCEPT ![t] = l] /\ task \in [Tasks -> Task]
  BY <1>1 DEF Set, IInv, TasksOK
<1>3. ASSUME NEW u \in Tasks
      PROVE  /\ task'[u].seen # NoRow /\ task'[u].seen.review # None
                   => cards[task'[u].seen.review] # None
             /\ task'[u].pc = "record" => cards[task'[u].posted] # None
  <2>1. CASE u = t
    BY <1>1, <1>2, <2>1 DEF ReadsAtMost, IInv, CardsOK, Exists
  <2>2. CASE u # t
    BY <1>2, <2>2 DEF IInv, CardsOK, At
  <2> QED
    BY <2>1, <2>2
<1> QED
  BY <1>3 DEF IInv, CardsOK, Exists, At

\* The usual forms of such a step.
LEMMA QuietForms ==
    ASSUME IInv, NEW t \in Tasks,
           \/ Finish(t)
           \/ \E pc \in Points \ {"record"} : Goto(t, pc)
           \/ \E id \in RequestIds, after \in Points :
                Sync(t, id, requests[id], after)
    PROVE  \E l : Set(t, l) /\ ReadsAtMost(t, l)
<1>1. task[t] \in Task
  BY TaskFacts
<1>2. CASE Finish(t)
  BY <1>2 DEF Finish, Idle, ReadsAtMost
<1>3. ASSUME NEW pc \in Points \ {"record"}, Goto(t, pc)
      PROVE  \E l : Set(t, l) /\ ReadsAtMost(t, l)
  <2> DEFINE l == [task[t] EXCEPT !.pc = pc]
  <2>1. l.pc = pc /\ l.seen = task[t].seen
    BY <1>1 DEF Task
  <2> QED
    BY <1>3, <2>1 DEF Goto, ReadsAtMost
<1>4. ASSUME NEW id \in RequestIds, NEW after \in Points,
             Sync(t, id, requests[id], after)
      PROVE  \E l : Set(t, l) /\ ReadsAtMost(t, l)
  <2> DEFINE l == [task[t] EXCEPT !.pc = "review", !.request = id,
                                  !.seen = requests[id], !.after = after]
  <2>1. l.pc = "review" /\ l.seen = requests[id]
    BY <1>1 DEF Task
  <2> QED
    BY <1>4, <2>1 DEF Sync, ReadsAtMost
<1> QED
  BY <1>2, <1>3, <1>4

\* The actions that leave the rows and messages alone.
QuietAction(t) ==
    \/ Start(t) \/ Abort(t)
    \/ Authorize(t) \/ CheckRole(t) \/ ReadIdentity(t) \/ CheckIdentity(t)
    \/ Select(t) \/ Reply(t) \/ SendDenial(t) \/ AuthorizeProvisioning(t)
    \/ CallFails(t) \/ TimesOut(t) \/ FindUser(t) \/ UsernameRefused(t)
    \/ CreateRecoveryLink(t) \/ SyncFails(t)
    \/ \E a \in Accounts, lost \in BOOLEAN : CreateUser(t, a, lost)
    \/ \E lost \in BOOLEAN : AddToGroup(t, lost) \/ SendCompletion(t, lost)

\* The actions that neither commit a transaction nor touch a message.
LEMMA QuietActions ==
    ASSUME IInv, NEW t \in Tasks, QuietAction(t)
    PROVE  CardsOK'
<1> DEFINE Reads == \E l : Set(t, l) /\ ReadsAtMost(t, l)
<1>1. UNCHANGED <<requests, cards>>
  BY DEF QuietAction, Start, CallOnboard, CallOn, Click, Begin, Abort, Authorize,
         CheckRole, ReadIdentity, CheckIdentity, Select, Reply, SendDenial,
         AuthorizeProvisioning, CallFails, TimesOut, FindUser,
         UsernameRefused, CreateRecoveryLink, SyncFails, CreateUser,
         AddToGroup, SendCompletion
<1>2. task[t] \in Task /\ LocalOK(task[t], requests)
  BY TaskFacts
<1>3. ASSUME Start(t) PROVE Reads
  <2>1. PICK kind, actor, user, target, id :
            Begin(t, kind, actor, user, target, id)
    BY <1>3 DEF Start, CallOnboard, CallOn, Click
  <2> DEFINE l == [Idle EXCEPT !.pc = "authorize", !.kind = kind,
                               !.actor = actor, !.user = user,
                               !.target = target, !.request = id]
  <2>2. l.pc = "authorize" /\ l.seen = NoRow
    BY DEF Idle
  <2> QED
    BY <2>1, <2>2 DEF Begin, ReadsAtMost
<1>4. ASSUME \/ Abort(t) \/ CheckRole(t) \/ CheckIdentity(t) \/ Reply(t)
             \/ SendDenial(t) \/ AuthorizeProvisioning(t) \/ CallFails(t)
             \/ TimesOut(t) \/ UsernameRefused(t) \/ CreateRecoveryLink(t)
      PROVE  Reads
  <2>1. Finish(t) \/ \E pc \in Points \ {"record"} : Goto(t, pc)
    BY <1>4 DEF Abort, CheckRole, CheckIdentity, Reply, SendDenial,
                AuthorizeProvisioning, CallFails, TimesOut, UsernameRefused,
                CreateRecoveryLink, Points
  <2> QED
    BY <2>1, QuietForms
<1>5. ASSUME Authorize(t) PROVE Reads
  <2>1. task[t].kind = "status" => task[t].request \in RequestIds
    BY <1>2, <1>5 DEF Authorize, At, LocalOK, NamedOK, Named
  <2>2. CASE \/ Finish(t)
             \/ Goto(t, "role") \/ Goto(t, "decide") \/ Goto(t, "provision")
    BY <2>2, QuietForms DEF Points
  <2>3. CASE /\ task[t].kind = "status"
             /\ Sync(t, task[t].request, RowOf(t), "idle")
    BY <2>1, <2>3, QuietForms DEF RowOf, Points
  <2>4. task[t].kind \in Kinds
    BY <1>2, <1>5 DEF Authorize, At, LocalOK, CallerOK
  <2> QED
    BY <1>5, <2>2, <2>3, <2>4 DEF Authorize, Kinds
<1>6. ASSUME ReadIdentity(t) PROVE Reads
  <2>1. CASE Finish(t)
    BY <2>1, QuietForms
  <2>2. CASE Set(t, [task[t] EXCEPT !.pc = "insert",
                                    !.identity = identity[task[t].user]])
    <3> DEFINE l == [task[t] EXCEPT !.pc = "insert",
                                    !.identity = identity[task[t].user]]
    <3>1. l.pc = "insert" /\ l.seen = task[t].seen
      BY <1>2 DEF Task
    <3> QED
      BY <2>2, <3>1 DEF ReadsAtMost
  <2> QED
    BY <1>6, <2>1, <2>2 DEF ReadIdentity
<1>7. ASSUME Select(t) PROVE Reads
  BY <1>7, QuietForms DEF Select, Conflicts, Points
<1>8. ASSUME SyncFails(t) PROVE Reads
  <2>1. task[t].after \in Points \ {"record"}
    BY <1>2, <1>8 DEF SyncFails, At, LocalOK, SyncOK, Syncing, Points
  <2> QED
    BY <1>8, <2>1, QuietForms DEF SyncFails, Resume, Finish
<1>9. ASSUME FindUser(t) PROVE Reads
  <2>1. CASE Goto(t, "create")
    BY <2>1, QuietForms DEF Points
  <2>2. ASSUME NEW a, Set(t, [task[t] EXCEPT !.pc = "group", !.account = a])
        PROVE  Reads
    <3> DEFINE l == [task[t] EXCEPT !.pc = "group", !.account = a]
    <3>1. l.pc = "group" /\ l.seen = task[t].seen
      BY <1>2 DEF Task
    <3> QED
      BY <2>2, <3>1 DEF ReadsAtMost
  <2> QED
    BY <1>9, <2>1, <2>2 DEF FindUser
<1>10. ASSUME NEW l \in Task, NEW lost \in BOOLEAN, Answered(t, lost, l),
              l.pc # "record", l.seen = task[t].seen
       PROVE  Reads
  <2> DEFINE new == [l EXCEPT !.pc = IF lost THEN "fail" ELSE @]
  <2>1. new.pc # "record" /\ new.seen = task[t].seen
    BY <1>10 DEF Task
  <2> QED
    BY <1>10, <2>1 DEF Answered, ReadsAtMost
<1>11. ASSUME NEW a \in Accounts, NEW lost \in BOOLEAN, CreateUser(t, a, lost)
       PROVE  Reads
  <2> DEFINE l1 == [task[t] EXCEPT !.pc = "group"]
             l2 == [l1 EXCEPT !.account = a]
  <2>1. l1 \in Task
    BY <1>2, OneField DEF Points
  <2>2. l2 \in Task
    BY <2>1, OneField
  <2>3. l2.pc = "group" /\ l2.seen = task[t].seen
    BY <1>2 DEF Task
  <2> QED
    BY <1>10, <1>11, <2>2, <2>3 DEF CreateUser
<1>12. ASSUME NEW lost \in BOOLEAN, AddToGroup(t, lost) \/ SendCompletion(t, lost)
       PROVE  Reads
  <2>1. PICK pc \in {"link", "complete"} :
            Answered(t, lost, [task[t] EXCEPT !.pc = pc])
    BY <1>12 DEF AddToGroup, SendCompletion
  <2> DEFINE l == [task[t] EXCEPT !.pc = pc]
  <2>2. l \in Task
    BY <1>2, OneField DEF Points
  <2>3. l.pc = pc /\ l.seen = task[t].seen
    BY <1>2 DEF Task
  <2> QED
    BY <1>10, <2>1, <2>2, <2>3
<1> QED
  BY <1>1, <1>3, <1>4, <1>5, <1>6, <1>7, <1>8, <1>9, <1>11, <1>12, QuietCards
     DEF QuietAction

\* A transaction that does not touch the column, of a task that keeps the row
\* it returns.
LEMMA TransactionCards ==
    ASSUME IInv, NEW t \in Tasks, UNCHANGED cards,
           NEW id \in RequestIds, NEW row, NEW event, Commit(id, row, event),
           row.review = None \/ (Exists(id) /\ row.review = requests[id].review),
           NEW after, after \in Points, Sync(t, id, requests'[id], after)
    PROVE  CardsOK'
<1>1. requests' = [requests EXCEPT ![id] = row] /\ requests'[id] = row
  BY DEF Commit, IInv, RepoTypeOK
<1>2. ASSUME NEW other \in RequestIds, requests'[other] # NoRow,
             requests'[other].review # None
      PROVE  cards[requests'[other].review] # None
  BY <1>1, <1>2 DEF IInv, CardsOK, Exists, RepoTypeOK
<1>3. ASSUME NEW u \in Tasks
      PROVE  /\ task'[u].seen # NoRow /\ task'[u].seen.review # None
                   => cards[task'[u].seen.review] # None
             /\ task'[u].pc = "record" => cards[task'[u].posted] # None
  <2>1. CASE u = t
    <3>1. task'[t].pc = "review" /\ task'[t].seen = requests'[id]
      BY TaskFacts DEF Sync, Set, IInv, TasksOK, Task
    <3> QED
      BY <1>2, <2>1, <3>1
  <2>2. CASE u # t
    BY <2>2 DEF Sync, Set, IInv, TasksOK, CardsOK, At
  <2> QED
    BY <2>1, <2>2
<1> QED
  BY <1>2, <1>3 DEF CardsOK, Exists, At

\* The row in the table stays, and the handler goes on with it or ends.
LEMMA RefusedCards ==
    ASSUME IInv, NEW t \in Tasks, UNCHANGED <<requests, cards>>,
           \/ Finish(t)
           \/ \E pc \in Points \ {"record"} : Goto(t, pc)
           \/ \E id \in RequestIds, after \in Points :
                Sync(t, id, requests'[id], after)
    PROVE  CardsOK'
BY QuietForms, QuietCards

\* The actions that commit a transaction and touch no message.
LEMMA TransactionActions ==
    ASSUME IInv, NEW t \in Tasks,
           Insert(t) \/ DecideRequest(t) \/ Claim(t) \/ RecordOutcome(t)
    PROVE  CardsOK'
<1> DEFINE id == task[t].request
<1>1. ASSUME Insert(t) PROVE CardsOK'
  <2>1. CASE Goto(t, "select") /\ UNCHANGED repoVars
    BY <1>1, <2>1, RefusedCards DEF Insert, repoVars, Points
  <2>2. ASSUME NEW new \in RequestIds,
               StartRequest(new, task[t].user, task[t].target, task[t].actor,
                            task[t].identity),
               Sync(t, new, requests'[new], "reply")
        PROVE  CardsOK'
    BY <1>1, <2>2, TransactionCards DEF Insert, StartRequest, NewRow, Points
  <2> QED
    BY <1>1, <2>1, <2>2 DEF Insert
<1>2. ASSUME DecideRequest(t) PROVE CardsOK'
  <2>1. id \in RequestIds /\ Exists(id) /\ requests[id] \in Row
    BY <1>2, NamedFacts DEF DecideRequest, At, NamedPoints
  <2>2. CASE Sync(t, id, requests[id], "idle") /\ UNCHANGED repoVars
    BY <1>2, <2>1, <2>2, RefusedCards DEF DecideRequest, repoVars, Points
  <2>3. ASSUME NEW decision, Decide(id, task[t].actor, decision),
               NEW after \in Points, Sync(t, id, requests'[id], after)
        PROVE  CardsOK'
    <3>1. Decided(requests[id], task[t].actor, decision).review
            = requests[id].review
      BY <2>1 DEF Decided, Row
    <3> QED
      BY <1>2, <2>1, <2>3, <3>1, TransactionCards DEF DecideRequest, Decide
  <2> QED
    BY <1>2, <2>2, <2>3 DEF DecideRequest, Approve, Deny, Points
<1>3. ASSUME Claim(t) PROVE CardsOK'
  <2>1. id \in RequestIds /\ Exists(id) /\ requests[id] \in Row
    BY <1>3, NamedFacts DEF Claim, At, NamedPoints
  <2>2. CASE Finish(t) /\ UNCHANGED repoVars
    BY <1>3, <2>2, RefusedCards DEF Claim, repoVars
  <2>3. CASE /\ ClaimProvisioning(id, task[t].actor)
             /\ Sync(t, id, requests'[id], "account")
    <3>1. Claimed(requests[id]).review = requests[id].review
      BY <2>1 DEF Claimed, Row
    <3> QED
      BY <1>3, <2>1, <2>3, <3>1, TransactionCards
         DEF Claim, ClaimProvisioning, Points
  <2> QED
    BY <1>3, <2>2, <2>3 DEF Claim
<1>4. ASSUME RecordOutcome(t) PROVE CardsOK'
  <2>1. id \in RequestIds /\ Exists(id) /\ requests[id] \in Row
    BY <1>4, NamedFacts DEF RecordOutcome, At, NamedPoints, Holding
  <2>2. CASE Finish(t) /\ UNCHANGED repoVars
    BY <1>4, <2>2, RefusedCards DEF RecordOutcome, repoVars
  <2>3. CASE /\ MarkCompleted(id, task[t].account, Attempt(t))
             /\ Sync(t, id, requests'[id], "idle")
    <3>1. Completed(requests[id], task[t].account).review = requests[id].review
      BY <2>1 DEF Completed, Row
    <3> QED
      BY <1>4, <2>1, <2>3, <3>1, TransactionCards
         DEF RecordOutcome, MarkCompleted, Points
  <2>4. CASE /\ MarkFailed(id, Attempt(t))
             /\ Sync(t, id, requests'[id], "idle")
    <3>1. Failed(requests[id]).review = requests[id].review
      BY <2>1 DEF Failed, Row
    <3> QED
      BY <1>4, <2>1, <2>4, <3>1, TransactionCards
         DEF RecordOutcome, MarkFailed, Points
  <2> QED
    BY <1>4, <2>2, <2>3, <2>4 DEF RecordOutcome
<1> QED
  BY <1>1, <1>2, <1>3, <1>4

\* Messages are posted and edited, never taken away.
LEMMA ReviewActions ==
    ASSUME IInv, NEW t \in Tasks,
           \/ EditReview(t) \/ RecordReview(t)
           \/ \E message \in Messages : PostReview(t, message)
    PROVE  CardsOK'
<1>1. task[t] \in Task /\ LocalOK(task[t], requests) /\ task \in [Tasks -> Task]
  BY TaskFacts DEF IInv, TasksOK
<1>2. ASSUME UNCHANGED requests,
             \A m \in Messages : cards[m] # None => cards'[m] # None,
             NEW l, Set(t, l), l.seen \in {task[t].seen, NoRow},
             l.pc = "record" => cards'[l.posted] # None
      PROVE  CardsOK'
  <2>1. ASSUME NEW u \in Tasks
        PROVE  /\ task'[u].seen # NoRow /\ task'[u].seen.review # None
                     => cards'[task'[u].seen.review] # None
               /\ task'[u].pc = "record" => cards'[task'[u].posted] # None
    <3>1. task[u] \in Task /\ LocalOK(task[u], requests)
      BY TaskFacts
    <3>2. /\ task[u].seen # NoRow => task[u].seen.review \in Messages \cup {None}
          /\ task[u].pc = "record" => task[u].posted \in Messages
      BY <3>1 DEF Task, Row, LocalOK, DataOK
    <3>3. CASE u = t
      BY <1>1, <1>2, <3>2, <3>3 DEF Set, IInv, CardsOK
    <3>4. CASE u # t
      BY <1>1, <1>2, <3>2, <3>4 DEF Set, IInv, CardsOK, At
    <3> QED
      BY <3>3, <3>4
  <2>2. \A id \in RequestIds : Exists(id) =>
            requests[id].review \in Messages \cup {None}
    BY ExistingRow DEF IInv, Row
  <2> QED
    BY <1>2, <2>1, <2>2 DEF IInv, CardsOK, Exists, At
<1>3. ASSUME EditReview(t) PROVE CardsOK'
  <2>1. task[t].pc = "review" /\ task[t].seen \in Row /\ UNCHANGED requests
    BY <1>1, <1>3 DEF EditReview, At, LocalOK, DataOK, Syncing
  <2>2. \A m \in Messages : cards[m] # None => cards'[m] # None
    <3>1. CASE UNCHANGED cards
      BY <3>1
    <3>2. CASE ShowsSeen(t)
      <4>1. /\ task[t].seen.review \in Messages
            /\ cards[task[t].seen.review]
                  \in [request : RequestIds, status : Statuses]
            /\ task[t].seen.status \in Statuses
        BY <1>3, <2>1, NullAssumption DEF EditReview, IInv, WorldOK, CardsOK, Row
      <4> QED
        BY <3>2, <4>1, ScenarioAssumption DEF ShowsSeen, IInv, WorldOK
    <3> QED
      BY <1>3, <3>1, <3>2 DEF EditReview
  <2>3. ASSUME NEW pc \in Points \ {"record"}, Goto(t, pc) PROVE CardsOK'
    <3> DEFINE l == [task[t] EXCEPT !.pc = pc]
    <3>1. l.pc # "record" /\ l.seen = task[t].seen
      BY <1>1 DEF Task
    <3> QED
      BY <1>2, <2>1, <2>2, <2>3, <3>1 DEF Goto
  <2>4. CASE Resume(t, task[t].after)
    <3>1. task[t].after \in Points \ {"record"}
      BY <1>1, <2>1 DEF LocalOK, SyncOK, Syncing, Points
    <3>2. CASE task[t].after = "idle"
      BY <1>2, <2>1, <2>2, <2>4, <3>2 DEF Resume, Idle
    <3> QED
      BY <2>3, <2>4, <3>1, <3>2 DEF Resume
  <2> QED
    BY <1>3, <2>3, <2>4 DEF EditReview, Points
<1>4. ASSUME NEW message \in Messages, PostReview(t, message) PROVE CardsOK'
  <2> DEFINE l == [task[t] EXCEPT !.pc = "record", !.posted = message]
  <2>1. l.seen = task[t].seen /\ l.posted = message
    BY <1>1 DEF Task
  <2>2. task[t].request \in RequestIds /\ task[t].seen \in Row
    BY <1>1, <1>4, NamedFacts
       DEF PostReview, At, LocalOK, DataOK, Syncing, NamedPoints
  <2>3. cards'[message] \in [request : RequestIds, status : Statuses]
    BY <1>4, <2>2 DEF PostReview, IInv, WorldOK, Row
  <2>4. cards'[message] # None
    BY <2>3, ScenarioAssumption
  <2>5. \A m \in Messages : cards[m] # None => cards'[m] # None
    BY <1>4, <2>4 DEF PostReview, IInv, WorldOK
  <2> QED
    BY <1>2, <1>4, <2>1, <2>4, <2>5 DEF PostReview
<1>5. ASSUME RecordReview(t) PROVE CardsOK'
  <2> DEFINE id == task[t].request
  <2>1. /\ task[t].pc = "record" /\ task[t].posted \in Messages
        /\ id \in RequestIds /\ Exists(id) /\ requests[id] \in Row
    BY <1>1, <1>5, NamedFacts
       DEF RecordReview, At, LocalOK, DataOK, Syncing, NamedPoints
  <2>2. cards[task[t].posted] # None /\ UNCHANGED cards
    BY <1>5, <2>1 DEF RecordReview, IInv, CardsOK, At
  <2>3. /\ requests'[id].review = task[t].posted
        /\ \A other \in RequestIds \ {id} : requests'[other] = requests[other]
    BY <1>5, <2>1 DEF RecordReview, SetReviewMessage, IInv, RepoTypeOK, Row
  <2>4. \A other \in RequestIds :
            requests'[other] # NoRow /\ requests'[other].review # None
                => cards'[requests'[other].review] # None
    BY <2>2, <2>3 DEF IInv, CardsOK, Exists
  <2>5. \E l : /\ Set(t, l) /\ l.pc # "record"
               /\ l.seen \in {task[t].seen, NoRow, requests'[id]}
    <3>1. CASE task[t].after = "reply"
      <4> DEFINE l == [task[t] EXCEPT !.pc = "reply", !.seen = requests'[id]]
      <4>1. l.pc = "reply" /\ l.seen = requests'[id]
        BY <1>1 DEF Task
      <4> QED
        BY <1>5, <3>1, <4>1 DEF RecordReview
    <3>2. CASE task[t].after # "reply" /\ task[t].after = "idle"
      BY <1>5, <3>2 DEF RecordReview, Resume, Idle
    <3>3. CASE task[t].after # "reply" /\ task[t].after # "idle"
      <4> DEFINE l == [task[t] EXCEPT !.pc = task[t].after]
      <4>1. l.pc # "record" /\ l.seen = task[t].seen
        BY <1>1, <2>1 DEF Task, LocalOK, SyncOK, Syncing
      <4> QED
        BY <1>5, <3>3, <4>1 DEF RecordReview, Resume, Goto
    <3> QED
      BY <3>1, <3>2, <3>3
  <2>6. ASSUME NEW u \in Tasks
        PROVE  /\ task'[u].seen # NoRow /\ task'[u].seen.review # None
                     => cards'[task'[u].seen.review] # None
               /\ task'[u].pc = "record" => cards'[task'[u].posted] # None
    <3>1. CASE u = t
      BY <1>1, <2>1, <2>2, <2>4, <2>5, <3>1 DEF Set, IInv, CardsOK
    <3>2. CASE u # t
      BY <1>1, <2>2, <2>5, <3>2 DEF Set, IInv, CardsOK, At
    <3> QED
      BY <3>1, <3>2
  <2> QED
    BY <2>4, <2>6 DEF CardsOK, Exists, At
<1> QED
  BY <1>3, <1>4, <1>5

\* Every step of a handler keeps the messages well-formed.
LEMMA CardsStep ==
    ASSUME IInv, NEW t \in Tasks, Start(t) \/ Progress(t) \/ Abort(t)
    PROVE  CardsOK'
BY QuietActions, TransactionActions, ReviewActions DEF Progress, QuietAction

\* Time, people and late requests change neither tasks nor, but for a lease,
\* rows.
LEMMA EnvironmentOK ==
    ASSUME IInv, Environment
    PROVE  [RepoNext]_repoVars /\ IInv'
<1>1. ASSUME NEW id \in RequestIds, TimePasses(id)
      PROVE  [RepoNext]_repoVars /\ IInv'
  <2>1. RepoNext
    BY <1>1 DEF TimePasses, RepoNext
  <2>2. RepoTypeOK'
    BY <2>1, TypeStep DEF IInv
  <2>3. \A other \in RequestIds :
            requests[other] # NoRow => requests'[other] # NoRow
    BY <2>1, RowEvolution DEF IInv, Exists
  <2>4. TasksOK'
    BY <1>1, <2>3 DEF TimePasses, IInv, TasksOK, LocalOK, NamedOK, Named
  <2>5. /\ requests'[id].review = requests[id].review
        /\ \A other \in RequestIds \ {id} : requests'[other] = requests[other]
    BY <1>1, LeaseStepEffect DEF TimePasses, LeaseExpires, IInv, RepoTypeOK
  <2>6. Exists(id)
    BY <1>1 DEF TimePasses, LeaseExpires
  <2>7. CardsOK'
    BY <1>1, <2>5, <2>6 DEF TimePasses, IInv, CardsOK, Exists, At
  <2> QED
    BY <1>1, <2>1, <2>2, <2>4, <2>7 DEF TimePasses, IInv, WorldOK, world, authentik
<1>2. ASSUME NEW user \in Users, RoleChanges(user) \/ IdentityChanges(user)
      PROVE  [RepoNext]_repoVars /\ IInv'
  BY <1>2 DEF RoleChanges, IdentityChanges, IInv, RepoTypeOK, WorldOK, TasksOK,
              CardsOK, Exists, At,
              authentik, repoVars
<1>3. ASSUME NEW actor \in Actors, NEW target \in Targets,
             OfficerChanges(actor, target)
      PROVE  [RepoNext]_repoVars /\ IInv'
  BY <1>3 DEF OfficerChanges, IInv, RepoTypeOK, WorldOK, TasksOK, CardsOK,
              Exists, At, authentik, repoVars
<1>4. ASSUME NEW email \in lateUsers, LateUser(email)
      PROVE  [RepoNext]_repoVars /\ IInv'
  BY <1>4 DEF LateUser, IInv, RepoTypeOK, WorldOK, TasksOK, CardsOK, Exists,
              At, world, repoVars
<1>5. ASSUME NEW m \in lateMembers, LateMember(m)
      PROVE  [RepoNext]_repoVars /\ IInv'
  BY <1>5 DEF LateMember, IInv, RepoTypeOK, WorldOK, TasksOK, CardsOK, Exists,
              At, world, repoVars
<1> QED
  BY <1>1, <1>2, <1>3, <1>4, <1>5 DEF Environment

\* The invariant holds at first and after every step, and every step is a
\* transaction of the repository or leaves its tables alone.
LEMMA InvInit == Init => IInv /\ RepoInit
BY IdleOK, BoundsAssumption, ScenarioAssumption
   DEF Init, RepoInit, IInv, RepoTypeOK, WorldOK, TasksOK, CardsOK, Exists, At,
       Idle

\* The invariant is inductive, and every step is a transaction or leaves the
\* tables alone.
LEMMA InvStep == IInv /\ [Next]_vars => IInv' /\ [RepoNext]_repoVars
<1> SUFFICES ASSUME IInv, [Next]_vars PROVE IInv' /\ [RepoNext]_repoVars
  OBVIOUS
<1>1. ASSUME NEW t \in Tasks, Start(t) \/ Progress(t) \/ Abort(t)
      PROVE  IInv' /\ [RepoNext]_repoVars
  <2>1. GoodStep(t)
    BY <1>1, StartOK, ProgressOK, AbortOK
  <2> QED
    BY <1>1, <2>1, OthersKeep, CardsStep DEF GoodStep, IInv
<1>2. CASE Environment
  BY <1>2, EnvironmentOK
<1>3. CASE UNCHANGED vars
  BY <1>3 DEF vars, IInv, RepoTypeOK, WorldOK, TasksOK, CardsOK, Exists, At,
              repoVars
<1> QED
  BY <1>1, <1>2, <1>3 DEF Next

\* The invariant holds in every reachable state.
LEMMA Invariance == Spec => []IInv
<1> QED
  BY InvInit, InvStep, PTL DEF Spec

(***************************************************************************)
(* The tasks, the tables and the other systems keep their types, for any   *)
(* number of tasks, officers, requests and targets.                        *)
(***************************************************************************)
THEOREM TypeCorrect == Spec => []TypeOK
<1>1. IInv => TypeOK
  BY DEF IInv, TasksOK, WorldOK, TypeOK
<1> QED
  BY <1>1, Invariance, PTL

(***************************************************************************)
(* However the handlers interleave, what they do to the tables is a        *)
(* behaviour of the repository.                                            *)
(***************************************************************************)
THEOREM HandlersUseTransactions == Spec => RepoSpec
<1> QED
  BY InvInit, InvStep, Invariance, PTL DEF Spec, RepoSpec

(***************************************************************************)
(* So the handlers inherit what the transactions guarantee: one request    *)
(* per user and target that is not denied ...                              *)
(***************************************************************************)
THEOREM HandlersKeepOneActiveRequest == Spec => []OneActiveRequest
BY HandlersUseTransactions, OneActiveRequestHolds, PTL

(***************************************************************************)
(* ... decisions that nobody reverses ...                                  *)
(***************************************************************************)
THEOREM HandlersKeepDecisions == Spec => DecisionIsFinal
BY HandlersUseTransactions, DecisionIsFinalHolds, PTL

(***************************************************************************)
(* ... and a history that tells what became of each request.               *)
(***************************************************************************)
THEOREM HandlersKeepHistory == Spec => []AuditReconstructsRow
BY HandlersUseTransactions, AuditReconstructsRowHolds, PTL

=============================================================================
