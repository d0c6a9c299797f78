------------------------- MODULE OnboardingWorkProofs -------------------------
(***************************************************************************)
(* What the handlers achieve, for any number of overlapping tasks: who is  *)
(* given access, what a completion means, what members are told and what   *)
(* the review messages show.                                               *)
(*                                                                         *)
(* The invariant says of each task what it may rely on between two awaits: *)
(* the request it names, the decision it works under, the attempt it       *)
(* holds, and what its calls to Authentik and Discord have achieved.       *)
(***************************************************************************)
EXTENDS OnboardingProofs

\* The attempt in hand is the row's and open, or a later one fences it off.
Fence(l, rows) ==
    LET row == rows[l.request] IN
    \/ row.attempts > l.seen.attempts
    \/ row.attempts = l.seen.attempts /\ row.status = "provisioning"

Denying(l) == l.pc = "denial" \/ (l.pc \in Syncing /\ l.after = "denial")

OwnRow(l, rows) ==
    l.request # None =>
        rows[l.request] # NoRow /\ rows[l.request].target = l.target

Licence(l, rows) ==
    /\ Holds(l) => /\ Decision(rows[l.request]) = "approved"
                   /\ l.seen.identity = rows[l.request].identity
                   /\ Fence(l, rows)
    /\ Denying(l) => rows[l.request].status = "denied"

Deeds(l, accs, mems, msgs) ==
    /\ l.pc \in {"group", "link", "dm", "complete"}
         => accs[l.account] = l.seen.identity.email
    /\ l.pc \in {"link", "dm", "complete"} => <<l.account, l.target>> \in mems
    /\ l.pc = "complete" => <<l.request, "completed", l.seen.attempts>> \in msgs

Worker(l, rows, accs, mems, msgs) ==
    OwnRow(l, rows) /\ Licence(l, rows) /\ Deeds(l, accs, mems, msgs)

WorkersOK ==
    \A t \in Tasks : Worker(task[t], requests, accounts, members, dms)

\* What members were told names a request that was decided that way.
ToldOK ==
    \A id \in RequestIds, n \in 0..MaxAttempts :
        /\ <<id, "denied", n>> \in dms
             => Exists(id) /\ requests[id].status = "denied"
        /\ <<id, "completed", n>> \in dms
             => Exists(id) /\ Decision(requests[id]) = "approved"

\* An approved request of that address for that target.
Covered(a, target) ==
    \E id \in RequestIds :
        /\ Exists(id)
        /\ requests[id].target = target
        /\ requests[id].identity.email = accounts[a]
        /\ Decision(requests[id]) = "approved"

\* Access that Authentik may still give is covered already.
LateOK ==
    \A a \in Accounts, target \in Targets :
        <<a, target>> \in lateMembers => Covered(a, target)

(***************************************************************************)
(* The inductive invariant of the handlers' work, on top of IInv.          *)
(***************************************************************************)
WorkInv ==
    /\ WorkersOK
    /\ AttemptsAreExclusive
    /\ UsernamesDiffer
    /\ AccessNeedsApproval
    /\ CompletedMeansProvisioned
    /\ ToldOK
    /\ LateOK

\* The status s is one that the request has had.
HasHad(s, history) ==
    \E i \in 1..Len(history) : StatusAfter(history[i].type) = s

\* A task's row is of its request, and so are the messages it has in hand.
Shower(l, histories, msgs) ==
    /\ l.pc \in Syncing =>
         /\ HasHad(l.seen.status, histories[l.request])
         /\ l.seen.review # None => msgs[l.seen.review].request = l.request
    /\ l.pc = "record" => msgs[l.posted].request = l.request

(***************************************************************************)
(* The inductive invariant of the review messages.                         *)
(***************************************************************************)
ShowInv ==
    /\ \A t \in Tasks : Shower(task[t], audit, cards)
    /\ \A id \in RequestIds :
          Exists(id) /\ requests[id].review # None
             => cards[requests[id].review].request = id
    /\ CardsShowHistory

-----------------------------------------------------------------------------

\* How a row may change in one step, as far as tasks rely on it.
RowGrows(old, new) ==
    old # NoRow =>
        /\ new # NoRow
        /\ new.target = old.target
        /\ new.identity = old.identity
        /\ Decision(old) = "approved" => Decision(new) = "approved"
        /\ old.status = "denied" => new.status = "denied"
        /\ old.status = "completed" => /\ new.status = "completed"
                                       /\ new.account = old.account
                                       /\ new.attempts = old.attempts

\* Every transaction, and the passing of time, changes rows in this way.
LEMMA RowsGrow ==
    ASSUME RepoTypeOK, SchemaChecks, [RepoNext]_repoVars, NEW id \in RequestIds
    PROVE  RowGrows(requests[id], requests'[id])
<1> SUFFICES ASSUME Exists(id) PROVE RowGrows(requests[id], requests'[id])
  BY DEF RowGrows, Exists
<1>1. /\ requests'[id] # NoRow
      /\ SameKey(requests[id], requests'[id])
      /\ ~StartStep(id)
      /\ RowChecks(requests[id])
  BY RowEvolution DEF Exists, StartStep, StartRequest, SchemaChecks
<1> QED
  BY <1>1, Locality, DecideStepEffect, ClaimStepEffect, CompleteStepEffect,
     FailStepEffect, ReviewStepEffect, LeaseStepEffect
     DEF RowGrows, Decision, RowChecks, SameKey, DecideEffect, ClaimEffect,
         OutcomeEffect, SameWorkflow

\* Only an outcome ends an attempt without a new one.
FenceKept(old, new) ==
    \/ new.attempts > old.attempts
    \/ /\ new.attempts = old.attempts
       /\ old.status = "provisioning" => new.status = "provisioning"

\* All transactions but the recording of an outcome keep the fence.
LEMMA FencesKept ==
    ASSUME RepoTypeOK, [RepoNext]_repoVars, NEW id \in RequestIds, Exists(id),
           ~CompleteStep(id), ~FailStep(id)
    PROVE  FenceKept(requests[id], requests'[id])
<1>1. requests[id] \in Row /\ ~StartStep(id)
  BY ExistingRow DEF StartStep, StartRequest
<1>2. requests[id].attempts \in Nat
  BY <1>1, BoundsAssumption DEF Row
<1> QED
  BY <1>1, <1>2, Locality, DecideStepEffect, ClaimStepEffect,
     ReviewStepEffect, LeaseStepEffect
     DEF FenceKept, DecideEffect, ClaimEffect, SameWorkflow

\* An outcome leaves the counter of its row alone.
LEMMA OutcomeKeepsAttempts ==
    ASSUME RepoTypeOK, NEW id \in RequestIds, CompleteStep(id) \/ FailStep(id)
    PROVE  requests'[id].attempts = requests[id].attempts
BY CompleteStepEffect, FailStepEffect DEF OutcomeEffect

\* Authentik and Discord only gain accounts, members and messages.
WorldGrows ==
    /\ \A a \in Accounts : accounts[a] # None => accounts'[a] = accounts[a]
    /\ members \subseteq members'
    /\ dms \subseteq dms'

\* A task that serves nothing relies on nothing.
LEMMA IdleWorker ==
    \A rows, accs, mems, msgs : Worker(Idle, rows, accs, mems, msgs)
BY DEF Worker, OwnRow, Licence, Deeds, Denying, Idle, Holds, Holding, Syncing

\* What a task at work relies on.
LEMMA WorkerFacts ==
    ASSUME IInv, WorkersOK, NEW t \in Tasks
    PROVE  /\ task[t] \in Task
           /\ OwnRow(task[t], requests)
           /\ Licence(task[t], requests)
           /\ Deeds(task[t], accounts, members, dms)
           /\ Holds(task[t]) \/ Denying(task[t]) =>
                /\ task[t].request \in RequestIds
                /\ task[t].request # None
                /\ Exists(task[t].request)
                /\ requests[task[t].request] \in Row
                /\ task[t].target = requests[task[t].request].target
           /\ Holds(task[t]) =>
                /\ task[t].seen \in Row
                /\ task[t].seen.attempts \in Nat
                /\ task[t].seen.identity.email \in Emails
<1>1. /\ task[t] \in Task /\ LocalOK(task[t], requests)
      /\ Worker(task[t], requests, accounts, members, dms)
  BY TaskFacts DEF WorkersOK
<1>2. ASSUME Holds(task[t]) \/ Denying(task[t])
      PROVE  /\ task[t].request \in RequestIds
             /\ task[t].request # None
             /\ Exists(task[t].request)
             /\ requests[task[t].request] \in Row
             /\ task[t].target = requests[task[t].request].target
  <2>1. task[t].pc \in NamedPoints
    BY <1>2 DEF Holds, Denying, NamedPoints, Holding, Syncing
  <2> QED
    BY <1>1, <2>1, NamedFacts, ScenarioAssumption DEF Worker, OwnRow
<1>3. ASSUME Holds(task[t])
      PROVE  /\ task[t].seen \in Row
             /\ task[t].seen.attempts \in Nat
             /\ task[t].seen.identity.email \in Emails
  <2>1. task[t].seen \in Row
    BY <1>1, <1>3 DEF LocalOK, DataOK, Holds, Holding, Syncing
  <2> QED
    BY <2>1, IdentityAssumption, BoundsAssumption DEF Row
<1> QED
  BY <1>1, <1>2, <1>3 DEF Worker

\* A task that does not move keeps what it relies on.
LEMMA WorkerStays ==
    ASSUME IInv, WorkersOK, SchemaChecks, [RepoNext]_repoVars, WorldGrows,
           NEW t \in Tasks, Holds(task[t]) => Fence(task[t], requests')
    PROVE  Worker(task[t], requests', accounts', members', dms')
<1> DEFINE id == task[t].request
<1>1. /\ task[t] \in Task /\ OwnRow(task[t], requests)
      /\ Licence(task[t], requests) /\ Deeds(task[t], accounts, members, dms)
  BY WorkerFacts
<1>2. id # None => id \in RequestIds /\ RowGrows(requests[id], requests'[id])
  BY <1>1, RowsGrow DEF Task, IInv
<1>3. OwnRow(task[t], requests')
  BY <1>1, <1>2 DEF OwnRow, RowGrows
<1>4. Licence(task[t], requests')
  BY <1>1, <1>2, WorkerFacts DEF Licence, RowGrows, Exists
<1>5. Deeds(task[t], accounts', members', dms')
  <2>1. task[t].pc \in {"group", "link", "dm", "complete"} =>
            /\ task[t].account \in Accounts
            /\ accounts[task[t].account] # None
    BY <1>1, TaskFacts, WorkerFacts, ScenarioAssumption
       DEF Deeds, LocalOK, DataOK, Holds, Holding
  <2> QED
    BY <1>1, <2>1 DEF Deeds, WorldGrows
<1> QED
  BY <1>3, <1>4, <1>5 DEF Worker

-----------------------------------------------------------------------------

\* A task goes on with the attempt it holds, or holds none.
Carries(t, l) ==
    Holds(l) => /\ Holds(task[t])
                /\ l.request = task[t].request
                /\ l.seen.attempts = task[t].seen.attempts

\* No other task holds the attempt.
Fresh(t, l) ==
    \A u \in Tasks \ {t} :
        Holds(task[u]) /\ task[u].request = l.request
            => task[u].seen.attempts # l.seen.attempts

\* The step of a task, as far as the tasks are concerned.
GoodWork(t) ==
    /\ WorldGrows
    /\ \E l : /\ Set(t, l)
              /\ Worker(l, requests', accounts', members', dms')
              /\ Carries(t, l) \/ Fresh(t, l)
    /\ \A u \in Tasks \ {t} : Holds(task[u]) => Fence(task[u], requests')

\* Such a step keeps every task's ground and the attempts apart.
LEMMA WorkersStep ==
    ASSUME IInv, WorkersOK, AttemptsAreExclusive, SchemaChecks,
           [RepoNext]_repoVars, NEW t \in Tasks, GoodWork(t)
    PROVE  WorkersOK' /\ AttemptsAreExclusive'
<1>1. PICK l : /\ Set(t, l)
               /\ Worker(l, requests', accounts', members', dms')
               /\ Carries(t, l) \/ Fresh(t, l)
  BY DEF GoodWork
<1>2. /\ task'[t] = l
      /\ \A u \in Tasks \ {t} : task'[u] = task[u]
  BY <1>1 DEF Set, IInv, TasksOK
<1>3. WorkersOK'
  <2> SUFFICES ASSUME NEW u \in Tasks
               PROVE  Worker(task'[u], requests', accounts', members', dms')
    BY DEF WorkersOK
  <2>1. CASE u = t
    BY <1>1, <1>2, <2>1
  <2>2. CASE u # t
    BY <1>2, <2>2, WorkerStays DEF GoodWork
  <2> QED
    BY <2>1, <2>2
<1>4. AttemptsAreExclusive'
  <2> SUFFICES ASSUME NEW v \in Tasks, NEW w \in Tasks,
                      Holds(task'[v]), Holds(task'[w]),
                      task'[v].request = task'[w].request,
                      task'[v].seen.attempts = task'[w].seen.attempts
               PROVE  v = w
    BY DEF AttemptsAreExclusive, Working, Attempt, Holds, Holding, Syncing
  <2>1. \A a, b \in Tasks :
            /\ Holds(task[a]) /\ Holds(task[b])
            /\ task[a].request = task[b].request
            /\ task[a].seen.attempts = task[b].seen.attempts
            => a = b
    BY DEF AttemptsAreExclusive, Working, Attempt, Holds, Holding, Syncing
  <2>2. CASE v # t /\ w # t
    BY <1>2, <2>1, <2>2
  <2>3. CASE v = t /\ w # t
    BY <1>1, <1>2, <2>1, <2>3 DEF Carries, Fresh
  <2>4. CASE v # t /\ w = t
    BY <1>1, <1>2, <2>1, <2>4 DEF Carries, Fresh
  <2> QED
    BY <2>2, <2>3, <2>4
<1> QED
  BY <1>3, <1>4

-----------------------------------------------------------------------------

\* What is true of the other systems and the rows together.
Grounds ==
    /\ UsernamesDiffer
    /\ AccessNeedsApproval
    /\ CompletedMeansProvisioned
    /\ ToldOK

\* Access that is covered stays covered, by the same request.
LEMMA CoverStays ==
    ASSUME IInv, SchemaChecks, [RepoNext]_repoVars, WorldGrows,
           NEW a \in Accounts, NEW target \in Targets, Covered(a, target)
    PROVE  Covered(a, target)'
<1>1. PICK id \in RequestIds :
              /\ Exists(id)
              /\ requests[id].target = target
              /\ requests[id].identity.email = accounts[a]
              /\ Decision(requests[id]) = "approved"
  BY DEF Covered
<1>2. accounts[a] # None
  BY <1>1, ExistingRow, IdentityAssumption, ScenarioAssumption DEF IInv, Row
<1>3. RowGrows(requests[id], requests'[id])
  BY RowsGrow DEF IInv
<1> QED
  BY <1>1, <1>2, <1>3 DEF RowGrows, WorldGrows, Exists, Covered

\* So does the access that Authentik may still give.
LEMMA LateStays ==
    ASSUME IInv, SchemaChecks, [RepoNext]_repoVars, WorldGrows, LateOK,
           \A a \in Accounts, target \in Targets :
              <<a, target>> \in lateMembers' \ lateMembers => Covered(a, target)
    PROVE  LateOK'
<1> SUFFICES ASSUME NEW a \in Accounts, NEW target \in Targets,
                    <<a, target>> \in lateMembers'
             PROVE  Covered(a, target)'
  BY DEF LateOK
<1>1. Covered(a, target)
  BY DEF LateOK
<1> QED
  BY <1>1, CoverStays

\* What was said stays true.
LEMMA ToldStays ==
    ASSUME IInv, SchemaChecks, [RepoNext]_repoVars, ToldOK,
           NEW id \in RequestIds, NEW n \in 0..MaxAttempts
    PROVE  /\ <<id, "denied", n>> \in dms
                => requests'[id] # NoRow /\ requests'[id].status = "denied"
           /\ <<id, "completed", n>> \in dms
                => requests'[id] # NoRow /\ Decision(requests'[id]) = "approved"
BY RowsGrow DEF IInv, ToldOK, RowGrows, Exists

\* What a completion means, of one row.
Provisioned(id, row, accs, mems, msgs) ==
    /\ accs[row.account] = row.identity.email
    /\ <<row.account, row.target>> \in mems
    /\ <<id, "completed", row.attempts>> \in msgs

\* A completed request stays provisioned.
LEMMA CompletionStays ==
    ASSUME IInv, SchemaChecks, [RepoNext]_repoVars, WorldGrows,
           CompletedMeansProvisioned, NEW id \in RequestIds, Exists(id),
           requests[id].status = "completed"
    PROVE  Provisioned(id, requests'[id], accounts', members', dms')
<1>1. Provisioned(id, requests[id], accounts, members, dms)
  BY DEF CompletedMeansProvisioned, Provisioned
<1>2. requests[id] \in Row /\ RowChecks(requests[id])
  BY ExistingRow DEF IInv, SchemaChecks
<1>3. requests[id].account \in Accounts
  BY <1>2 DEF Row, RowChecks
<1>4. accounts[requests[id].account] # None
  BY <1>1, <1>2, IdentityAssumption, ScenarioAssumption DEF Provisioned, Row
<1>5. RowGrows(requests[id], requests'[id])
  BY RowsGrow DEF IInv
<1> QED
  BY <1>1, <1>3, <1>4, <1>5 DEF Provisioned, RowGrows, WorldGrows, Exists

\* Only MarkCompleted completes a request.
LEMMA NewlyCompleted ==
    ASSUME RepoTypeOK, [RepoNext]_repoVars, NEW id \in RequestIds,
           requests'[id] # NoRow, requests'[id].status = "completed"
    PROVE  \/ Exists(id) /\ requests[id].status = "completed"
           \/ CompleteStep(id)
<1>1. ASSUME StartStep(id) PROVE FALSE
  <2>1. PICK user, target, actor, person :
            requests'[id] = NewRow(user, target, actor, person)
    BY <1>1, StartStepEffect DEF StartEffect
  <2>2. NewRow(user, target, actor, person).status = "pending"
    BY DEF NewRow
  <2> QED
    BY <2>1, <2>2
<1>2. ASSUME DecideStep(id) \/ ClaimStep(id) \/ FailStep(id) PROVE FALSE
  BY <1>2, DecideStepEffect, ClaimStepEffect, FailStepEffect
     DEF DecideEffect, ClaimEffect, OutcomeEffect
<1>3. ASSUME ReviewStep(id) \/ LeaseExpires(id)
      PROVE  Exists(id) /\ requests[id].status = "completed"
  BY <1>3, ExistsBefore, ReviewStepEffect, LeaseStepEffect DEF SameWorkflow
<1> QED
  BY <1>1, <1>2, <1>3, Locality DEF Exists

\* The pieces of Grounds a step leaves alone; the new ones are up to it.
LEMMA GroundsStep ==
    ASSUME IInv, SchemaChecks, [RepoNext]_repoVars, WorldGrows, Grounds,
           IInv', UsernamesDiffer',
           \A a \in Accounts, target \in Targets :
              <<a, target>> \in members' \ members => Covered(a, target),
           \A id \in RequestIds, n \in 0..MaxAttempts :
              /\ <<id, "denied", n>> \in dms' \ dms =>
                    requests'[id] # NoRow /\ requests'[id].status = "denied"
              /\ <<id, "completed", n>> \in dms' \ dms =>
                    /\ requests'[id] # NoRow
                    /\ Decision(requests'[id]) = "approved",
           \A id \in RequestIds : CompleteStep(id) =>
              Provisioned(id, requests'[id], accounts', members', dms')
    PROVE  Grounds'
<1>1. AccessNeedsApproval'
  <2> SUFFICES ASSUME NEW a \in Accounts, NEW target \in Targets,
                      <<a, target>> \in members'
               PROVE  Covered(a, target)'
    BY DEF AccessNeedsApproval, Covered
  <2>1. Covered(a, target)
    BY DEF Grounds, AccessNeedsApproval, Covered
  <2> QED
    BY <2>1, CoverStays
<1>2. CompletedMeansProvisioned'
  <2> SUFFICES ASSUME NEW id \in RequestIds, requests'[id] # NoRow,
                      requests'[id].status = "completed"
               PROVE  Provisioned(id, requests'[id], accounts', members', dms')
    BY DEF CompletedMeansProvisioned, Exists, Provisioned
  <2> QED
    BY NewlyCompleted, CompletionStays DEF Grounds, IInv
<1>3. ToldOK'
  <2> SUFFICES ASSUME NEW id \in RequestIds, NEW n \in 0..MaxAttempts
               PROVE  /\ <<id, "denied", n>> \in dms' =>
                            /\ requests'[id] # NoRow
                            /\ requests'[id].status = "denied"
                      /\ <<id, "completed", n>> \in dms' =>
                            /\ requests'[id] # NoRow
                            /\ Decision(requests'[id]) = "approved"
    BY DEF ToldOK, Exists
  <2> QED
    BY ToldStays DEF Grounds
<1> QED
  BY <1>1, <1>2, <1>3 DEF Grounds

\* Nothing new, and no completion.
LEMMA GroundsKept ==
    ASSUME IInv, IInv', SchemaChecks, [RepoNext]_repoVars, Grounds,
           UNCHANGED <<accounts, members, dms>>,
           \A id \in RequestIds : ~CompleteStep(id)
    PROVE  WorldGrows /\ Grounds'
<1>1. WorldGrows /\ UsernamesDiffer'
  BY DEF WorldGrows, Grounds, UsernamesDiffer
<1> QED
  BY <1>1, GroundsStep

-----------------------------------------------------------------------------

\* What a step of a task has to show.
WorkGoal(t) == GoodWork(t) /\ Grounds'

\* A step that touches neither the tables nor what the tasks rely on.
LEMMA QuietWork ==
    ASSUME IInv, IInv', WorkInv, SchemaChecks, NEW t \in Tasks,
           UNCHANGED <<requests, audit, reviewAudit, accounts, members, dms>>,
           NEW l, Set(t, l), Carries(t, l),
           Worker(l, requests, accounts, members, dms)
    PROVE  WorkGoal(t)
<1>1. \A id \in RequestIds : ~CompleteStep(id)
  <2> SUFFICES ASSUME NEW id \in RequestIds, CompleteStep(id) PROVE FALSE
    OBVIOUS
  <2>1. requests[id].status = "provisioning" /\ requests'[id].status = "completed"
    BY CompleteStepEffect DEF OutcomeEffect, IInv
  <2> QED
    BY <2>1
<1>2. WorldGrows /\ Grounds'
  BY <1>1, GroundsKept DEF WorkInv, Grounds, repoVars
<1>3. \A u \in Tasks \ {t} : Holds(task[u]) => Fence(task[u], requests')
  BY WorkerFacts DEF WorkInv, Licence
<1> QED
  BY <1>2, <1>3 DEF WorkGoal, GoodWork

\* A task that ends.
LEMMA FinishWork ==
    ASSUME IInv, IInv', WorkInv, SchemaChecks, NEW t \in Tasks, Finish(t),
           UNCHANGED <<requests, audit, reviewAudit, accounts, members, dms>>
    PROVE  WorkGoal(t)
<1>1. Carries(t, Idle)
  BY DEF Carries, Idle, Holds, Holding, Syncing
<1> QED
  BY <1>1, QuietWork, IdleWorker DEF Finish

\* Going on to a point that relies on no more than the last one did.
LEMMA GotoWork ==
    ASSUME IInv, IInv', WorkInv, SchemaChecks, NEW t \in Tasks, NEW pc,
           Goto(t, pc),
           UNCHANGED <<requests, audit, reviewAudit, accounts, members, dms>>,
           pc \in Holding \/ (pc \in Syncing /\ task[t].after = "account")
             => Holds(task[t]),
           pc = "denial" \/ (pc \in Syncing /\ task[t].after = "denial")
             => Denying(task[t]),
           pc \notin {"group", "link", "complete"},
           pc = "dm" => task[t].pc = "link"
    PROVE  WorkGoal(t)
<1> DEFINE l == [task[t] EXCEPT !.pc = pc]
<1>1. /\ task[t] \in Task /\ OwnRow(task[t], requests)
      /\ Licence(task[t], requests) /\ Deeds(task[t], accounts, members, dms)
  BY WorkerFacts DEF WorkInv
<1>2. /\ l.pc = pc /\ l.request = task[t].request /\ l.seen = task[t].seen
      /\ l.after = task[t].after /\ l.target = task[t].target
      /\ l.account = task[t].account
  BY <1>1 DEF Task
<1> HIDE DEF l
<1>3. Worker(l, requests, accounts, members, dms)
  BY <1>1, <1>2 DEF Worker, OwnRow, Licence, Deeds, Holds, Denying, Fence
<1>4. Carries(t, l)
  BY <1>2 DEF Carries, Holds
<1> QED
  BY <1>3, <1>4, QuietWork DEF Goto, l

-----------------------------------------------------------------------------

\* A task that goes on to show a row it has read.
LEMMA QuietSync ==
    ASSUME IInv, IInv', WorkInv, SchemaChecks, NEW t \in Tasks,
           NEW id \in RequestIds, Exists(id),
           requests[id].target = task[t].target,
           NEW after \in {"idle", "reply"}, Sync(t, id, requests[id], after),
           UNCHANGED <<requests, audit, reviewAudit, accounts, members, dms>>
    PROVE  WorkGoal(t)
<1> DEFINE l == [task[t] EXCEPT !.pc = "review", !.request = id,
                                !.seen = requests[id], !.after = after]
<1>1. /\ l.pc = "review" /\ l.request = id /\ l.seen = requests[id]
      /\ l.after = after /\ l.target = task[t].target
  BY TaskFacts DEF Task
<1> HIDE DEF l
<1>2. Worker(l, requests, accounts, members, dms) /\ Carries(t, l)
  BY <1>1 DEF Worker, OwnRow, Licence, Deeds, Holds, Holding, Denying, Carries,
              Exists
<1> QED
  BY <1>2, QuietWork DEF Sync, l

\* A command or a click names a request whose target the task takes over.
LEMMA StartWork ==
    ASSUME IInv, IInv', WorkInv, SchemaChecks, NEW t \in Tasks, Start(t)
    PROVE  WorkGoal(t)
<1>1. PICK kind, actor, user, target, id :
        /\ Begin(t, kind, actor, user, target, id)
        /\ id # None => Exists(id) /\ requests[id].target = target
  BY DEF Start, CallOnboard, CallOn, Click
<1> DEFINE l == [Idle EXCEPT !.pc = "authorize", !.kind = kind,
                             !.actor = actor, !.user = user,
                             !.target = target, !.request = id]
<1>2. l.pc = "authorize" /\ l.target = target /\ l.request = id
  BY DEF Idle
<1>3. Worker(l, requests, accounts, members, dms) /\ Carries(t, l)
  BY <1>1, <1>2 DEF Worker, OwnRow, Licence, Deeds, Holds, Holding, Syncing,
                    Denying, Carries, Exists
<1> QED
  BY <1>1, <1>3, QuietWork DEF Begin, world, authentik

\* The checks of officers, roles and identities, and the ends of tasks.
LEMMA CheckWork ==
    ASSUME IInv, IInv', WorkInv, SchemaChecks, NEW t \in Tasks,
           \/ Abort(t) \/ CheckRole(t) \/ CheckIdentity(t) \/ Reply(t)
           \/ AuthorizeProvisioning(t)
    PROVE  WorkGoal(t)
<1>1. /\ UNCHANGED <<requests, audit, reviewAudit, accounts, members, dms>>
      /\ \/ Finish(t)
         \/ \E pc \in {"identity", "recheck_identity", "decide", "claim",
                       "recheck_role"} : Goto(t, pc)
  BY DEF Abort, CheckRole, CheckIdentity, Reply, AuthorizeProvisioning, authentik
<1> QED
  BY <1>1, FinishWork, GotoWork DEF Holding, Syncing

\* The authorization goes on to a check, or to show the row of the request.
LEMMA AuthorizeWork ==
    ASSUME IInv, IInv', WorkInv, SchemaChecks, NEW t \in Tasks, Authorize(t)
    PROVE  WorkGoal(t)
<1>1. UNCHANGED <<requests, audit, reviewAudit, accounts, members, dms>>
  BY DEF Authorize, authentik
<1>2. task[t].kind \in Kinds /\ OwnRow(task[t], requests)
  BY TaskFacts, WorkerFacts DEF Authorize, At, LocalOK, CallerOK, WorkInv
<1>3. CASE \/ Finish(t)
           \/ \E pc \in {"role", "decide", "provision"} : Goto(t, pc)
  BY <1>1, <1>3, FinishWork, GotoWork DEF Holding, Syncing
<1>4. CASE task[t].kind = "status" /\ Sync(t, task[t].request, RowOf(t), "idle")
  <2>1. task[t].request \in RequestIds /\ Exists(task[t].request)
    BY <1>4, TaskFacts DEF Authorize, At, LocalOK, NamedOK, Named, Exists
  <2>2. RowOf(t).target = task[t].target
    BY <1>2, <2>1, ScenarioAssumption DEF OwnRow, RowOf
  <2> QED
    BY <1>1, <1>4, <2>1, <2>2, QuietSync DEF RowOf
<1> QED
  BY <1>2, <1>3, <1>4 DEF Authorize, Kinds

\* /onboard only reads before it inserts.
LEMMA ReadIdentityWork ==
    ASSUME IInv, IInv', WorkInv, SchemaChecks, NEW t \in Tasks, ReadIdentity(t)
    PROVE  WorkGoal(t)
<1>1. UNCHANGED <<requests, audit, reviewAudit, accounts, members, dms>>
  BY DEF ReadIdentity, authentik
<1>2. CASE Finish(t)
  BY <1>1, <1>2, FinishWork
<1>3. CASE Set(t, [task[t] EXCEPT !.pc = "insert",
                                  !.identity = identity[task[t].user]])
  <2> DEFINE l == [task[t] EXCEPT !.pc = "insert",
                                  !.identity = identity[task[t].user]]
  <2>1. /\ l.pc = "insert" /\ l.target = task[t].target
        /\ l.request = task[t].request
    BY TaskFacts DEF Task
  <2>2. OwnRow(task[t], requests)
    BY WorkerFacts DEF WorkInv
  <2>3. Worker(l, requests, accounts, members, dms) /\ Carries(t, l)
    BY <2>1, <2>2 DEF Worker, OwnRow, Licence, Deeds, Holds, Holding, Syncing,
                      Denying, Carries
  <2> QED
    BY <1>1, <1>3, <2>3, QuietWork
<1> QED
  BY <1>2, <1>3 DEF ReadIdentity

\* The row found after a conflict is for the target of the command.
LEMMA SelectWork ==
    ASSUME IInv, IInv', WorkInv, SchemaChecks, NEW t \in Tasks, Select(t)
    PROVE  WorkGoal(t)
<1>1. UNCHANGED <<requests, audit, reviewAudit, accounts, members, dms>>
  BY DEF Select, authentik
<1>2. ASSUME NEW id \in Conflicts(task[t].user, task[t].target),
             Sync(t, id, requests[id], "reply")
      PROVE  WorkGoal(t)
  <2>1. /\ id \in RequestIds /\ Exists(id)
        /\ requests[id].target = task[t].target
    BY DEF Conflicts, Active, Exists
  <2> QED
    BY <1>1, <1>2, <2>1, QuietSync
<1> QED
  BY <1>1, <1>2, FinishWork DEF Select

\* A failed call, a refused name and the link leave the attempt in hand.
LEMMA CallWork ==
    ASSUME IInv, IInv', WorkInv, SchemaChecks, NEW t \in Tasks,
           \/ CallFails(t) \/ TimesOut(t)
           \/ UsernameRefused(t) \/ CreateRecoveryLink(t)
    PROVE  WorkGoal(t)
<1>1. /\ UNCHANGED <<requests, audit, reviewAudit, accounts, members, dms>>
      /\ task[t].pc \in Holding
      /\ Goto(t, "fail") \/ (Goto(t, "dm") /\ task[t].pc = "link")
  BY DEF CallFails, TimesOut, UsernameRefused, CreateRecoveryLink, authentik, At,
         Holding
<1>2. Holds(task[t])
  BY <1>1 DEF Holds
<1> QED
  BY <1>1, <1>2, GotoWork DEF Syncing

\* The account that is found has the address of the request.
LEMMA FindUserWork ==
    ASSUME IInv, IInv', WorkInv, SchemaChecks, NEW t \in Tasks, FindUser(t)
    PROVE  WorkGoal(t)
<1>1. /\ UNCHANGED <<requests, audit, reviewAudit, accounts, members, dms>>
      /\ task[t].pc = "account" /\ Holds(task[t])
  BY DEF FindUser, authentik, At, Holds, Holding
<1>2. CASE Goto(t, "create")
  BY <1>1, <1>2, GotoWork DEF Syncing
<1>3. ASSUME NEW a \in Accounts, accounts[a] = Email(t),
             Set(t, [task[t] EXCEPT !.pc = "group", !.account = a])
      PROVE  WorkGoal(t)
  <2> DEFINE l == [task[t] EXCEPT !.pc = "group", !.account = a]
  <2>1. /\ task[t] \in Task /\ OwnRow(task[t], requests)
        /\ Licence(task[t], requests)
    BY WorkerFacts DEF WorkInv
  <2>2. /\ l.pc = "group" /\ l.account = a /\ l.request = task[t].request
        /\ l.seen = task[t].seen /\ l.target = task[t].target
    BY <2>1 DEF Task
  <2> HIDE DEF l
  <2>3. Worker(l, requests, accounts, members, dms) /\ Carries(t, l)
    BY <1>1, <1>3, <2>1, <2>2
       DEF Worker, OwnRow, Licence, Deeds, Holds, Holding, Syncing, Denying,
           Fence, Carries, Email
  <2> QED
    BY <1>1, <1>3, <2>3, QuietWork DEF l
<1> QED
  BY <1>2, <1>3 DEF FindUser

\* Going on after a sync, best effort as it is.
LEMMA ResumeWork ==
    ASSUME IInv, IInv', WorkInv, SchemaChecks, NEW t \in Tasks,
           UNCHANGED <<requests, audit, reviewAudit, accounts, members, dms>>,
           task[t].pc \in Syncing, Resume(t, task[t].after)
    PROVE  WorkGoal(t)
<1>1. task[t].after \in {"idle", "reply", "provision", "denial", "account"}
  BY TaskFacts DEF LocalOK, SyncOK
<1>2. CASE task[t].after = "idle"
  BY <1>2, FinishWork DEF Resume, Finish
<1>3. CASE task[t].after # "idle"
  <2>1. Goto(t, task[t].after)
    BY <1>3 DEF Resume
  <2> QED
    BY <1>1, <2>1, GotoWork DEF Holding, Syncing, Holds, Denying
<1> QED
  BY <1>2, <1>3

\* Editing, posting and failing to do so.
LEMMA MessageWork ==
    ASSUME IInv, IInv', WorkInv, SchemaChecks, NEW t \in Tasks,
           \/ EditReview(t) \/ SyncFails(t)
           \/ \E message \in Messages : PostReview(t, message)
    PROVE  WorkGoal(t)
<1>1. /\ UNCHANGED <<requests, audit, reviewAudit, accounts, members, dms>>
      /\ task[t].pc \in Syncing
  BY DEF EditReview, SyncFails, PostReview, authentik, At, Syncing
<1>2. CASE Resume(t, task[t].after)
  BY <1>1, <1>2, ResumeWork
<1>3. CASE Finish(t)
  BY <1>1, <1>3, FinishWork
<1>4. CASE Goto(t, "post")
  BY <1>1, <1>4, GotoWork DEF Holding, Holds, Denying
<1>5. ASSUME NEW message \in Messages, PostReview(t, message)
      PROVE  WorkGoal(t)
  <2> DEFINE l == [task[t] EXCEPT !.pc = "record", !.posted = message]
  <2>1. /\ task[t] \in Task /\ OwnRow(task[t], requests)
        /\ Licence(task[t], requests)
    BY WorkerFacts DEF WorkInv
  <2>2. /\ l.pc = "record" /\ l.request = task[t].request
        /\ l.seen = task[t].seen /\ l.target = task[t].target
        /\ l.after = task[t].after
    BY <2>1 DEF Task
  <2> HIDE DEF l
  <2>3. Worker(l, requests, accounts, members, dms) /\ Carries(t, l)
    BY <1>1, <2>1, <2>2
       DEF Worker, OwnRow, Licence, Deeds, Holds, Holding, Syncing, Denying,
           Fence, Carries
  <2> QED
    BY <1>1, <1>5, <2>3, QuietWork DEF PostReview, l
<1> QED
  BY <1>2, <1>3, <1>4, <1>5 DEF EditReview, SyncFails

-----------------------------------------------------------------------------

\* A transaction of a task that goes on to show the row it wrote.
LEMMA TransactionWork ==
    ASSUME IInv, IInv', WorkInv, SchemaChecks, NEW t \in Tasks,
           [RepoNext]_repoVars, UNCHANGED <<accounts, members, dms>>,
           NEW id \in RequestIds, requests'[id] # NoRow,
           requests'[id].target = task[t].target, NEW after,
           after = "account" => /\ requests'[id].status = "provisioning"
                                /\ Decision(requests'[id]) = "approved",
           after = "denial" => requests'[id].status = "denied",
           Sync(t, id, requests'[id], after),
           after = "account" =>
              \A u \in Tasks : Holds(task[u]) /\ task[u].request = id =>
                 task[u].seen.attempts # requests'[id].attempts,
           \A u \in Tasks \ {t} : Holds(task[u]) => Fence(task[u], requests')
    PROVE  GoodWork(t)
<1> DEFINE l == [task[t] EXCEPT !.pc = "review", !.request = id,
                                !.seen = requests'[id], !.after = after]
<1>1. /\ l.pc = "review" /\ l.request = id /\ l.seen = requests'[id]
      /\ l.after = after /\ l.target = task[t].target
  BY TaskFacts DEF Task
<1> HIDE DEF l
<1>2. Worker(l, requests', accounts', members', dms')
  BY <1>1 DEF Worker, OwnRow, Licence, Deeds, Holds, Holding, Denying, Fence
<1>3. Carries(t, l) \/ Fresh(t, l)
  BY <1>1 DEF Carries, Fresh, Holds, Holding
<1>4. Set(t, l)
  BY DEF Sync, l
<1> QED
  BY <1>2, <1>3, <1>4 DEF GoodWork, WorldGrows

\* A transaction that records no outcome leaves every attempt fenced.
LEMMA OthersFenced ==
    ASSUME IInv, WorkInv, [RepoNext]_repoVars,
           \A id \in RequestIds : ~CompleteStep(id) /\ ~FailStep(id),
           NEW u \in Tasks, Holds(task[u])
    PROVE  Fence(task[u], requests')
<1> DEFINE id == task[u].request
<1>1. /\ id \in RequestIds /\ Exists(id) /\ requests[id] \in Row
      /\ Fence(task[u], requests) /\ task[u].seen.attempts \in Nat
  BY WorkerFacts DEF WorkInv, Licence
<1>2. FenceKept(requests[id], requests'[id]) /\ RepoTypeOK'
  BY <1>1, FencesKept, TypeStep DEF IInv
<1>3. requests'[id] \in Row
  BY <1>1, CommittedRow
<1>4. requests[id].attempts \in Nat /\ requests'[id].attempts \in Nat
  BY <1>1, <1>3, BoundsAssumption DEF Row
<1> QED
  BY <1>1, <1>2, <1>4 DEF Fence, FenceKept

\* The statuses between which an outcome moves a row tell it from the others.
LEMMA NoOutcome ==
    ASSUME RepoTypeOK, NEW id \in RequestIds,
           \/ requests'[id].status \notin {"completed", "failed"}
           \/ requests'[id].status = requests[id].status
    PROVE  ~CompleteStep(id) /\ ~FailStep(id)
BY CompleteStepEffect, FailStepEffect DEF OutcomeEffect

\* A transaction that rewrites one row is no outcome of another.
LEMMA NoOutcomeOf ==
    ASSUME RepoTypeOK, NEW id \in RequestIds, NEW row, NEW event,
           Commit(id, row, event) \/ requests' = [requests EXCEPT ![id] = row],
           row.status \notin {"completed", "failed"} \/ row.status = requests[id].status
    PROVE  \A other \in RequestIds : ~CompleteStep(other) /\ ~FailStep(other)
<1>1. requests' = [requests EXCEPT ![id] = row]
  BY DEF Commit
<1>2. \A other \in RequestIds :
         requests'[other] = IF other = id THEN row ELSE requests[other]
  BY <1>1 DEF RepoTypeOK
<1> QED
  BY <1>2, NoOutcome

\* No transaction at all.
LEMMA NoTransaction ==
    ASSUME RepoTypeOK, UNCHANGED requests
    PROVE  \A id \in RequestIds : ~CompleteStep(id) /\ ~FailStep(id)
BY NoOutcome

\* The insert hands the task the row it asked for.
LEMMA InsertWork ==
    ASSUME IInv, IInv', WorkInv, SchemaChecks, NEW t \in Tasks, Insert(t)
    PROVE  WorkGoal(t)
<1>1. UNCHANGED <<accounts, members, dms>>
  BY DEF Insert, authentik
<1>2. CASE Goto(t, "select") /\ UNCHANGED repoVars
  BY <1>1, <1>2, GotoWork DEF repoVars, Holding, Syncing
<1>3. ASSUME NEW id \in RequestIds,
             StartRequest(id, task[t].user, task[t].target, task[t].actor,
                          task[t].identity),
             Sync(t, id, requests'[id], "reply")
      PROVE  WorkGoal(t)
  <2> DEFINE row == NewRow(task[t].user, task[t].target, task[t].actor,
                           task[t].identity)
  <2>1. [RepoNext]_repoVars
    BY InsertOK DEF GoodStep
  <2>2. /\ row.status = "pending" /\ row.target = task[t].target
    BY DEF NewRow
  <2>3. requests'[id] = row /\ requests' = [requests EXCEPT ![id] = row]
    BY <1>3 DEF StartRequest, Commit, IInv, RepoTypeOK
  <2>4. requests'[id] # NoRow
    <3>1. task[t] \in Task /\ LocalOK(task[t], requests) /\ task[t].pc = "insert"
      BY TaskFacts DEF Insert, At
    <3>2. row \in Row
      BY <3>1, NewRowType DEF LocalOK, CallerOK, DataOK
    <3> QED
      BY <2>3, <3>2, NullAssumption
  <2> HIDE DEF row
  <2>5. \A other \in RequestIds : ~CompleteStep(other) /\ ~FailStep(other)
    BY <2>2, <2>3, NoOutcomeOf DEF IInv
  <2>6. GoodWork(t)
    BY <1>1, <1>3, <2>1, <2>2, <2>3, <2>4, <2>5, OthersFenced, TransactionWork
  <2> QED
    BY <1>1, <2>1, <2>5, <2>6, GroundsKept DEF WorkGoal, WorkInv, Grounds
<1> QED
  BY <1>2, <1>3 DEF Insert

\* A decision licenses the handler that made it, and no other.
LEMMA DecideWork ==
    ASSUME IInv, IInv', WorkInv, SchemaChecks, NEW t \in Tasks, DecideRequest(t)
    PROVE  WorkGoal(t)
<1> DEFINE id == task[t].request
<1>1. UNCHANGED <<accounts, members, dms>>
  BY DEF DecideRequest, authentik
<1>2. /\ id \in RequestIds /\ Exists(id) /\ requests[id] \in Row
      /\ task[t].actor \in Actors
  BY NamedFacts DEF DecideRequest, At, NamedPoints
<1>3. requests[id].target = task[t].target
  BY <1>2, WorkerFacts, ScenarioAssumption DEF WorkInv, OwnRow
<1>4. CASE Sync(t, id, requests[id], "idle") /\ UNCHANGED repoVars
  BY <1>1, <1>2, <1>3, <1>4, QuietSync DEF repoVars
<1>5. ASSUME NEW decision \in {"approved", "denied"},
             Decide(id, task[t].actor, decision),
             NEW after \in {"provision", "denial"},
             after = "denial" => decision = "denied",
             Sync(t, id, requests'[id], after)
      PROVE  WorkGoal(t)
  <2> DEFINE row == Decided(requests[id], task[t].actor, decision)
  <2>1. [RepoNext]_repoVars
    BY DecideRequestOK DEF GoodStep
  <2>2. row \in Row /\ row.status = decision /\ row.target = task[t].target
    BY <1>2, <1>3, DecidedType DEF Decided, Row
  <2>3. requests'[id] = row /\ requests' = [requests EXCEPT ![id] = row]
    BY <1>5 DEF Decide, Commit, IInv, RepoTypeOK
  <2> HIDE DEF row
  <2>4. \A other \in RequestIds : ~CompleteStep(other) /\ ~FailStep(other)
    BY <1>2, <2>2, <2>3, NoOutcomeOf DEF IInv
  <2>5. GoodWork(t)
    BY <1>1, <1>2, <1>5, <2>1, <2>2, <2>3, <2>4, OthersFenced, TransactionWork,
       NullAssumption
  <2> QED
    BY <1>1, <2>1, <2>4, <2>5, GroundsKept DEF WorkGoal, WorkInv, Grounds
<1> QED
  BY <1>4, <1>5 DEF DecideRequest, Approve, Deny

\* A claim takes a number no worker has and fences off all that have one.
LEMMA ClaimWork ==
    ASSUME IInv, IInv', WorkInv, SchemaChecks, NEW t \in Tasks, Claim(t)
    PROVE  WorkGoal(t)
<1> DEFINE id == task[t].request
<1>1. UNCHANGED <<accounts, members, dms>>
  BY DEF Claim, authentik
<1>2. /\ id \in RequestIds /\ Exists(id) /\ requests[id] \in Row
      /\ task[t].actor \in Actors
  BY NamedFacts DEF Claim, At, NamedPoints
<1>3. requests[id].target = task[t].target
  BY <1>2, WorkerFacts, ScenarioAssumption DEF WorkInv, OwnRow
<1>4. CASE Finish(t) /\ UNCHANGED repoVars
  BY <1>1, <1>4, FinishWork DEF repoVars
<1>5. CASE /\ ClaimProvisioning(id, task[t].actor)
           /\ Sync(t, id, requests'[id], "account")
  <2> DEFINE row == Claimed(requests[id])
  <2>1. [RepoNext]_repoVars
    BY ClaimOK DEF GoodStep
  <2>2. requests'[id] = row /\ requests' = [requests EXCEPT ![id] = row]
    BY <1>5 DEF ClaimProvisioning, Commit, IInv, RepoTypeOK
  <2>3. /\ row \in Row /\ row.status = "provisioning"
        /\ row.target = task[t].target
        /\ row.attempts = requests[id].attempts + 1
        /\ row.decidedBy = requests[id].decidedBy
    BY <1>2, <1>3, <1>5, ClaimedType DEF ClaimProvisioning, Claimed, Row
  <2> HIDE DEF row
  <2>4. Decision(requests'[id]) = "approved"
    <3>1. requests[id].decidedBy # None
      BY <1>2, <1>5 DEF ClaimProvisioning, Claimable, SchemaChecks, RowChecks
    <3> QED
      BY <2>2, <2>3, <3>1 DEF Decision
  <2>5. \A other \in RequestIds : ~CompleteStep(other) /\ ~FailStep(other)
    BY <1>2, <2>2, <2>3, NoOutcomeOf DEF IInv
  <2>6. ASSUME NEW u \in Tasks, Holds(task[u]), task[u].request = id
        PROVE  task[u].seen.attempts # requests'[id].attempts
    <3>1. /\ Fence(task[u], requests) /\ task[u].seen.attempts \in Nat
          /\ requests[id].attempts \in Nat
      BY <1>2, <2>6, WorkerFacts, BoundsAssumption DEF WorkInv, Licence, Row
    <3> QED
      BY <2>2, <2>3, <2>6, <3>1 DEF Fence
  <2>7. GoodWork(t)
    BY <1>1, <1>2, <1>5, <2>1, <2>2, <2>3, <2>4, <2>5, <2>6, OthersFenced,
       TransactionWork, NullAssumption
  <2> QED
    BY <1>1, <2>1, <2>5, <2>7, GroundsKept DEF WorkGoal, WorkInv, Grounds
<1> QED
  BY <1>4, <1>5 DEF Claim

-----------------------------------------------------------------------------

\* A step of the other systems while the tables stay as they are.
LEMMA OutsideWork ==
    ASSUME IInv, WorkInv, NEW t \in Tasks,
           UNCHANGED <<requests, audit, reviewAudit>>, WorldGrows, Grounds',
           NEW l, Set(t, l), Carries(t, l),
           Worker(l, requests, accounts', members', dms')
    PROVE  WorkGoal(t)
<1>1. \A u \in Tasks \ {t} : Holds(task[u]) => Fence(task[u], requests')
  BY WorkerFacts DEF WorkInv, Licence
<1> QED
  BY <1>1 DEF WorkGoal, GoodWork

\* What a task that has called Authentik or Discord goes on with.
LEMMA AnsweredWorker ==
    ASSUME IInv, WorkInv, NEW t \in Tasks, task[t].pc \in Holding,
           NEW lost \in BOOLEAN, NEW k \in Task, k.pc \in {"group", "link", "complete"},
           k.request = task[t].request, k.seen = task[t].seen,
           k.target = task[t].target, NEW accs, NEW mems, NEW msgs,
           Deeds(k, accs, mems, msgs)
    PROVE  \E l : /\ l = [k EXCEPT !.pc = IF lost THEN "fail" ELSE @]
                  /\ Carries(t, l)
                  /\ Worker(l, requests, accs, mems, msgs)
<1> DEFINE l == [k EXCEPT !.pc = IF lost THEN "fail" ELSE @]
<1>1. /\ l.pc \in {k.pc, "fail"} /\ l.request = task[t].request
      /\ l.seen = task[t].seen /\ l.target = task[t].target
      /\ l.account = k.account
  BY DEF Task
<1> HIDE DEF l
<1>2. OwnRow(task[t], requests) /\ Licence(task[t], requests) /\ Holds(task[t])
  BY WorkerFacts DEF WorkInv, Holds
<1>3. Carries(t, l)
  BY <1>1, <1>2 DEF Carries
<1>4. OwnRow(l, requests) /\ Licence(l, requests)
  BY <1>1, <1>2 DEF OwnRow, Licence, Fence, Denying, Syncing
<1>5. Deeds(l, accs, mems, msgs)
  BY <1>1 DEF Deeds
<1> QED
  BY <1>3, <1>4, <1>5 DEF Worker, l

\* A step that runs no transaction completes nothing.
LEMMA NothingCompletes ==
    ASSUME IInv, UNCHANGED <<requests, audit, reviewAudit>>
    PROVE  [RepoNext]_repoVars /\ \A id \in RequestIds : ~CompleteStep(id)
BY NoTransaction DEF IInv, repoVars

\* An account that is created under a free username is the only one with it.
LEMMA AccountCreated ==
    ASSUME IInv, WorkInv, NEW a \in Accounts, NEW email \in Emails,
           accounts[a] = None, ~UsernameTaken(email),
           accounts' = [accounts EXCEPT ![a] = email],
           UNCHANGED <<members, dms>>
    PROVE  WorldGrows /\ UsernamesDiffer'
<1>1. accounts \in [Accounts -> Emails \cup {None}]
  BY DEF IInv, WorldOK
<1>2. WorldGrows
  BY <1>1 DEF WorldGrows
<1>3. UsernamesDiffer'
  <2> SUFFICES ASSUME NEW b \in Accounts, NEW c \in Accounts,
                      accounts'[b] # None, accounts'[c] # None,
                      Username[accounts'[b]] = Username[accounts'[c]]
               PROVE  b = c
    BY DEF UsernamesDiffer
  <2>1. \A d \in Accounts :
           accounts[d] # None => Username[accounts[d]] # Username[email]
    BY DEF UsernameTaken
  <2> QED
    BY <1>1, <2>1 DEF WorkInv, UsernamesDiffer
<1> QED
  BY <1>2, <1>3

\* An account is created for an address that has none.
LEMMA CreateUserWork ==
    ASSUME IInv, IInv', WorkInv, SchemaChecks, NEW t \in Tasks,
           NEW a \in Accounts, NEW lost \in BOOLEAN, CreateUser(t, a, lost)
    PROVE  WorkGoal(t)
<1> DEFINE k == [task[t] EXCEPT !.pc = "group", !.account = a]
<1>1. /\ task[t] \in Task /\ task[t].pc = "create" /\ task[t].pc \in Holding
      /\ UNCHANGED <<requests, audit, reviewAudit, members, dms>>
      /\ accounts' = [accounts EXCEPT ![a] = Email(t)]
      /\ accounts[a] = None /\ ~UsernameTaken(Email(t))
  BY TaskFacts DEF CreateUser, At, Holding
<1>2. accounts \in [Accounts -> Emails \cup {None}]
  BY DEF IInv, WorldOK
<1>3. Email(t) \in Emails
  BY <1>1, WorkerFacts DEF Email, Holds, WorkInv
<1>4. WorldGrows
  BY <1>1, <1>3, AccountCreated
<1>5. UsernamesDiffer'
  BY <1>1, <1>3, AccountCreated
<1>6. Grounds'
  BY <1>1, <1>4, <1>5, NothingCompletes, GroundsStep DEF WorkInv, Grounds
<1>7. k \in Task
  <2>1. [task[t] EXCEPT !.pc = "group"] \in Task
    BY <1>1, OneField DEF Points
  <2> QED
    BY <2>1, OneField
<1>8. /\ k.pc = "group" /\ k.account = a /\ k.request = task[t].request
      /\ k.seen = task[t].seen /\ k.target = task[t].target
  BY <1>1 DEF Task
<1>9. Answered(t, lost, k)
  BY DEF CreateUser
<1> HIDE DEF k
<1>10. Deeds(k, accounts', members', dms')
  BY <1>1, <1>2, <1>8 DEF Deeds, Email
<1>11. \E l : /\ Set(t, l) /\ Carries(t, l)
              /\ Worker(l, requests, accounts', members', dms')
  BY <1>1, <1>7, <1>8, <1>9, <1>10, AnsweredWorker DEF Answered
<1> QED
  BY <1>1, <1>4, <1>6, <1>11, OutsideWork

\* The account at hand is of the approved request that the task works on.
LEMMA AttemptCovers ==
    ASSUME IInv, WorkInv, NEW t \in Tasks, task[t].pc = "group"
    PROVE  Covered(task[t].account, task[t].target)
BY WorkerFacts DEF WorkInv, Licence, Deeds, Holds, Holding, Exists, Covered

\* A member is added for a request that is approved.
LEMMA AddToGroupWork ==
    ASSUME IInv, IInv', WorkInv, SchemaChecks, NEW t \in Tasks,
           NEW lost \in BOOLEAN, AddToGroup(t, lost)
    PROVE  WorkGoal(t)
<1> DEFINE k == [task[t] EXCEPT !.pc = "link"]
           id == task[t].request
<1>1. /\ task[t] \in Task /\ task[t].pc = "group" /\ task[t].pc \in Holding
      /\ UNCHANGED <<requests, audit, reviewAudit, accounts, dms>>
      /\ members' = members \cup {<<task[t].account, task[t].target>>}
  BY TaskFacts DEF AddToGroup, At, Holding
<1>2. WorldGrows /\ UsernamesDiffer'
  BY <1>1 DEF WorldGrows, WorkInv, UsernamesDiffer
<1>3. Covered(task[t].account, task[t].target)
  BY <1>1, AttemptCovers
<1>4. Grounds'
  BY <1>1, <1>2, <1>3, NothingCompletes, GroundsStep DEF WorkInv, Grounds
<1>5. k \in Task
  BY <1>1, OneField DEF Points
<1>6. /\ k.pc = "link" /\ k.account = task[t].account /\ k.request = id
      /\ k.seen = task[t].seen /\ k.target = task[t].target
  BY <1>1 DEF Task
<1>7. Answered(t, lost, k)
  BY DEF AddToGroup
<1> HIDE DEF k
<1>8. Deeds(k, accounts', members', dms')
  BY <1>1, <1>6, WorkerFacts DEF Deeds, WorkInv
<1>9. \E l : /\ Set(t, l) /\ Carries(t, l)
             /\ Worker(l, requests, accounts', members', dms')
  BY <1>1, <1>5, <1>6, <1>7, <1>8, AnsweredWorker DEF Answered
<1> QED
  BY <1>1, <1>2, <1>4, <1>9, OutsideWork

\* The link is delivered for a request that is approved.
LEMMA SendCompletionWork ==
    ASSUME IInv, IInv', WorkInv, SchemaChecks, NEW t \in Tasks,
           NEW lost \in BOOLEAN, SendCompletion(t, lost)
    PROVE  WorkGoal(t)
<1> DEFINE k == [task[t] EXCEPT !.pc = "complete"]
           id == task[t].request
<1>1. /\ task[t] \in Task /\ task[t].pc = "dm" /\ task[t].pc \in Holding
      /\ UNCHANGED <<requests, audit, reviewAudit, accounts, members>>
      /\ dms' = dms \cup {<<id, "completed", Attempt(t)>>}
  BY TaskFacts DEF SendCompletion, At, Holding, authentik
<1>2. WorldGrows /\ UsernamesDiffer'
  BY <1>1 DEF WorldGrows, WorkInv, UsernamesDiffer
<1>3. /\ id \in RequestIds /\ requests[id] # NoRow
      /\ Decision(requests[id]) = "approved"
  BY <1>1, WorkerFacts DEF WorkInv, Licence, Holds, Exists
<1>4. Grounds'
  BY <1>1, <1>2, <1>3, NothingCompletes, GroundsStep DEF WorkInv, Grounds
<1>5. k \in Task
  BY <1>1, OneField DEF Points
<1>6. /\ k.pc = "complete" /\ k.account = task[t].account /\ k.request = id
      /\ k.seen = task[t].seen /\ k.target = task[t].target
  BY <1>1 DEF Task
<1>7. Answered(t, lost, k)
  BY DEF SendCompletion
<1> HIDE DEF k
<1>8. Deeds(k, accounts', members', dms')
  BY <1>1, <1>6, WorkerFacts DEF Deeds, WorkInv, Attempt
<1>9. \E l : /\ Set(t, l) /\ Carries(t, l)
             /\ Worker(l, requests, accounts', members', dms')
  BY <1>1, <1>5, <1>6, <1>7, <1>8, AnsweredWorker DEF Answered
<1> QED
  BY <1>1, <1>2, <1>4, <1>9, OutsideWork

\* A denial is told of a request that is denied.
LEMMA SendDenialWork ==
    ASSUME IInv, IInv', WorkInv, SchemaChecks, NEW t \in Tasks, SendDenial(t)
    PROVE  WorkGoal(t)
<1> DEFINE id == task[t].request
<1>1. /\ task[t].pc = "denial" /\ Finish(t)
      /\ UNCHANGED <<requests, audit, reviewAudit, accounts, members>>
      /\ dms' \in {dms, dms \cup {<<id, "denied", 0>>}}
  BY DEF SendDenial, At, authentik
<1>2. WorldGrows /\ UsernamesDiffer'
  BY <1>1 DEF WorldGrows, WorkInv, UsernamesDiffer
<1>3. /\ id \in RequestIds /\ requests[id] # NoRow
      /\ requests[id].status = "denied"
  BY <1>1, WorkerFacts DEF WorkInv, Licence, Denying, Exists
<1>4. Grounds'
  BY <1>1, <1>2, <1>3, NothingCompletes, GroundsStep DEF WorkInv, Grounds
<1>5. Carries(t, Idle)
  BY DEF Carries, Idle, Holds, Holding, Syncing
<1> QED
  BY <1>1, <1>2, <1>4, <1>5, IdleWorker, OutsideWork DEF Finish

-----------------------------------------------------------------------------

\* The outcome ends the one attempt that still held the row.
LEMMA RecordOutcomeWork ==
    ASSUME IInv, IInv', WorkInv, SchemaChecks, NEW t \in Tasks, RecordOutcome(t)
    PROVE  WorkGoal(t)
<1> DEFINE id == task[t].request
<1>1. /\ UNCHANGED <<accounts, members, dms>>
      /\ task[t].pc \in {"complete", "fail"} /\ Holds(task[t])
  BY DEF RecordOutcome, authentik, At, Holds, Holding
<1>2. /\ id \in RequestIds /\ id # None /\ Exists(id) /\ requests[id] \in Row
      /\ task[t].target = requests[id].target
      /\ task[t].seen.identity = requests[id].identity
      /\ Deeds(task[t], accounts, members, dms)
  BY <1>1, WorkerFacts DEF WorkInv, Licence
<1>3. [RepoNext]_repoVars
  BY RecordOutcomeOK DEF GoodStep
<1>4. CASE Finish(t) /\ UNCHANGED repoVars
  BY <1>1, <1>4, FinishWork DEF repoVars
<1>5. ASSUME NEW row, NEW event, Commit(id, row, event),
             row.target = requests[id].target, row # NoRow,
             row.attempts = requests[id].attempts,
             requests[id].attempts = Attempt(t),
             row.status = "completed" =>
                /\ task[t].pc = "complete"
                /\ row.identity = requests[id].identity
                /\ row.account = task[t].account,
             Sync(t, id, requests'[id], "idle")
      PROVE  WorkGoal(t)
  <2>1. /\ requests'[id] = row
        /\ \A other \in RequestIds \ {id} : requests'[other] = requests[other]
    BY <1>2, <1>5 DEF Commit, IInv, RepoTypeOK
  <2>2. ASSUME NEW u \in Tasks \ {t}, Holds(task[u])
        PROVE  Fence(task[u], requests')
    <3>1. Fence(task[u], requests) /\ task[u].request \in RequestIds
      BY <2>2, WorkerFacts DEF WorkInv, Licence
    <3>2. CASE task[u].request # id
      BY <2>1, <3>1, <3>2 DEF Fence
    <3>3. CASE task[u].request = id
      <4>1. task[u].seen.attempts # requests[id].attempts
        BY <1>1, <1>5, <2>2, <3>3
           DEF WorkInv, AttemptsAreExclusive, Working, Holds, Holding, Syncing,
               Attempt
      <4> QED
        BY <1>5, <2>1, <3>1, <3>3, <4>1 DEF Fence
    <3> QED
      BY <3>2, <3>3
  <2>3. GoodWork(t)
    <3>1. /\ id \in RequestIds /\ requests'[id] # NoRow
          /\ requests'[id].target = task[t].target
          /\ Sync(t, id, requests'[id], "idle")
      BY <1>2, <1>5, <2>1
    <3> HIDE DEF id
    <3> QED
      BY <1>1, <1>3, <2>2, <3>1, TransactionWork
  <2>4. ASSUME NEW other \in RequestIds, CompleteStep(other)
        PROVE  Provisioned(other, requests'[other], accounts', members', dms')
    <3>1. /\ requests[other].status = "provisioning"
          /\ requests'[other].status = "completed"
      BY <2>4, CompleteStepEffect DEF OutcomeEffect, IInv
    <3>2. other = id
      BY <2>1, <3>1
    <3> QED
      BY <1>1, <1>2, <1>5, <2>1, <3>1, <3>2 DEF Provisioned, Deeds, Attempt
  <2>5. WorldGrows /\ UsernamesDiffer'
    BY <1>1 DEF WorldGrows, WorkInv, UsernamesDiffer
  <2>6. Grounds'
    BY <1>1, <1>3, <2>4, <2>5, GroundsStep DEF WorkInv, Grounds
  <2> QED
    BY <2>3, <2>6 DEF WorkGoal
<1>6. CASE /\ At(t, "complete") /\ MarkCompleted(id, task[t].account, Attempt(t))
           /\ Sync(t, id, requests'[id], "idle")
  <2> DEFINE row == Completed(requests[id], task[t].account)
  <2>1. /\ row.target = requests[id].target
        /\ row.attempts = requests[id].attempts
        /\ row.identity = requests[id].identity
        /\ row.account = task[t].account
    BY <1>2 DEF Completed, Row
  <2>2. requests'[id] = row /\ requests'[id] # NoRow
    BY <1>2, <1>3, <1>6, RowEvolution
       DEF MarkCompleted, Commit, IInv, RepoTypeOK, Exists
  <2> HIDE DEF row
  <2> QED
    BY <1>5, <1>6, <2>1, <2>2 DEF MarkCompleted, HeldBy, At, row
<1>7. CASE /\ At(t, "fail") /\ MarkFailed(id, Attempt(t))
           /\ Sync(t, id, requests'[id], "idle")
  <2> DEFINE row == Failed(requests[id])
  <2>1. /\ row.target = requests[id].target
        /\ row.attempts = requests[id].attempts
        /\ row.status = "failed"
    BY <1>2 DEF Failed, Row
  <2>2. requests'[id] = row /\ requests'[id] # NoRow
    BY <1>2, <1>3, <1>7, RowEvolution
       DEF MarkFailed, Commit, IInv, RepoTypeOK, Exists
  <2> HIDE DEF row
  <2> QED
    BY <1>5, <1>7, <2>1, <2>2 DEF MarkFailed, HeldBy, row
<1> QED
  BY <1>4, <1>6, <1>7 DEF RecordOutcome

\* Recording the message changes nothing the tasks rely on.
LEMMA RecordReviewWork ==
    ASSUME IInv, IInv', WorkInv, SchemaChecks, NEW t \in Tasks, RecordReview(t)
    PROVE  WorkGoal(t)
<1> DEFINE id == task[t].request
           row == [requests[id] EXCEPT !.review = task[t].posted]
<1>1. /\ UNCHANGED <<accounts, members, dms>>
      /\ task[t].pc = "record"
      /\ requests' = [requests EXCEPT ![id] = row]
  BY DEF RecordReview, SetReviewMessage, authentik, At
<1>2. /\ id \in RequestIds /\ Exists(id) /\ requests[id] \in Row
      /\ task[t] \in Task
  BY <1>1, NamedFacts DEF NamedPoints, Syncing
<1>3. [RepoNext]_repoVars
  BY RecordReviewOK DEF GoodStep
<1>4. row.status = requests[id].status
  BY <1>2 DEF Row
<1> HIDE DEF row
<1>5. \A other \in RequestIds : ~CompleteStep(other) /\ ~FailStep(other)
  BY <1>1, <1>2, <1>4, NoOutcomeOf DEF IInv
<1>6. WorldGrows /\ Grounds'
  BY <1>1, <1>3, <1>5, GroundsKept DEF WorkInv, Grounds
<1>7. \A u \in Tasks : Holds(task[u]) => Fence(task[u], requests')
  BY <1>3, <1>5, OthersFenced
<1>8. Worker(task[t], requests', accounts', members', dms')
  BY <1>3, <1>6, <1>7, WorkerStays DEF WorkInv
<1>9. task[t].after \in {"idle", "reply", "provision", "denial", "account"}
  BY <1>1, TaskFacts DEF LocalOK, SyncOK, Syncing
<1>10. \E l : /\ Set(t, l) /\ Carries(t, l)
              /\ Worker(l, requests', accounts', members', dms')
  <2>1. CASE task[t].after = "reply"
    <3> DEFINE l == [task[t] EXCEPT !.pc = "reply", !.seen = requests'[id]]
    <3>1. /\ l.pc = "reply" /\ l.request = id /\ l.target = task[t].target
      BY <1>2 DEF Task
    <3> HIDE DEF l
    <3>2. Worker(l, requests', accounts', members', dms') /\ Carries(t, l)
      BY <1>8, <3>1 DEF Worker, OwnRow, Licence, Deeds, Holds, Holding, Syncing,
                        Denying, Carries
    <3> QED
      BY <2>1, <3>2 DEF RecordReview, l
  <2>2. CASE task[t].after = "idle"
    <3>1. Carries(t, Idle) /\ Set(t, Idle)
      BY <2>2 DEF RecordReview, Resume, Carries, Idle, Holds, Holding, Syncing
    <3> QED
      BY <3>1, IdleWorker
  <2>3. CASE task[t].after \in {"provision", "denial", "account"}
    <3> DEFINE l == [task[t] EXCEPT !.pc = task[t].after]
    <3>1. /\ l.pc = task[t].after /\ l.request = id /\ l.seen = task[t].seen
          /\ l.after = task[t].after /\ l.target = task[t].target
      BY <1>2 DEF Task
    <3>2. Set(t, l)
      BY <2>3 DEF RecordReview, Resume, Goto
    <3> HIDE DEF l
    <3>3. Worker(l, requests', accounts', members', dms') /\ Carries(t, l)
      BY <1>1, <1>8, <2>3, <3>1
         DEF Worker, OwnRow, Licence, Deeds, Holds, Holding, Syncing, Denying,
             Fence, Carries
    <3> QED
      BY <3>2, <3>3
  <2> QED
    BY <1>9, <2>1, <2>2, <2>3
<1> QED
  BY <1>6, <1>7, <1>10 DEF WorkGoal, GoodWork

-----------------------------------------------------------------------------

\* Only a group addition that times out is added to the late ones.
LEMMA NewlyLate ==
    ASSUME IInv, WorkInv, NEW t \in Tasks, Start(t) \/ Progress(t) \/ Abort(t),
           NEW a \in Accounts, NEW target \in Targets,
           <<a, target>> \in lateMembers' \ lateMembers
    PROVE  Covered(a, target)
<1>1. TimesOut(t)
  <2>1. ~UNCHANGED lateMembers
    OBVIOUS
  <2> QED
    BY <2>1
       DEF Start, CallOnboard, CallOn, Click, Begin, Abort, Progress,
           Authorize, CheckRole, ReadIdentity, CheckIdentity, Insert, Select,
           Reply, DecideRequest, SendDenial, AuthorizeProvisioning, Claim,
           CallFails, FindUser, CreateUser, UsernameRefused, AddToGroup,
           CreateRecoveryLink, SendCompletion, RecordOutcome, EditReview,
           SyncFails, RecordReview, PostReview, authentik
<1>2. /\ task[t].pc = "group"
      /\ <<a, target>> = <<task[t].account, task[t].target>>
  BY <1>1 DEF TimesOut, At
<1> QED
  BY <1>2, AttemptCovers

\* Every step of a task keeps the invariant.
LEMMA TaskWork ==
    ASSUME IInv, IInv', WorkInv, SchemaChecks, NEW t \in Tasks,
           Start(t) \/ Progress(t) \/ Abort(t)
    PROVE  WorkInv'
<1>1. WorkGoal(t)
  BY StartWork, CheckWork, AuthorizeWork, ReadIdentityWork, SelectWork, CallWork,
     FindUserWork, MessageWork, InsertWork, DecideWork, ClaimWork,
     CreateUserWork, AddToGroupWork, SendCompletionWork, SendDenialWork,
     RecordOutcomeWork, RecordReviewWork
     DEF Progress
<1>2. [RepoNext]_repoVars
  BY StartOK, ProgressOK, AbortOK DEF GoodStep
<1>3. LateOK'
  BY <1>1, <1>2, NewlyLate, LateStays DEF WorkGoal, GoodWork, WorkInv
<1> QED
  BY <1>1, <1>2, <1>3, WorkersStep DEF WorkGoal, WorkInv, Grounds

\* Authentik carries out what was asked of it, late.
LEMMA LateWork ==
    ASSUME IInv, IInv', WorkInv, SchemaChecks,
           \/ \E email \in lateUsers : LateUser(email)
           \/ \E m \in lateMembers : LateMember(m)
    PROVE  WorldGrows /\ Grounds'
<1>1. UNCHANGED <<requests, audit, reviewAudit, dms>>
  BY DEF LateUser, LateMember
<1>2. CASE UNCHANGED <<accounts, members>>
  BY <1>1, <1>2, NothingCompletes, GroundsKept DEF WorkInv, Grounds
<1>3. ASSUME NEW email \in lateUsers, LateUser(email), ~UNCHANGED accounts
      PROVE  WorldGrows /\ Grounds'
  <2>1. email \in Emails /\ UNCHANGED members
    BY <1>3 DEF LateUser, IInv, WorldOK
  <2>2. WorldGrows /\ UsernamesDiffer'
    BY <1>1, <1>3, <2>1, AccountCreated DEF LateUser
  <2> QED
    BY <1>1, <2>1, <2>2, NothingCompletes, GroundsStep DEF WorkInv, Grounds
<1>4. ASSUME NEW m \in lateMembers, LateMember(m)
      PROVE  WorldGrows /\ Grounds'
  <2>1. UNCHANGED accounts /\ members' = members \cup {m}
    BY <1>4 DEF LateMember
  <2>2. WorldGrows /\ UsernamesDiffer'
    BY <1>1, <2>1 DEF WorldGrows, WorkInv, UsernamesDiffer
  <2>3. \A a \in Accounts, target \in Targets :
           <<a, target>> \in members' \ members => Covered(a, target)
    BY <2>1 DEF WorkInv, LateOK
  <2> QED
    BY <1>1, <2>2, <2>3, NothingCompletes, GroundsStep DEF WorkInv, Grounds
<1> QED
  BY <1>2, <1>3, <1>4 DEF LateUser

\* Time and people take nothing away that the tasks rely on.
LEMMA EnvironmentWork ==
    ASSUME IInv, IInv', WorkInv, SchemaChecks, Environment \/ UNCHANGED vars
    PROVE  WorkInv'
<1>1. /\ [RepoNext]_repoVars
      /\ UNCHANGED <<dms, task>> /\ lateMembers' \subseteq lateMembers
  BY EnvironmentOK
     DEF Environment, TimePasses, RoleChanges, IdentityChanges, OfficerChanges,
         LateUser, LateMember, authentik, vars, repoVars
<1>2. \A id \in RequestIds : ~CompleteStep(id) /\ ~FailStep(id)
  <2>1. CASE UNCHANGED requests
    BY <2>1, NoTransaction DEF IInv
  <2>2. ASSUME NEW id \in RequestIds, LeaseExpires(id)
        PROVE  \A other \in RequestIds : ~CompleteStep(other) /\ ~FailStep(other)
    <3> DEFINE row == [requests[id] EXCEPT !.lease = "expired"]
    <3>1. requests' = [requests EXCEPT ![id] = row]
      BY <2>2 DEF LeaseExpires
    <3>2. requests[id] \in Row
      BY <2>2, ExistingRow DEF LeaseExpires, IInv
    <3>3. row.status = requests[id].status
      BY <3>2 DEF Row
    <3> HIDE DEF row
    <3> QED
      BY <3>1, <3>3, NoOutcomeOf DEF IInv
  <2> QED
    BY <2>1, <2>2 DEF Environment, TimePasses, RoleChanges, IdentityChanges,
                      OfficerChanges, LateUser, LateMember, vars
<1>3. WorldGrows /\ Grounds'
  <2>1. CASE UNCHANGED <<accounts, members>>
    BY <1>1, <1>2, <2>1, GroundsKept DEF WorkInv, Grounds
  <2>2. CASE \/ \E email \in lateUsers : LateUser(email)
             \/ \E m \in lateMembers : LateMember(m)
    BY <2>2, LateWork
  <2> QED
    BY <2>1, <2>2 DEF Environment, TimePasses, RoleChanges, IdentityChanges,
                      OfficerChanges, authentik, vars
<1>4. \A u \in Tasks : Holds(task[u]) => Fence(task[u], requests')
  BY <1>1, <1>2, OthersFenced
<1>5. WorkersOK'
  BY <1>1, <1>3, <1>4, WorkerStays DEF WorkInv, WorkersOK
<1>6. AttemptsAreExclusive'
  BY <1>1 DEF WorkInv, AttemptsAreExclusive, Working, Attempt
<1>7. LateOK'
  BY <1>1, <1>3, LateStays DEF WorkInv
<1> QED
  BY <1>3, <1>5, <1>6, <1>7 DEF WorkInv, Grounds

\* Nobody works, has access or was told anything at first.
LEMMA WorkInit == Init => WorkInv
<1> SUFFICES ASSUME Init PROVE WorkInv
  OBVIOUS
<1>1. /\ \A t \in Tasks : task[t] = Idle
      /\ \A id \in RequestIds : ~Exists(id)
      /\ members = {} /\ lateMembers = {} /\ dms = {}
  BY DEF Init, RepoInit, Exists
<1>2. WorkersOK
  BY <1>1, IdleWorker DEF WorkersOK
<1>3. AttemptsAreExclusive
  BY <1>1 DEF AttemptsAreExclusive, Working, Idle
<1>4. UsernamesDiffer
  BY DEF Init
<1> QED
  BY <1>1, <1>2, <1>3, <1>4 DEF WorkInv, AccessNeedsApproval,
                                CompletedMeansProvisioned, ToldOK, LateOK

\* The table constraints hold while the handlers run.
LEMMA HandlersKeepSchema == Spec => []SchemaChecks
BY HandlersUseTransactions, SchemaChecksHold, PTL

\* The invariant of the handlers' work holds in every reachable state.
LEMMA WorkInvariance == Spec => []WorkInv
<1>1. IInv /\ IInv' /\ SchemaChecks /\ WorkInv /\ [Next]_vars => WorkInv'
  BY TaskWork, EnvironmentWork DEF Next
<1> QED
  BY <1>1, WorkInit, Invariance, HandlersKeepSchema, PTL DEF Spec

(***************************************************************************)
(* Nobody is in a target's group without an approved request for that      *)
(* address and target, for any number of overlapping tasks, retries and    *)
(* crashes.                                                                *)
(***************************************************************************)
THEOREM AccessNeedsApprovalHolds == Spec => []AccessNeedsApproval
<1>1. WorkInv => AccessNeedsApproval
  BY DEF WorkInv
<1> QED
  BY <1>1, WorkInvariance, PTL

(***************************************************************************)
(* A completed request has its account, its membership and the link        *)
(* delivered by the attempt that completed it.                             *)
(***************************************************************************)
THEOREM CompletedMeansProvisionedHolds == Spec => []CompletedMeansProvisioned
<1>1. WorkInv => CompletedMeansProvisioned
  BY DEF WorkInv
<1> QED
  BY <1>1, WorkInvariance, PTL

\* Accounts with one address are one.
LEMMA SameAddressSameAccount ==
    ASSUME UsernamesDiffer, NEW a \in Accounts, NEW b \in Accounts, NEW email \in Emails,
           accounts[a] = email, accounts[b] = email
    PROVE  a = b
BY ScenarioAssumption DEF UsernamesDiffer

(***************************************************************************)
(* Whatever earlier attempts created, left half-way or under way, a later  *)
(* one and the completed row are on the same account.                      *)
(***************************************************************************)
THEOREM AttemptsShareAccountHolds == Spec => []AttemptsShareAccount
<1>1. IInv /\ SchemaChecks /\ WorkInv => AttemptsShareAccount
  <2> SUFFICES ASSUME IInv, SchemaChecks, WorkInv, NEW m \in members \cup lateMembers
               PROVE  /\ \A t \in Tasks :
                            /\ task[t].pc \in {"group", "link", "dm", "complete"}
                            /\ m[2] = task[t].target
                            /\ accounts[m[1]] = Email(t)
                            => m[1] = task[t].account
                      /\ \A id \in RequestIds :
                            /\ IsCompleted(id)
                            /\ m[2] = requests[id].target
                            /\ accounts[m[1]] = requests[id].identity.email
                            => m[1] = requests[id].account
    BY DEF AttemptsShareAccount
  <2>1. m[1] \in Accounts
    BY DEF IInv, WorldOK
  <2>2. ASSUME NEW t \in Tasks, task[t].pc \in {"group", "link", "dm", "complete"},
               accounts[m[1]] = Email(t)
        PROVE  m[1] = task[t].account
    <3>1. task[t].account \in Accounts
      BY <2>2, TaskFacts DEF LocalOK, DataOK
    <3>2. accounts[task[t].account] = Email(t) /\ Email(t) \in Emails
      BY <2>2, WorkerFacts DEF WorkInv, Deeds, Email, Holds, Holding
    <3> QED
      BY <2>1, <2>2, <3>1, <3>2, SameAddressSameAccount DEF WorkInv
  <2>3. ASSUME NEW id \in RequestIds, IsCompleted(id),
               accounts[m[1]] = requests[id].identity.email
        PROVE  m[1] = requests[id].account
    <3>1. Exists(id) /\ requests[id].status = "completed" /\ requests[id] \in Row
      BY <2>3, ExistingRow DEF IsCompleted, IInv
    <3>2. requests[id].account \in Accounts
      BY <3>1 DEF SchemaChecks, RowChecks, Row
    <3>3. requests[id].identity.email \in Emails
      BY <3>1, IdentityAssumption DEF Row
    <3>4. accounts[requests[id].account] = requests[id].identity.email
      BY <3>1 DEF WorkInv, CompletedMeansProvisioned
    <3> QED
      BY <2>1, <2>3, <3>2, <3>3, <3>4, SameAddressSameAccount DEF WorkInv
  <2> QED
    BY <2>2, <2>3
<1> QED
  BY <1>1, WorkInvariance, Invariance, HandlersKeepSchema, PTL

(***************************************************************************)
(* Workers that overlap on a request never share an attempt.               *)
(***************************************************************************)
THEOREM AttemptsAreExclusiveHolds == Spec => []AttemptsAreExclusive
<1>1. WorkInv => AttemptsAreExclusive
  BY DEF WorkInv
<1> QED
  BY <1>1, WorkInvariance, PTL

(***************************************************************************)
(* Once an outcome of an attempt is recorded, no worker believes in it.    *)
(***************************************************************************)
THEOREM RecordedAttemptIsOverHolds == Spec => []RecordedAttemptIsOver
<1>1. IInv /\ WorkInv => RecordedAttemptIsOver
  <2> SUFFICES ASSUME IInv, WorkInv, NEW t \in Tasks, Working(t)
               PROVE  Fence(task[t], requests)
    BY DEF RecordedAttemptIsOver, Fence, RowOf, Attempt
  <2> QED
    BY WorkerFacts DEF WorkInv, Licence, Working, Holds, Holding, Syncing
<1> QED
  BY <1>1, Invariance, WorkInvariance, PTL

(***************************************************************************)
(* Nobody is told both that a request was denied and that it is complete.  *)
(***************************************************************************)
THEOREM MessagesAgreeHolds == Spec => []MessagesAgree
<1>1. WorkInv => MessagesAgree
  BY DEF WorkInv, ToldOK, MessagesAgree
<1> QED
  BY <1>1, WorkInvariance, PTL

-----------------------------------------------------------------------------

\* Histories only grow.
LEMMA HistoryKept ==
    ASSUME RepoTypeOK, [RepoNext]_repoVars, NEW id \in RequestIds, NEW s,
           HasHad(s, audit[id])
    PROVE  HasHad(s, audit'[id])
<1>1. audit[id] \in Seq(Event)
  BY DEF RepoTypeOK
<1>2. CASE audit'[id] = audit[id]
  BY <1>2
<1>3. ASSUME NEW event \in Event, audit'[id] = Append(audit[id], event)
      PROVE  HasHad(s, audit'[id])
  <2>1. PICK i \in 1..Len(audit[id]) : StatusAfter(audit[id][i].type) = s
    BY DEF HasHad
  <2>2. /\ Len(audit[id]) \in Nat
        /\ Len(audit'[id]) = Len(audit[id]) + 1
        /\ audit'[id][i] = audit[id][i]
    BY <1>1, <1>3, <2>1, Appended
  <2>3. i \in 1..Len(audit'[id])
    BY <2>1, <2>2
  <2> QED
    BY <2>1, <2>2, <2>3 DEF HasHad
<1>4. \/ audit'[id] = audit[id]
      \/ \E event \in Event : audit'[id] = Append(audit[id], event)
  <2>1. ASSUME StartStep(id) PROVE \E event \in Event : audit'[id] = Append(audit[id], event)
    <3>1. PICK actor \in Actors : audit'[id] = Append(audit[id],
                                     AuditEvent("request_created", actor, 0))
      BY <2>1, StartStepEffect DEF StartEffect
    <3> QED
      BY <3>1, BoundsAssumption DEF AuditEvent, Event, EventTypes
  <2>2. ASSUME DecideStep(id) PROVE \E event \in Event : audit'[id] = Append(audit[id], event)
    <3>1. PICK actor \in Actors, decision \in {"approved", "denied"} :
              audit'[id] = Append(audit[id], AuditEvent(decision, actor, 0))
      BY <2>2, DecideStepEffect DEF DecideEffect
    <3> QED
      BY <3>1, BoundsAssumption DEF AuditEvent, Event, EventTypes
  <2>3. ASSUME ClaimStep(id) PROVE \E event \in Event : audit'[id] = Append(audit[id], event)
    <3>1. PICK actor \in Actors :
              /\ requests'[id] \in Row
              /\ audit'[id] = Append(audit[id], AuditEvent("provisioning_started",
                                        actor, requests'[id].attempts))
      BY <2>3, ClaimStepEffect DEF ClaimEffect
    <3> QED
      BY <3>1 DEF AuditEvent, Event, EventTypes, Row
  <2>4. ASSUME CompleteStep(id) \/ FailStep(id)
        PROVE  \E event \in Event : audit'[id] = Append(audit[id], event)
    BY <2>4, CompleteStepEffect, FailStepEffect, BoundsAssumption
       DEF OutcomeEffect, AuditEvent, Event, EventTypes
  <2>5. ASSUME ReviewStep(id) \/ LeaseExpires(id) PROVE audit'[id] = audit[id]
    BY <2>5, ReviewStepEffect, LeaseStepEffect DEF SameWorkflow
  <2> QED
    BY <2>1, <2>2, <2>3, <2>4, <2>5, Locality
<1> QED
  BY <1>2, <1>3, <1>4

\* The status a row has after a step is one it has had.
LEMMA StatusHad ==
    ASSUME RepoTypeOK', AuditReconstructsRow', NEW id \in RequestIds,
           requests'[id] # NoRow
    PROVE  HasHad(requests'[id].status, audit'[id])
<1> DEFINE h == audit'[id]
<1>1. h \in Seq(Event)
  BY DEF RepoTypeOK
<1>2. h # << >> /\ requests'[id].status = StatusAfter(h[Len(h)].type)
  BY DEF AuditReconstructsRow, Exists, HistoryTells, AuditTellsStatus
<1> HIDE DEF h
<1>3. Len(h) \in 1..Len(h)
  BY <1>1, <1>2
<1> QED
  BY <1>2, <1>3 DEF HasHad, h

\* Messages keep the request they are about.
CardsGrow ==
    \A m \in Messages : cards[m] # None =>
        cards'[m] # None /\ cards'[m].request = cards[m].request

RowsShow ==
    \A id \in RequestIds : Exists(id) /\ requests[id].review # None =>
        cards[requests[id].review].request = id

\* A task that does not move still has its own messages in hand.
LEMMA ShowerStays ==
    ASSUME IInv, ShowInv, [RepoNext]_repoVars, CardsGrow, NEW t \in Tasks
    PROVE  Shower(task[t], audit', cards')
<1>1. /\ task[t] \in Task /\ LocalOK(task[t], requests)
      /\ Shower(task[t], audit, cards)
  BY TaskFacts DEF ShowInv
<1>2. task[t].pc \in Syncing =>
          /\ task[t].request \in RequestIds
          /\ task[t].seen \in Row
          /\ task[t].seen.review # None =>
                /\ task[t].seen.review \in Messages
                /\ cards[task[t].seen.review] # None
  BY <1>1, NullAssumption
     DEF LocalOK, NamedOK, Named, NamedPoints, DataOK, IInv, CardsOK, Row
<1>3. task[t].pc = "record" =>
          task[t].posted \in Messages /\ cards[task[t].posted] # None
  BY <1>1 DEF LocalOK, DataOK, IInv, CardsOK, At
<1>4. task[t].pc \in Syncing =>
          HasHad(task[t].seen.status, audit'[task[t].request])
  BY <1>1, <1>2, HistoryKept DEF IInv, Shower
<1> QED
  BY <1>1, <1>2, <1>3, <1>4 DEF Shower, CardsGrow

\* What a step has to show of the rows, the task and the messages.
LEMMA ShowStep ==
    ASSUME IInv, ShowInv, [RepoNext]_repoVars, CardsGrow, RowsShow',
           NEW t \in Tasks, Shower(task'[t], audit', cards'),
           \A u \in Tasks \ {t} : task'[u] = task[u],
           \A m \in Messages : cards'[m] # None =>
              \/ cards'[m] = cards[m]
              \/ /\ cards'[m].request \in RequestIds
                 /\ HasHad(cards'[m].status, audit[cards'[m].request])
    PROVE  ShowInv'
<1>1. \A u \in Tasks : Shower(task'[u], audit', cards')
  BY ShowerStays
<1>2. CardsShowHistory'
  <2> SUFFICES ASSUME NEW m \in Messages, cards'[m] # None
               PROVE  HasHad(cards'[m].status, audit'[cards'[m].request])
    BY DEF CardsShowHistory, HasHad
  <2>1. /\ cards'[m].request \in RequestIds
        /\ HasHad(cards'[m].status, audit[cards'[m].request])
    <3>1. CASE cards'[m] = cards[m]
      <4>1. cards[m] \in [request : RequestIds, status : Statuses]
        BY <3>1 DEF IInv, WorldOK
      <4> QED
        BY <3>1, <4>1 DEF ShowInv, CardsShowHistory, HasHad
    <3> QED
      BY <3>1
  <2> QED
    BY <2>1, HistoryKept DEF IInv
<1> QED
  BY <1>1, <1>2 DEF ShowInv, RowsShow

\* Rows that take no new message still name their own.
LEMMA RowsShowStays ==
    ASSUME IInv, ShowInv, [RepoNext]_repoVars, CardsGrow,
           NEW id \in RequestIds, ~ReviewStep(id),
           requests'[id] # NoRow, requests'[id].review # None
    PROVE  cards'[requests'[id].review].request = id
<1>1. Exists(id) /\ requests'[id].review = requests[id].review
  <2>1. ASSUME StartStep(id) PROVE FALSE
    <3>1. PICK user, target, actor, person :
              requests'[id] = NewRow(user, target, actor, person)
      BY <2>1, StartStepEffect DEF StartEffect, IInv
    <3>2. NewRow(user, target, actor, person).review = None
      BY DEF NewRow
    <3> QED
      BY <3>1, <3>2
  <2>2. ASSUME \/ DecideStep(id) \/ ClaimStep(id) \/ CompleteStep(id)
               \/ FailStep(id) \/ LeaseExpires(id)
        PROVE  Exists(id) /\ requests'[id].review = requests[id].review
    BY <2>2, ExistsBefore, DecideStepEffect, ClaimStepEffect,
       CompleteStepEffect, FailStepEffect, LeaseStepEffect
       DEF DecideEffect, ClaimEffect, OutcomeEffect, IInv
  <2> QED
    BY <2>1, <2>2, Locality DEF Exists, IInv
<1>2. /\ requests[id].review \in Messages
      /\ cards[requests[id].review] # None
      /\ cards[requests[id].review].request = id
  BY <1>1, ExistingRow DEF IInv, CardsOK, ShowInv, Row
<1> QED
  BY <1>1, <1>2 DEF CardsGrow

-----------------------------------------------------------------------------

\* A step that leaves the column of the review messages alone.
LEMMA NoReviewStep ==
    ASSUME IInv, UNCHANGED reviewAudit
    PROVE  \A id \in RequestIds : ~ReviewStep(id)
<1> SUFFICES ASSUME NEW id \in RequestIds, ReviewStep(id) PROVE FALSE
  OBVIOUS
<1>1. PICK message \in Messages :
          reviewAudit'[id] = Append(reviewAudit[id], message)
  BY DEF ReviewStep, SetReviewMessage, IInv, RepoTypeOK
<1>2. reviewAudit[id] \in Seq(Messages)
  BY DEF IInv, RepoTypeOK
<1>3. Len(Append(reviewAudit[id], message)) = Len(reviewAudit[id]) + 1
  BY <1>2
<1>4. Len(reviewAudit[id]) \in Nat
  BY <1>2
<1> QED
  BY <1>1, <1>3, <1>4

\* A task that stops showing, or shows a row as it is after the step.
ShowsRow(t) ==
    \/ \E l : Set(t, l) /\ l.pc \notin Syncing
    \/ \E id \in RequestIds, after \in Points :
          requests'[id] # NoRow /\ Sync(t, id, requests'[id], after)

\* Such a step, of a task that touches no message.
LEMMA ShowRow ==
    ASSUME IInv, IInv', ShowInv, AuditReconstructsRow', [RepoNext]_repoVars,
           UNCHANGED <<reviewAudit, cards>>, NEW t \in Tasks, ShowsRow(t)
    PROVE  ShowInv'
<1>1. CardsGrow
  BY DEF CardsGrow
<1>2. RowsShow'
  BY <1>1, NoReviewStep, RowsShowStays DEF RowsShow, Exists
<1>3. \A u \in Tasks \ {t} : task'[u] = task[u]
  BY DEF ShowsRow, Set, Sync, IInv, TasksOK
<1>4. Shower(task'[t], audit', cards')
  <2>1. ASSUME NEW l, Set(t, l), l.pc \notin Syncing
        PROVE  Shower(task'[t], audit', cards')
    BY <2>1 DEF Set, IInv, TasksOK, Shower, Syncing
  <2>2. ASSUME NEW id \in RequestIds, NEW after \in Points,
               requests'[id] # NoRow, Sync(t, id, requests'[id], after)
        PROVE  Shower(task'[t], audit', cards')
    <3>1. /\ task'[t].pc = "review" /\ task'[t].request = id
          /\ task'[t].seen = requests'[id]
      BY <2>2, TaskFacts DEF Sync, Set, IInv, TasksOK, Task
    <3>2. HasHad(requests'[id].status, audit'[id])
      BY <2>2, StatusHad DEF IInv
    <3> QED
      BY <1>2, <2>2, <3>1, <3>2 DEF Shower, RowsShow, Exists
  <2> QED
    BY <2>1, <2>2 DEF ShowsRow
<1> QED
  BY <1>1, <1>2, <1>3, <1>4, ShowStep

\* Going anywhere but to a sync.
LEMMA GotoShows ==
    ASSUME IInv, NEW t \in Tasks, NEW pc,
           Goto(t, pc), pc \notin Syncing
    PROVE  ShowsRow(t)
<1> DEFINE l == [task[t] EXCEPT !.pc = pc]
<1>1. l.pc = pc
  BY TaskFacts DEF Task
<1> QED
  BY <1>1 DEF Goto, ShowsRow

\* A task that ends.
LEMMA FinishShows == ASSUME NEW t \in Tasks, Finish(t) PROVE ShowsRow(t)
<1>1. Idle.pc \notin Syncing
  BY DEF Idle, Syncing
<1> QED
  BY <1>1 DEF Finish, ShowsRow

\* Going on after a sync.
LEMMA ResumeShows ==
    ASSUME IInv, NEW t \in Tasks, task[t].pc \in Syncing,
           Resume(t, task[t].after)
    PROVE  ShowsRow(t)
<1>1. task[t].after \in {"idle", "reply", "provision", "denial", "account"}
  BY TaskFacts DEF LocalOK, SyncOK
<1> QED
  BY <1>1, FinishShows, GotoShows DEF Resume, Finish, Syncing

\* The answer to a call.
LEMMA AnswerShows ==
    ASSUME NEW t \in Tasks, NEW lost \in BOOLEAN, NEW k \in Task,
           k.pc \notin Syncing, Answered(t, lost, k)
    PROVE  ShowsRow(t)
<1> DEFINE l == [k EXCEPT !.pc = IF lost THEN "fail" ELSE @]
<1>1. l.pc \notin Syncing
  BY DEF Task, Syncing
<1> QED
  BY <1>1 DEF Answered, ShowsRow

\* The actions that touch no message show rows as they are, or nothing.
LEMMA RowActions ==
    ASSUME IInv, NEW t \in Tasks,
           \/ QuietAction(t)
           \/ Insert(t) \/ DecideRequest(t) \/ Claim(t) \/ RecordOutcome(t)
    PROVE  ShowsRow(t)
<1>1. task[t] \in Task /\ LocalOK(task[t], requests)
  BY TaskFacts
<1>2. ASSUME \/ Abort(t) \/ CheckRole(t) \/ CheckIdentity(t) \/ Reply(t)
             \/ SendDenial(t) \/ AuthorizeProvisioning(t) \/ CallFails(t)
             \/ TimesOut(t) \/ UsernameRefused(t) \/ CreateRecoveryLink(t)
      PROVE  ShowsRow(t)
  <2>1. Finish(t) \/ \E pc \in Points \ Syncing : Goto(t, pc)
    BY <1>2 DEF Abort, CheckRole, CheckIdentity, Reply, SendDenial,
                AuthorizeProvisioning, CallFails, TimesOut, UsernameRefused,
                CreateRecoveryLink, Points, Syncing
  <2> QED
    BY <2>1, FinishShows, GotoShows
<1>3. ASSUME Start(t) PROVE ShowsRow(t)
  <2>1. PICK kind, actor, user, target, id :
            Begin(t, kind, actor, user, target, id)
    BY <1>3 DEF Start, CallOnboard, CallOn, Click
  <2> DEFINE l == [Idle EXCEPT !.pc = "authorize", !.kind = kind,
                               !.actor = actor, !.user = user,
                               !.target = target, !.request = id]
  <2>2. l.pc \notin Syncing
    BY DEF Idle, Syncing
  <2> QED
    BY <2>1, <2>2 DEF Begin, ShowsRow
<1>4. ASSUME Authorize(t) PROVE ShowsRow(t)
  <2>1. CASE \/ Finish(t)
             \/ Goto(t, "role") \/ Goto(t, "decide") \/ Goto(t, "provision")
    BY <2>1, FinishShows, GotoShows DEF Syncing
  <2>2. CASE /\ task[t].kind = "status"
             /\ Sync(t, task[t].request, RowOf(t), "idle")
    <3>1. /\ task[t].request \in RequestIds
          /\ requests[task[t].request] # NoRow
      BY <1>1, <1>4, <2>2 DEF Authorize, At, LocalOK, NamedOK, Named
    <3> QED
      BY <1>4, <2>2, <3>1 DEF Authorize, RowOf, ShowsRow, Points
  <2>3. task[t].kind \in Kinds
    BY <1>1, <1>4 DEF Authorize, At, LocalOK, CallerOK
  <2> QED
    BY <1>4, <2>1, <2>2, <2>3 DEF Authorize, Kinds
<1>5. ASSUME ReadIdentity(t) PROVE ShowsRow(t)
  <2> DEFINE l == [task[t] EXCEPT !.pc = "insert",
                                  !.identity = identity[task[t].user]]
  <2>1. l.pc \notin Syncing
    BY <1>1 DEF Task, Syncing
  <2> QED
    BY <1>5, <2>1, FinishShows DEF ReadIdentity, ShowsRow
<1>6. ASSUME Select(t) PROVE ShowsRow(t)
  BY <1>6, FinishShows
     DEF Select, Conflicts, Active, Exists, ShowsRow, Points
<1>7. ASSUME SyncFails(t) PROVE ShowsRow(t)
  BY <1>7, FinishShows, ResumeShows DEF SyncFails, At, Syncing
<1>8. ASSUME FindUser(t) PROVE ShowsRow(t)
  <2>1. ASSUME NEW a, Set(t, [task[t] EXCEPT !.pc = "group", !.account = a])
        PROVE  ShowsRow(t)
    <3> DEFINE l == [task[t] EXCEPT !.pc = "group", !.account = a]
    <3>1. l.pc \notin Syncing
      BY <1>1 DEF Task, Syncing
    <3> QED
      BY <2>1, <3>1 DEF ShowsRow
  <2> QED
    BY <1>8, <2>1, GotoShows DEF FindUser, Syncing
<1>9. ASSUME NEW a \in Accounts, NEW lost \in BOOLEAN, CreateUser(t, a, lost)
      PROVE  ShowsRow(t)
  <2> DEFINE k1 == [task[t] EXCEPT !.pc = "group"]
             k == [task[t] EXCEPT !.pc = "group", !.account = a]
  <2>1. k1 \in Task
    BY <1>1, OneField DEF Points
  <2>2. k \in Task
    BY <2>1, OneField
  <2>3. k.pc \notin Syncing
    BY <1>1 DEF Task, Syncing
  <2> QED
    BY <1>9, <2>2, <2>3, AnswerShows DEF CreateUser
<1>10. ASSUME NEW lost \in BOOLEAN, AddToGroup(t, lost) \/ SendCompletion(t, lost)
       PROVE  ShowsRow(t)
  <2>1. PICK pc \in {"link", "complete"} :
            Answered(t, lost, [task[t] EXCEPT !.pc = pc])
    BY <1>10 DEF AddToGroup, SendCompletion
  <2> DEFINE k == [task[t] EXCEPT !.pc = pc]
  <2>2. k \in Task
    BY <1>1, OneField DEF Points
  <2>3. k.pc \notin Syncing
    BY <1>1 DEF Task, Syncing
  <2> QED
    BY <2>1, <2>2, <2>3, AnswerShows
<1>11. ASSUME Insert(t) PROVE ShowsRow(t)
  <2>1. ASSUME NEW id \in RequestIds,
               StartRequest(id, task[t].user, task[t].target, task[t].actor,
                            task[t].identity),
               Sync(t, id, requests'[id], "reply")
        PROVE  ShowsRow(t)
    <3>1. [RepoNext]_repoVars
      BY <1>11, InsertOK DEF GoodStep
    <3>2. StartStep(id)
      BY <1>1, <1>11, <2>1
         DEF StartStep, Insert, At, LocalOK, CallerOK, DataOK
    <3>3. requests'[id] # NoRow
      BY <3>2, StartStepEffect, NullAssumption DEF StartEffect, IInv
    <3> QED
      BY <2>1, <3>3 DEF ShowsRow, Points
  <2> QED
    BY <1>11, <2>1, GotoShows DEF Insert, Syncing
<1>12. ASSUME DecideRequest(t) \/ Claim(t) \/ RecordOutcome(t) PROVE ShowsRow(t)
  <2> DEFINE id == task[t].request
  <2>1. task[t].pc \in NamedPoints
    BY <1>12 DEF DecideRequest, Claim, RecordOutcome, At, NamedPoints, Holding
  <2>2. [RepoNext]_repoVars
    BY <1>12, DecideRequestOK, ClaimOK, RecordOutcomeOK DEF GoodStep
  <2>3. id \in RequestIds /\ requests'[id] # NoRow
    BY <2>1, <2>2, NamedFacts, CommittedRow
  <2>4. Finish(t) \/ \E after \in Points : Sync(t, id, requests'[id], after)
    BY <1>12 DEF DecideRequest, Claim, RecordOutcome, repoVars, Points
  <2> QED
    BY <2>3, <2>4, FinishShows DEF ShowsRow
<1> QED
  BY <1>2, <1>3, <1>4, <1>5, <1>6, <1>7, <1>8, <1>9, <1>10, <1>11, <1>12
     DEF QuietAction

\* They leave the review messages and their column alone.
LEMMA RowActionsQuiet ==
    ASSUME NEW t \in Tasks,
           \/ QuietAction(t)
           \/ Insert(t) \/ DecideRequest(t) \/ Claim(t) \/ RecordOutcome(t)
    PROVE  UNCHANGED <<reviewAudit, cards>>
<1>1. CASE QuietAction(t)
  BY <1>1
     DEF QuietAction, Start, CallOnboard, CallOn, Click, Begin, Abort,
         Authorize, CheckRole, ReadIdentity, CheckIdentity, Select, Reply,
         SendDenial, AuthorizeProvisioning, CallFails, TimesOut, FindUser,
         UsernameRefused, CreateRecoveryLink, SyncFails, CreateUser,
         AddToGroup, SendCompletion
<1>2. CASE Insert(t) \/ DecideRequest(t) \/ Claim(t) \/ RecordOutcome(t)
  BY <1>2
     DEF Insert, DecideRequest, Claim, RecordOutcome, StartRequest, Approve,
         Deny, Decide, ClaimProvisioning, MarkCompleted, MarkFailed, Commit,
         repoVars
<1> QED
  BY <1>1, <1>2

-----------------------------------------------------------------------------

\* What a task that shows a row has in hand.
LEMMA ShowerFacts ==
    ASSUME IInv, ShowInv, NEW t \in Tasks, task[t].pc \in Syncing
    PROVE  /\ task[t] \in Task /\ task[t].seen \in Row
           /\ task[t].request \in RequestIds
           /\ HasHad(task[t].seen.status, audit[task[t].request])
           /\ task[t].seen.review # None =>
                /\ task[t].seen.review \in Messages
                /\ cards[task[t].seen.review]
                     \in [request : RequestIds, status : Statuses]
                /\ cards[task[t].seen.review].request = task[t].request
           /\ task[t].pc = "record" =>
                /\ task[t].posted \in Messages
                /\ cards[task[t].posted].request = task[t].request
<1>1. /\ task[t] \in Task /\ LocalOK(task[t], requests)
      /\ Shower(task[t], audit, cards)
  BY TaskFacts DEF ShowInv
<1>2. task[t].seen \in Row /\ task[t].request \in RequestIds
  BY <1>1 DEF LocalOK, NamedOK, Named, NamedPoints, DataOK
<1>3. task[t].seen.review # None =>
        /\ task[t].seen.review \in Messages
        /\ cards[task[t].seen.review] # None
  BY <1>2, NullAssumption DEF IInv, CardsOK, Row
<1>4. task[t].seen.review # None =>
        cards[task[t].seen.review] \in [request : RequestIds, status : Statuses]
  BY <1>3 DEF IInv, WorldOK
<1>5. task[t].pc = "record" => task[t].posted \in Messages
  BY <1>1 DEF LocalOK, DataOK
<1> QED
  BY <1>1, <1>2, <1>3, <1>4, <1>5 DEF Shower

\* Rows while no transaction runs.
LEMMA RowsShowKept ==
    ASSUME IInv, ShowInv, CardsGrow, UNCHANGED <<requests, audit, reviewAudit>>
    PROVE  RowsShow' /\ [RepoNext]_repoVars
BY NoReviewStep, RowsShowStays DEF RowsShow, Exists, repoVars

\* An edit shows the status of the row in hand on a message of its request.
LEMMA EditShows ==
    ASSUME IInv, IInv', ShowInv, AuditReconstructsRow', NEW t \in Tasks,
           EditReview(t)
    PROVE  ShowInv'
<1> DEFINE m == task[t].seen.review
<1>1. /\ task[t].pc = "review" /\ task[t].pc \in Syncing /\ m # None
      /\ UNCHANGED <<requests, audit, reviewAudit>>
  BY DEF EditReview, At, Syncing
<1>2. /\ task[t] \in Task /\ task[t].seen \in Row
      /\ task[t].request \in RequestIds
      /\ HasHad(task[t].seen.status, audit[task[t].request])
      /\ m \in Messages
      /\ cards[m] \in [request : RequestIds, status : Statuses]
      /\ cards[m].request = task[t].request
  BY <1>1, ShowerFacts
<1>3. /\ CardsGrow
      /\ cards'[m].request = task[t].request
      /\ \A other \in Messages : cards'[other] = cards[other]
           \/ /\ cards'[other].request \in RequestIds
              /\ HasHad(cards'[other].status, audit[cards'[other].request])
  <2>1. CASE UNCHANGED cards
    BY <1>2, <2>1 DEF CardsGrow
  <2>2. CASE ShowsSeen(t)
    <3>1. /\ cards'[m].request = task[t].request
          /\ cards'[m].status = task[t].seen.status
          /\ \A other \in Messages \ {m} : cards'[other] = cards[other]
          /\ cards'[m] \in [request : RequestIds, status : Statuses]
      BY <1>2, <2>2 DEF ShowsSeen, IInv, WorldOK, Row
    <3> QED
      BY <1>2, <3>1, ScenarioAssumption DEF CardsGrow
  <2> QED
    BY <2>1, <2>2 DEF EditReview
<1>4. CASE Goto(t, "post")
  <2>1. \A u \in Tasks \ {t} : task'[u] = task[u]
    BY <1>4 DEF Goto, Set, IInv, TasksOK
  <2>2. /\ task'[t].pc = "post" /\ task'[t].request = task[t].request
        /\ task'[t].seen = task[t].seen
    BY <1>2, <1>4 DEF Goto, Set, IInv, TasksOK, Task
  <2>3. Shower(task'[t], audit', cards')
    BY <1>1, <1>2, <1>3, <2>2 DEF Shower
  <2> QED
    BY <1>1, <1>3, <2>1, <2>3, RowsShowKept, ShowStep
<1>5. CASE Resume(t, task[t].after)
  <2>1. ShowsRow(t)
    BY <1>1, <1>5, ResumeShows
  <2>2. \A u \in Tasks \ {t} : task'[u] = task[u]
    BY <2>1 DEF ShowsRow, Set, Sync, IInv, TasksOK
  <2>3. task'[t].pc \notin Syncing
    <3>1. task[t].after \notin Syncing
      BY <1>1, TaskFacts DEF LocalOK, SyncOK, Syncing
    <3>2. task'[t] = Idle \/ task'[t] = [task[t] EXCEPT !.pc = task[t].after]
      BY <1>5 DEF Resume, Goto, Set, IInv, TasksOK
    <3> QED
      BY <1>2, <3>1, <3>2 DEF Idle, Task, Syncing
  <2>4. Shower(task'[t], audit', cards')
    BY <2>3 DEF Shower, Syncing
  <2> QED
    BY <1>1, <1>3, <2>2, <2>4, RowsShowKept, ShowStep
<1> QED
  BY <1>4, <1>5 DEF EditReview

\* A post shows the row in hand on a new message of its request.
LEMMA PostShows ==
    ASSUME IInv, IInv', ShowInv, NEW t \in Tasks, NEW message \in Messages,
           PostReview(t, message)
    PROVE  ShowInv'
<1>1. /\ task[t].pc \in Syncing /\ cards[message] = None
      /\ UNCHANGED <<requests, audit, reviewAudit>>
      /\ cards' = [cards EXCEPT ![message] =
                    [request |-> task[t].request, status |-> task[t].seen.status]]
  BY DEF PostReview, At, Syncing
<1>2. /\ task[t] \in Task /\ task[t].seen \in Row
      /\ task[t].request \in RequestIds
      /\ HasHad(task[t].seen.status, audit[task[t].request])
      /\ task[t].seen.review # None =>
           /\ task[t].seen.review \in Messages
           /\ cards[task[t].seen.review]
                \in [request : RequestIds, status : Statuses]
           /\ cards[task[t].seen.review].request = task[t].request
  BY <1>1, ShowerFacts
<1>3. /\ cards'[message].request = task[t].request
      /\ cards'[message].status = task[t].seen.status
      /\ \A other \in Messages \ {message} : cards'[other] = cards[other]
  BY <1>1 DEF IInv, WorldOK
<1>4. CardsGrow
  BY <1>1, <1>3 DEF CardsGrow
<1>5. /\ task'[t].pc = "record" /\ task'[t].request = task[t].request
      /\ task'[t].seen = task[t].seen /\ task'[t].posted = message
      /\ \A u \in Tasks \ {t} : task'[u] = task[u]
  BY <1>2 DEF PostReview, Set, IInv, TasksOK, Task
<1>6. task[t].seen.review # None => task[t].seen.review # message
  BY <1>1, <1>2, ScenarioAssumption
<1>7. Shower(task'[t], audit', cards')
  BY <1>1, <1>2, <1>3, <1>5, <1>6 DEF Shower
<1> QED
  BY <1>1, <1>2, <1>3, <1>4, <1>5, <1>7, RowsShowKept, ShowStep

\* The message recorded is one about the request.
LEMMA RecordShows ==
    ASSUME IInv, IInv', ShowInv, AuditReconstructsRow', NEW t \in Tasks,
           RecordReview(t)
    PROVE  ShowInv'
<1> DEFINE id == task[t].request
<1>1. /\ task[t].pc = "record" /\ task[t].pc \in Syncing
      /\ UNCHANGED <<audit, cards>>
      /\ SetReviewMessage(id, task[t].posted)
  BY DEF RecordReview, SetReviewMessage, At, Syncing
<1>2. /\ task[t] \in Task /\ id \in RequestIds
      /\ task[t].posted \in Messages
      /\ cards[task[t].posted].request = id
      /\ requests[id] \in Row
  BY <1>1, ShowerFacts, NamedFacts DEF NamedPoints
<1>3. [RepoNext]_repoVars /\ CardsGrow
  BY <1>1, RecordReviewOK DEF GoodStep, CardsGrow
<1>4. /\ requests'[id].review = task[t].posted
      /\ \A other \in RequestIds \ {id} : requests'[other] = requests[other]
  BY <1>1, <1>2 DEF SetReviewMessage, IInv, RepoTypeOK, Row
<1>5. RowsShow'
  BY <1>1, <1>2, <1>4 DEF RowsShow, ShowInv, Exists
<1>6. \A u \in Tasks \ {t} : task'[u] = task[u]
  BY DEF RecordReview, Resume, Goto, Set, IInv, TasksOK
<1>7. task'[t].pc \notin Syncing
  <2>1. task[t].after \notin Syncing
    BY <1>1, TaskFacts DEF LocalOK, SyncOK, Syncing
  <2>2. \/ task'[t] = Idle \/ task'[t] = [task[t] EXCEPT !.pc = task[t].after]
        \/ task'[t] = [task[t] EXCEPT !.pc = "reply", !.seen = requests'[id]]
    BY DEF RecordReview, Resume, Goto, Set, IInv, TasksOK
  <2>3. /\ [task[t] EXCEPT !.pc = task[t].after].pc = task[t].after
        /\ [task[t] EXCEPT !.pc = "reply", !.seen = requests'[id]].pc = "reply"
        /\ Idle.pc = "idle"
    BY <1>2 DEF Idle, Task
  <2> QED
    BY <2>1, <2>2, <2>3 DEF Syncing
<1>8. Shower(task'[t], audit', cards')
  BY <1>7 DEF Shower, Syncing
<1> QED
  BY <1>1, <1>3, <1>5, <1>6, <1>8, ShowStep

\* Every step keeps the invariant of the review messages.
LEMMA ShowInvStep ==
    ASSUME IInv, IInv', ShowInv, AuditReconstructsRow', [Next]_vars
    PROVE  ShowInv'
<1>1. [RepoNext]_repoVars
  BY InvStep
<1>2. ASSUME NEW t \in Tasks, Start(t) \/ Progress(t) \/ Abort(t)
      PROVE  ShowInv'
  <2>1. CASE \/ QuietAction(t)
             \/ Insert(t) \/ DecideRequest(t) \/ Claim(t) \/ RecordOutcome(t)
    BY <1>1, <2>1, RowActions, RowActionsQuiet, ShowRow
  <2> QED
    BY <1>2, <2>1, EditShows, PostShows, RecordShows DEF Progress, QuietAction
<1>3. CASE Environment \/ UNCHANGED vars
  <2>1. UNCHANGED <<reviewAudit, cards, task>>
    BY <1>3 DEF Environment, TimePasses, LeaseExpires, RoleChanges,
                IdentityChanges, OfficerChanges, LateUser, LateMember,
                authentik, vars
  <2>2. CardsGrow
    BY <2>1 DEF CardsGrow
  <2>3. RowsShow'
    BY <1>1, <2>1, <2>2, NoReviewStep, RowsShowStays DEF RowsShow, Exists
  <2>4. \A u \in Tasks : Shower(task'[u], audit', cards')
    BY <1>1, <2>1, <2>2, ShowerStays
  <2>5. CardsShowHistory'
    <3> SUFFICES ASSUME NEW m \in Messages, cards[m] # None
                 PROVE  HasHad(cards[m].status, audit'[cards[m].request])
      BY <2>1 DEF CardsShowHistory, HasHad
    <3>1. cards[m].request \in RequestIds
      BY DEF IInv, WorldOK
    <3>2. HasHad(cards[m].status, audit[cards[m].request])
      BY DEF ShowInv, CardsShowHistory, HasHad
    <3> QED
      BY <1>1, <3>1, <3>2, HistoryKept DEF IInv
  <2> QED
    BY <2>3, <2>4, <2>5 DEF ShowInv, RowsShow
<1> QED
  BY <1>2, <1>3 DEF Next

(***************************************************************************)
(* Every review message shows a status its request has had, however many   *)
(* handlers edit and post at once.                                         *)
(***************************************************************************)
THEOREM CardsShowHistoryHolds == Spec => []CardsShowHistory
<1>1. Init => ShowInv
  BY DEF Init, RepoInit, ShowInv, CardsShowHistory, Shower, Idle, Syncing, Exists
<1>2. ShowInv => CardsShowHistory
  BY DEF ShowInv
<1>3. IInv /\ IInv' /\ ShowInv /\ AuditReconstructsRow' /\ [Next]_vars => ShowInv'
  BY ShowInvStep
<1> QED
  BY <1>1, <1>2, <1>3, Invariance, HandlersKeepHistory, PTL DEF Spec

-----------------------------------------------------------------------------

\* The abstract state that the tables and Authentik stand for.
Access == {<<accounts[m[1]], m[2]>> : m \in members}

Refines == [Lifecycle!LifecycleNext]_Lifecycle!lifecycleVars

\* Requests move, or access is given, while the other of the two stays.
Seen(id) == Phase(id)' = Phase(id) /\ Subject(id)' = Subject(id)

\* A step that none of this shows is no step of the lifecycle.
LEMMA NothingSeen ==
    ASSUME \A id \in RequestIds : Seen(id), Access' = Access
    PROVE  Refines
BY DEF Refines, Lifecycle!lifecycleVars, Seen, Access

\* The step of one request while nobody is given access.
LEMMA OneSeen ==
    ASSUME NEW id \in RequestIds, Access' = Access,
           \A other \in RequestIds \ {id} : Seen(other)
    PROVE  /\ [i \in RequestIds |-> Phase(i)]'
                = [[i \in RequestIds |-> Phase(i)] EXCEPT ![id] = Phase(id)']
           /\ [i \in RequestIds |-> Subject(i)]'
                = [[i \in RequestIds |-> Subject(i)] EXCEPT ![id] = Subject(id)']
           /\ {<<accounts[m[1]], m[2]>> : m \in members}'
                = {<<accounts[m[1]], m[2]>> : m \in members}
BY DEF Seen, Access

\* Rows that a step leaves alone look the same.
LEMMA SameRowSeen ==
    ASSUME NEW id \in RequestIds, requests'[id] = requests[id]
    PROVE  Seen(id)
BY DEF Seen, Phase, Subject, Exists

\* A row that keeps its key keeps its subject.
LEMMA SameSubject ==
    ASSUME NEW id \in RequestIds, Exists(id), requests'[id] # NoRow,
           SameKey(requests[id], requests'[id])
    PROVE  Subject(id)' = Subject(id)
BY DEF Subject, Exists, SameKey

\* A new request opens: no other of its user for its target is alive.
LEMMA StartRefines ==
    ASSUME RepoTypeOK, SchemaChecks, NEW id \in RequestIds, StartStep(id),
           \A other \in RequestIds \ {id} : Seen(other), Access' = Access
    PROVE  Refines
<1>1. PICK user \in Users, target \in Targets, actor \in Actors,
           person \in Identities :
        /\ ~Exists(id)
        /\ Conflicts(user, target) = {}
        /\ requests'[id] = NewRow(user, target, actor, person)
        /\ requests'[id] \in Row
  BY StartStepEffect DEF StartEffect
<1> DEFINE s == [user |-> user, target |-> target, email |-> person.email]
<1>2. s \in [user : Users, target : Targets, email : Emails]
  BY IdentityAssumption
<1>3. /\ requests'[id].status = "pending" /\ requests'[id].decidedBy = None
      /\ requests'[id].user = user /\ requests'[id].target = target
      /\ requests'[id].identity = person
  BY <1>1 DEF NewRow
<1>4. /\ Phase(id) = "none" /\ Phase(id)' = "open"
      /\ Subject(id)' = s
  BY <1>1, <1>3, NullAssumption DEF Phase, Subject, Exists, Decision
<1>5. ASSUME NEW other \in RequestIds,
             Phase(other) \in {"open", "approved", "completed"}
      PROVE  Subject(other).user # s.user \/ Subject(other).target # s.target
  <2>1. Exists(other)
    BY <1>5 DEF Phase
  <2>2. requests[other].status # "denied"
    BY <1>5, <2>1, NullAssumption DEF Phase, Decision, SchemaChecks, RowChecks
  <2>3. requests[other].user # user \/ requests[other].target # target
    BY <1>1, <2>1, <2>2 DEF Conflicts, Active, Exists
  <2> QED
    BY <2>1, <2>3 DEF Subject
<1> HIDE DEF s
<1>6. Lifecycle!Open(id, s)
  BY <1>4, <1>5, OneSeen DEF Lifecycle!Open
<1> QED
  BY <1>2, <1>6 DEF Refines, Lifecycle!LifecycleNext

\* A decision settles the request.
LEMMA DecideRefines ==
    ASSUME RepoTypeOK, SchemaChecks, NEW id \in RequestIds, DecideStep(id),
           \A other \in RequestIds \ {id} : Seen(other), Access' = Access
    PROVE  Refines
<1>1. Exists(id) /\ RowChecks(requests[id])
  BY ExistsBefore DEF SchemaChecks
<1>2. PICK actor \in Actors, decision \in {"approved", "denied"} :
        /\ requests[id].status = "pending"
        /\ requests'[id] \in Row
        /\ SameKey(requests[id], requests'[id])
        /\ requests'[id].status = decision
        /\ requests'[id].decidedBy = actor
  BY DecideStepEffect DEF DecideEffect
<1>3. requests'[id] # NoRow
  BY <1>2, NullAssumption
<1>4. Phase(id) = "open" /\ Phase(id)' = decision
  BY <1>1, <1>2, <1>3, NullAssumption DEF Phase, Exists, Decision, RowChecks
<1>5. Subject(id)' = Subject(id)
  BY <1>1, <1>2, <1>3, SameSubject
<1>6. Lifecycle!Settle(id, decision)
  BY <1>4, <1>5, OneSeen DEF Lifecycle!Settle
<1> QED
  BY <1>6 DEF Refines, Lifecycle!LifecycleNext

\* Attempts, their failures, review messages and time are not seen.
LEMMA AttemptSeen ==
    ASSUME RepoTypeOK, SchemaChecks, NEW id \in RequestIds,
           \/ ClaimStep(id) \/ FailStep(id) \/ ReviewStep(id)
           \/ LeaseExpires(id)
    PROVE  Seen(id)
<1>1. Exists(id) /\ RowChecks(requests[id])
  BY ExistsBefore DEF SchemaChecks
<1>2. /\ requests'[id] \in Row
      /\ SameKey(requests[id], requests'[id])
      /\ requests'[id].decidedBy = requests[id].decidedBy
      /\ \/ requests'[id].status = requests[id].status
         \/ /\ requests[id].status \in {"approved", "failed", "provisioning"}
            /\ requests'[id].status \in {"provisioning", "failed"}
  BY ClaimStepEffect, FailStepEffect, ReviewStepEffect, LeaseStepEffect
     DEF ClaimEffect, OutcomeEffect, SameWorkflow
<1>3. requests'[id] # NoRow
  BY <1>2, NullAssumption
<1>4. Phase(id)' = Phase(id)
  BY <1>1, <1>2, <1>3 DEF Phase, Exists, Decision
<1> QED
  BY <1>1, <1>2, <1>3, <1>4, SameSubject DEF Seen

\* A completion finds the access given.
LEMMA CompleteRefines ==
    ASSUME RepoTypeOK, RepoTypeOK', SchemaChecks, CompletedMeansProvisioned',
           NEW id \in RequestIds, CompleteStep(id),
           UNCHANGED <<accounts, members>>,
           \A other \in RequestIds \ {id} : Seen(other), Access' = Access
    PROVE  Refines
<1>1. Exists(id) /\ RowChecks(requests[id])
  BY ExistsBefore DEF SchemaChecks
<1>2. /\ requests[id].status = "provisioning"
      /\ requests'[id] \in Row
      /\ SameKey(requests[id], requests'[id])
      /\ requests'[id].status = "completed"
  BY CompleteStepEffect DEF OutcomeEffect
<1>3. requests'[id] # NoRow
  BY <1>2, NullAssumption
<1>4. Phase(id) = "approved" /\ Phase(id)' = "completed"
  BY <1>1, <1>2, <1>3 DEF Phase, Exists, Decision, RowChecks
<1>5. Subject(id)' = Subject(id)
  BY <1>1, <1>2, <1>3, SameSubject
<1>6. <<Subject(id).email, Subject(id).target>> \in Access
  <2> DEFINE row == requests'[id]
  <2>1. accounts[row.account] = row.identity.email
    BY <1>2, <1>3 DEF CompletedMeansProvisioned, Exists
  <2>2. <<row.account, row.target>> \in members
    BY <1>2, <1>3 DEF CompletedMeansProvisioned, Exists
  <2>3. /\ Subject(id).email = row.identity.email
        /\ Subject(id).target = row.target
    BY <1>1, <1>2 DEF Subject, SameKey
  <2> HIDE DEF row
  <2> QED
    BY <2>1, <2>2, <2>3 DEF Access
<1>7. Lifecycle!Complete(id)
  BY <1>4, <1>5, <1>6, OneSeen DEF Lifecycle!Complete, Lifecycle!Grant, Access
<1> QED
  BY <1>7 DEF Refines, Lifecycle!LifecycleNext

\* Every transaction is a step of the lifecycle or is not seen in it.
LEMMA TransactionsRefine ==
    ASSUME RepoTypeOK, SchemaChecks, CompletedMeansProvisioned',
           [RepoNext]_repoVars, UNCHANGED <<accounts, members>>
    PROVE  Refines
<1>1. Access' = Access /\ RepoTypeOK'
  BY TypeStep DEF Access
<1>2. CASE UNCHANGED repoVars
  BY <1>1, <1>2, SameRowSeen, NothingSeen DEF repoVars
<1>3. ASSUME NEW id \in RequestIds,
             \/ StartStep(id) \/ DecideStep(id) \/ ClaimStep(id)
             \/ CompleteStep(id) \/ FailStep(id) \/ ReviewStep(id)
             \/ LeaseExpires(id)
      PROVE  Refines
  <2>1. \A other \in RequestIds \ {id} : Seen(other)
    <3> SUFFICES ASSUME NEW other \in RequestIds \ {id}
                 PROVE  requests'[other] = requests[other]
      BY SameRowSeen
    <3> QED
      BY <1>3 DEF StartStep, DecideStep, ClaimStep, CompleteStep, FailStep,
                  ReviewStep, StartRequest, Decide, ClaimProvisioning,
                  MarkCompleted, MarkFailed, SetReviewMessage, LeaseExpires,
                  Commit, RepoTypeOK
  <2>2. CASE ClaimStep(id) \/ FailStep(id) \/ ReviewStep(id) \/ LeaseExpires(id)
    BY <1>1, <2>1, <2>2, AttemptSeen, NothingSeen
  <2> QED
    BY <1>1, <1>3, <2>1, <2>2, StartRefines, DecideRefines, CompleteRefines
<1> QED
  BY <1>2, <1>3, StepCases

-----------------------------------------------------------------------------

\* An account that is in a group has an address.
LEMMA MembersHaveAddresses ==
    ASSUME IInv, WorkInv, NEW m \in members
    PROVE  /\ m \in Accounts \X Targets
           /\ accounts[m[1]] # None
<1>1. m \in Accounts \X Targets
  BY DEF IInv, WorldOK
<1>2. PICK a \in Accounts, target \in Targets : m = <<a, target>>
  BY <1>1
<1>3. \E id \in RequestIds :
        Exists(id) /\ requests[id].identity.email = accounts[a]
  BY <1>2 DEF WorkInv, AccessNeedsApproval
<1>4. accounts[a] # None
  BY <1>3, ExistingRow, IdentityAssumption, ScenarioAssumption DEF IInv, Row
<1> QED
  BY <1>1, <1>2, <1>4

\* A new account gives nobody access.
LEMMA CreationRefines ==
    ASSUME IInv, WorkInv, NEW a \in Accounts, NEW email, accounts[a] = None,
           accounts' = [accounts EXCEPT ![a] = email],
           UNCHANGED <<requests, members>>
    PROVE  Refines
<1>1. \A m \in members : accounts'[m[1]] = accounts[m[1]]
  BY MembersHaveAddresses DEF IInv, WorldOK
<1>2. Access' = Access
  BY <1>1 DEF Access
<1> QED
  BY <1>2, SameRowSeen, NothingSeen

\* A new member is access given on an approved request, or given before.
LEMMA MemberRefines ==
    ASSUME IInv, WorkInv, NEW a \in Accounts, NEW target \in Targets,
           Covered(a, target), UNCHANGED <<requests, accounts>>,
           members' = members \cup {<<a, target>>}
    PROVE  Refines
<1> DEFINE grant == <<accounts[a], target>>
<1>1. Access' = Access \cup {grant}
  <2> DEFINE new == <<a, target>>
             pair(m) == <<accounts[m[1]], m[2]>>
  <2>1. new[1] = a /\ new[2] = target /\ pair(new) = grant
    OBVIOUS
  <2>2. /\ Access = {pair(m) : m \in members}
        /\ Access' = {pair(m) : m \in members'}
        /\ members' = members \cup {new}
    BY DEF Access
  <2> HIDE DEF pair, new, grant
  <2> QED
    BY <2>1, <2>2
<1>2. \A i \in RequestIds : Seen(i)
  BY SameRowSeen
<1>3. PICK id \in RequestIds :
        /\ Exists(id)
        /\ requests[id].target = target
        /\ requests[id].identity.email = accounts[a]
        /\ Decision(requests[id]) = "approved"
  BY DEF Covered
<1>4. grant = <<Subject(id).email, Subject(id).target>>
  BY <1>3 DEF Subject
<1> HIDE DEF grant
<1>5. CASE Phase(id) = "completed"
  <2>1. /\ accounts[requests[id].account] = requests[id].identity.email
        /\ <<requests[id].account, requests[id].target>> \in members
    BY <1>3, <1>5 DEF Phase, Decision, WorkInv, CompletedMeansProvisioned
  <2>2. grant = <<accounts[requests[id].account], requests[id].target>>
    BY <1>3, <2>1 DEF grant
  <2>3. grant \in Access
    BY <2>1, <2>2 DEF Access
  <2> QED
    BY <1>1, <1>2, <2>3, NothingSeen
<1>6. CASE Phase(id) = "approved"
  <2>1. /\ [i \in RequestIds |-> Phase(i)]' = [i \in RequestIds |-> Phase(i)]
        /\ [i \in RequestIds |-> Subject(i)]'
             = [i \in RequestIds |-> Subject(i)]
    BY <1>2 DEF Seen
  <2>2. Lifecycle!Grant(id) = grant
    BY <1>3, <1>4 DEF Lifecycle!Grant
  <2>3. Lifecycle!GiveAccess(id)
    BY <1>1, <1>3, <1>6, <2>1, <2>2 DEF Lifecycle!GiveAccess, Access
  <2> QED
    BY <1>3, <2>3 DEF Refines, Lifecycle!LifecycleNext
<1> QED
  BY <1>3, <1>5, <1>6 DEF Phase

\* Every step of the handlers is one of the lifecycle, or none.
LEMMA RefinementStep ==
    ASSUME IInv, WorkInv, SchemaChecks, [Next]_vars, WorkInv'
    PROVE  Refines
<1>1. [RepoNext]_repoVars /\ RepoTypeOK /\ CompletedMeansProvisioned'
  BY InvStep DEF IInv, WorkInv
<1>2. CASE UNCHANGED <<accounts, members>>
  BY <1>1, <1>2, TransactionsRefine
<1>3. ASSUME NEW t \in Tasks, Start(t) \/ Abort(t) \/ Progress(t)
      PROVE  Refines
  <2>1. ASSUME ~\E a \in Accounts, lost \in BOOLEAN : CreateUser(t, a, lost),
               ~\E lost \in BOOLEAN : AddToGroup(t, lost)
        PROVE  UNCHANGED <<accounts, members>>
    BY <1>3, <2>1
       DEF Start, CallOnboard, CallOn, Click, Begin, Abort, Progress,
           Authorize, CheckRole, ReadIdentity, CheckIdentity, Insert, Select,
           Reply, DecideRequest, SendDenial, AuthorizeProvisioning, Claim,
           CallFails, TimesOut, FindUser, UsernameRefused, CreateRecoveryLink,
           SendCompletion, RecordOutcome, EditReview, SyncFails, RecordReview,
           PostReview, authentik
  <2>2. ASSUME NEW a \in Accounts, NEW lost \in BOOLEAN, CreateUser(t, a, lost)
        PROVE  Refines
    BY <2>2, CreationRefines DEF CreateUser
  <2>3. ASSUME NEW lost \in BOOLEAN, AddToGroup(t, lost)
        PROVE  Refines
    <3>1. /\ task[t].account \in Accounts /\ task[t].target \in Targets
          /\ Covered(task[t].account, task[t].target)
          /\ UNCHANGED <<requests, accounts>>
          /\ members' = members \cup {<<task[t].account, task[t].target>>}
      <4>1. task[t].pc = "group"
        BY <2>3 DEF AddToGroup, At
      <4>2. task[t].account \in Accounts
        BY <4>1, TaskFacts DEF LocalOK, DataOK
      <4>3. task[t].target \in Targets
        BY <4>1, WorkerFacts DEF WorkInv, Holds, Holding, Row
      <4> QED
        BY <2>3, <4>1, <4>2, <4>3, AttemptCovers DEF AddToGroup
    <3> QED
      BY <3>1, MemberRefines
  <2> QED
    BY <1>2, <2>1, <2>2, <2>3
<1>4. ASSUME NEW email \in lateUsers, LateUser(email)
      PROVE  Refines
  BY <1>2, <1>4, CreationRefines DEF LateUser
<1>5. ASSUME NEW m \in lateMembers, LateMember(m)
      PROVE  Refines
  <2>1. PICK a \in Accounts, target \in Targets : m = <<a, target>>
    BY DEF IInv, WorldOK
  <2>2. Covered(a, target)
    BY <2>1 DEF WorkInv, LateOK
  <2> QED
    BY <1>5, <2>1, <2>2, MemberRefines DEF LateMember
<1>6. CASE Environment \/ UNCHANGED vars
  BY <1>2, <1>4, <1>5, <1>6
     DEF Environment, TimePasses, RoleChanges, IdentityChanges, OfficerChanges,
         authentik, vars
<1> QED
  BY <1>3, <1>6 DEF Next

\* At first there is no request and no access.
LEMMA RefinementInit == Init => Lifecycle!LifecycleInit
BY DEF Init, RepoInit, Lifecycle!LifecycleInit, Phase, Subject, Exists

(***************************************************************************)
(* The handlers implement the lifecycle, for any number of tasks, requests *)
(* and accounts: a request is decided once, access is given to the address *)
(* of an approved request only, and a completed request has its access.    *)
(***************************************************************************)
THEOREM ImplementsLifecycleHolds == Spec => ImplementsLifecycle
<1>1. IInv /\ WorkInv /\ SchemaChecks /\ [Next]_vars /\ WorkInv' =>
        [Lifecycle!LifecycleNext]_Lifecycle!lifecycleVars
  BY RefinementStep DEF Refines
<1> QED
  BY <1>1, RefinementInit, Invariance, WorkInvariance, HandlersKeepSchema, PTL
     DEF Spec, ImplementsLifecycle, Lifecycle!LifecycleSpec

-----------------------------------------------------------------------------

\* No phase goes back to before the approval, no approved subject changes,
\* and what is given is the grant of an approved request.
LEMMA ApprovalLasts ==
    ASSUME [Lifecycle!LifecycleNext]_Lifecycle!lifecycleVars
    PROVE  /\ \A id \in RequestIds : Phase(id) \in {"approved", "completed"} =>
                 /\ Phase(id)' \in {"approved", "completed"}
                 /\ Subject(id)' = Subject(id)
           /\ \A m \in members' :
                 \/ \E n \in members : <<accounts[n[1]], n[2]>>
                                          = <<accounts[m[1]], m[2]>>'
                 \/ \E id \in RequestIds :
                       /\ Phase(id) = "approved"
                       /\ <<accounts[m[1]], m[2]>>'
                             = <<Subject(id).email, Subject(id).target>>
<1>1. ASSUME NEW id \in RequestIds,
             NEW s \in [user : Users, target : Targets, email : Emails],
             Lifecycle!Open(id, s)
      PROVE  /\ Phase(id) = "none"
             /\ \A other \in RequestIds \ {id} :
                   Phase(other)' = Phase(other) /\ Subject(other)' = Subject(other)
             /\ UNCHANGED {<<accounts[m[1]], m[2]>> : m \in members}
  BY <1>1 DEF Lifecycle!Open
<1>2. ASSUME NEW id \in RequestIds, NEW decision \in {"approved", "denied"},
             Lifecycle!Settle(id, decision)
      PROVE  /\ Phase(id) = "open"
             /\ \A other \in RequestIds : Subject(other)' = Subject(other)
             /\ \A other \in RequestIds \ {id} : Phase(other)' = Phase(other)
             /\ UNCHANGED {<<accounts[m[1]], m[2]>> : m \in members}
  BY <1>2 DEF Lifecycle!Settle
<1>3. ASSUME NEW id \in RequestIds, Lifecycle!GiveAccess(id)
      PROVE  /\ Phase(id) = "approved"
             /\ \A other \in RequestIds :
                   Phase(other)' = Phase(other) /\ Subject(other)' = Subject(other)
             /\ {<<accounts[m[1]], m[2]>> : m \in members}'
                  = {<<accounts[m[1]], m[2]>> : m \in members}
                      \cup {<<Subject(id).email, Subject(id).target>>}
  BY <1>3 DEF Lifecycle!GiveAccess, Lifecycle!Grant
<1>4. ASSUME NEW id \in RequestIds, Lifecycle!Complete(id)
      PROVE  /\ Phase(id)' = "completed"
             /\ \A other \in RequestIds : Subject(other)' = Subject(other)
             /\ \A other \in RequestIds \ {id} : Phase(other)' = Phase(other)
             /\ UNCHANGED {<<accounts[m[1]], m[2]>> : m \in members}
  BY <1>4 DEF Lifecycle!Complete
<1>5. CASE UNCHANGED Lifecycle!lifecycleVars
  <2>1. /\ \A id \in RequestIds :
              Phase(id)' = Phase(id) /\ Subject(id)' = Subject(id)
        /\ UNCHANGED {<<accounts[m[1]], m[2]>> : m \in members}
    BY <1>5 DEF Lifecycle!lifecycleVars
  <2> QED
    BY <2>1
<1>6. ASSUME NEW id \in RequestIds,
             \/ \E s \in [user : Users, target : Targets, email : Emails] :
                  Lifecycle!Open(id, s)
             \/ \E decision \in {"approved", "denied"} :
                  Lifecycle!Settle(id, decision)
             \/ Lifecycle!Complete(id)
      PROVE  /\ \A other \in RequestIds :
                   Phase(other) \in {"approved", "completed"} =>
                     /\ Phase(other)' \in {"approved", "completed"}
                     /\ Subject(other)' = Subject(other)
             /\ UNCHANGED {<<accounts[m[1]], m[2]>> : m \in members}
  BY <1>1, <1>2, <1>4, <1>6
<1> QED
  BY <1>3, <1>5, <1>6 DEF Lifecycle!LifecycleNext

(***************************************************************************)
(* The lifecycle is worth implementing: whoever has access in it has it on *)
(* an approved request for that address and target.                        *)
(***************************************************************************)
THEOREM LifecycleNeedsApproval ==
    Lifecycle!LifecycleSpec => []Lifecycle!AccessIsApproved
<1>1. Lifecycle!LifecycleInit => Lifecycle!AccessIsApproved
  BY DEF Lifecycle!LifecycleInit, Lifecycle!AccessIsApproved
<1>2. /\ Lifecycle!AccessIsApproved
      /\ [Lifecycle!LifecycleNext]_Lifecycle!lifecycleVars
      => Lifecycle!AccessIsApproved'
  BY ApprovalLasts DEF Lifecycle!AccessIsApproved, Lifecycle!Grant
<1> QED
  BY <1>1, <1>2, PTL DEF Lifecycle!LifecycleSpec

\* Hence the handlers never give access nobody approved: every pair of an
\* address and a target in Authentik is the grant of an approved request.
COROLLARY AccessIsApprovedHolds == Spec => []Lifecycle!AccessIsApproved
BY LifecycleNeedsApproval, ImplementsLifecycleHolds DEF ImplementsLifecycle
=============================================================================
