--------------------- MODULE OnboardingRepositoryProofs ---------------------
(***************************************************************************)
(* The invariants of the onboarding tables, for any number of requests,    *)
(* users, officers, attempts and messages.                                 *)
(***************************************************************************)
EXTENDS OnboardingRepository, TLAPS

\* Each row transform of the repository yields a row.
LEMMA DecidedType ==
    ASSUME NEW row \in Row, NEW actor \in Actors,
           NEW decision \in {"approved", "denied"}
    PROVE  Decided(row, actor, decision) \in Row
BY DEF Row, Statuses, Decided

\* claim_provisioning, within the bound on attempts, leaves a row.
LEMMA ClaimedType ==
    ASSUME NEW row \in Row, row.attempts < MaxAttempts
    PROVE  Claimed(row) \in Row
<1>1. row.attempts + 1 \in 0..MaxAttempts
  BY BoundsAssumption DEF Row
<1>2. "provisioning" \in Statuses /\ "running" \in Leases
  BY DEF Statuses, Leases
<1> QED
  BY <1>1, <1>2 DEF Row, Claimed

\* mark_completed leaves a row.
LEMMA CompletedType ==
    ASSUME NEW row \in Row, NEW account \in Accounts
    PROVE  Completed(row, account) \in Row
BY DEF Row, Statuses, Completed

\* mark_failed leaves a row.
LEMMA FailedType ==
    ASSUME NEW row \in Row
    PROVE  Failed(row) \in Row
BY DEF Row, Statuses, Failed

\* A row just created is a row.
LEMMA NewRowType ==
    ASSUME NEW user \in Users, NEW target \in Targets, NEW actor \in Actors,
           NEW identity \in Identities
    PROVE  NewRow(user, target, actor, identity) \in Row
BY BoundsAssumption DEF NewRow, Row, Statuses, Leases

\* What a transaction that rewrites one row leaves behind.
LEMMA CommitEffect ==
    ASSUME RepoTypeOK,
           NEW id \in RequestIds, NEW row \in Row, NEW event \in Event,
           Commit(id, row, event)
    PROVE  /\ RepoTypeOK'
           /\ requests'[id] = row
           /\ audit'[id] = Append(audit[id], event)
           /\ \A other \in RequestIds \ {id} :
                /\ requests'[other] = requests[other]
                /\ audit'[other] = audit[other]
           /\ reviewAudit' = reviewAudit
BY DEF RepoTypeOK, Commit

\* A row that exists is a row.
LEMMA ExistingRow ==
    ASSUME RepoTypeOK, NEW id \in RequestIds, Exists(id)
    PROVE  requests[id] \in Row
BY DEF RepoTypeOK, Exists

-----------------------------------------------------------------------------

(***************************************************************************)
(* Every transaction keeps the types of the two tables.                    *)
(***************************************************************************)
LEMMA TypeStep == RepoTypeOK /\ [RepoNext]_repoVars => RepoTypeOK'
<1> SUFFICES ASSUME RepoTypeOK, [RepoNext]_repoVars PROVE RepoTypeOK'
  OBVIOUS
<1>1. CASE UNCHANGED repoVars
  BY <1>1 DEF repoVars, RepoTypeOK
<1>2. ASSUME NEW id \in RequestIds, NEW user \in Users, NEW target \in Targets,
             NEW actor \in Actors, NEW identity \in Identities,
             StartRequest(id, user, target, actor, identity)
      PROVE  RepoTypeOK'
  <2>1. AuditEvent("request_created", actor, 0) \in Event
    BY BoundsAssumption DEF AuditEvent, Event, EventTypes
  <2> QED
    BY <1>2, <2>1, NewRowType, CommitEffect DEF StartRequest
<1>3. ASSUME NEW id \in RequestIds, NEW message \in Messages,
             SetReviewMessage(id, message)
      PROVE  RepoTypeOK'
  <2>1. [requests[id] EXCEPT !.review = message] \in Row
    BY <1>3, ExistingRow DEF Row, SetReviewMessage
  <2>2. requests' \in [RequestIds -> Row \cup {NoRow}]
    BY <1>3, <2>1 DEF RepoTypeOK, SetReviewMessage
  <2>3. reviewAudit' \in [RequestIds -> Seq(Messages)]
    BY <1>3 DEF RepoTypeOK, SetReviewMessage
  <2> QED
    BY <1>3, <2>2, <2>3 DEF RepoTypeOK, SetReviewMessage
<1>4. ASSUME NEW id \in RequestIds, NEW actor \in Actors,
             NEW decision \in {"approved", "denied"}, Decide(id, actor, decision)
      PROVE  RepoTypeOK'
  <2>1. AuditEvent(decision, actor, 0) \in Event
    BY BoundsAssumption DEF AuditEvent, Event, EventTypes
  <2>2. Decided(requests[id], actor, decision) \in Row
    BY <1>4, ExistingRow, DecidedType DEF Decide
  <2> QED
    BY <1>4, <2>1, <2>2, CommitEffect DEF Decide
<1>5. ASSUME NEW id \in RequestIds, NEW actor \in Actors,
             ClaimProvisioning(id, actor)
      PROVE  RepoTypeOK'
  <2>1. Claimed(requests[id]) \in Row
    BY <1>5, ExistingRow, ClaimedType DEF ClaimProvisioning
  <2>2. AuditEvent("provisioning_started", actor,
                   Claimed(requests[id]).attempts) \in Event
    BY <2>1 DEF AuditEvent, Event, EventTypes, Row
  <2> QED
    BY <1>5, <2>1, <2>2, CommitEffect DEF ClaimProvisioning
<1>6. ASSUME NEW id \in RequestIds, NEW account \in Accounts,
             NEW attempt \in 1..MaxAttempts, MarkCompleted(id, account, attempt)
      PROVE  RepoTypeOK'
  <2>1. AuditEvent("provisioning_completed", None, 0) \in Event
    BY BoundsAssumption DEF AuditEvent, Event, EventTypes
  <2> QED
    BY <1>6, <2>1, ExistingRow, CompletedType, CommitEffect DEF MarkCompleted
<1>7. ASSUME NEW id \in RequestIds, NEW attempt \in 1..MaxAttempts,
             MarkFailed(id, attempt)
      PROVE  RepoTypeOK'
  <2>1. AuditEvent("provisioning_failed", None, 0) \in Event
    BY BoundsAssumption DEF AuditEvent, Event, EventTypes
  <2> QED
    BY <1>7, <2>1, ExistingRow, FailedType, CommitEffect DEF MarkFailed
<1>8. ASSUME NEW id \in RequestIds, LeaseExpires(id) PROVE RepoTypeOK'
  <2>1. [requests[id] EXCEPT !.lease = "expired"] \in Row
    BY <1>8, ExistingRow DEF Row, Leases, LeaseExpires
  <2> QED
    BY <1>8, <2>1 DEF RepoTypeOK, LeaseExpires
<1> QED
  BY <1>1, <1>2, <1>3, <1>4, <1>5, <1>6, <1>7, <1>8
     DEF RepoNext, Approve, Deny

(***************************************************************************)
(* Type correctness of the tables.                                         *)
(***************************************************************************)
THEOREM RepoTypeCorrect == RepoSpec => []RepoTypeOK
<1>1. RepoInit => RepoTypeOK
  BY DEF RepoInit, RepoTypeOK
<1> QED
  BY <1>1, TypeStep, PTL DEF RepoSpec

-----------------------------------------------------------------------------

\* The actions by name, for the proofs of a step: what each one changes.
StartStep(id) ==
    \E user \in Users, target \in Targets, actor \in Actors,
       identity \in Identities :
        StartRequest(id, user, target, actor, identity)

DecideStep(id) ==
    \E actor \in Actors, decision \in {"approved", "denied"} :
        Decide(id, actor, decision)

ClaimStep(id) == \E actor \in Actors : ClaimProvisioning(id, actor)

CompleteStep(id) ==
    \E account \in Accounts, attempt \in 1..MaxAttempts :
        MarkCompleted(id, account, attempt)

FailStep(id) == \E attempt \in 1..MaxAttempts : MarkFailed(id, attempt)

ReviewStep(id) == \E message \in Messages : SetReviewMessage(id, message)

\* Every step is one of these, or stutters.
LEMMA StepCases ==
    ASSUME [RepoNext]_repoVars
    PROVE  \/ UNCHANGED repoVars
           \/ \E id \in RequestIds :
                \/ StartStep(id) \/ DecideStep(id) \/ ClaimStep(id)
                \/ CompleteStep(id) \/ FailStep(id) \/ ReviewStep(id)
                \/ LeaseExpires(id)
BY DEF RepoNext, Approve, Deny, StartStep, DecideStep, ClaimStep,
       CompleteStep, FailStep, ReviewStep

\* A step rewrites the row and the history of one request only.
LEMMA Locality ==
    ASSUME RepoTypeOK, [RepoNext]_repoVars, NEW id \in RequestIds
    PROVE  \/ /\ requests'[id] = requests[id]
              /\ audit'[id] = audit[id]
              /\ reviewAudit'[id] = reviewAudit[id]
           \/ StartStep(id) \/ DecideStep(id) \/ ClaimStep(id)
           \/ CompleteStep(id) \/ FailStep(id) \/ ReviewStep(id)
           \/ LeaseExpires(id)
<1>1. CASE UNCHANGED repoVars
  BY <1>1 DEF repoVars
<1>2. ASSUME NEW other \in RequestIds, other # id,
             \/ StartStep(other) \/ DecideStep(other) \/ ClaimStep(other)
             \/ CompleteStep(other) \/ FailStep(other) \/ ReviewStep(other)
             \/ LeaseExpires(other)
      PROVE  /\ requests'[id] = requests[id]
             /\ audit'[id] = audit[id]
             /\ reviewAudit'[id] = reviewAudit[id]
  BY <1>2 DEF StartStep, DecideStep, ClaimStep, CompleteStep, FailStep,
       ReviewStep, StartRequest, Decide, ClaimProvisioning, MarkCompleted,
       MarkFailed, SetReviewMessage, LeaseExpires, Commit, RepoTypeOK
<1> QED
  BY <1>1, <1>2, StepCases

\* Every transaction but the insert is on a row that exists.
LEMMA ExistsBefore ==
    ASSUME NEW id \in RequestIds,
           \/ DecideStep(id) \/ ClaimStep(id) \/ CompleteStep(id)
           \/ FailStep(id) \/ ReviewStep(id) \/ LeaseExpires(id)
    PROVE  Exists(id)
BY DEF DecideStep, ClaimStep, CompleteStep, FailStep, ReviewStep, Decide,
       ClaimProvisioning, MarkCompleted, MarkFailed, SetReviewMessage,
       LeaseExpires

\* The columns no statement assigns after the insert.
SameKey(before, after) ==
    /\ after.user = before.user
    /\ after.target = before.target
    /\ after.requestedBy = before.requestedBy
    /\ after.identity = before.identity

\* What each kind of step does to its row and history.
StartEffect(id, new) ==
    \E user \in Users, target \in Targets, actor \in Actors,
       identity \in Identities :
        /\ ~Exists(id)
        /\ Conflicts(user, target) = {}
        /\ new = NewRow(user, target, actor, identity)
        /\ new \in Row
        /\ audit'[id] = Append(audit[id],
                               AuditEvent("request_created", actor, 0))
        /\ reviewAudit'[id] = reviewAudit[id]

\* A request that is inserted starts as NewRow and disturbs no other.
LEMMA StartStepEffect ==
    ASSUME RepoTypeOK, NEW id \in RequestIds, StartStep(id)
    PROVE  StartEffect(id, requests'[id])
<1>1. PICK user \in Users, target \in Targets, actor \in Actors,
           identity \in Identities :
           StartRequest(id, user, target, actor, identity)
  BY DEF StartStep
<1>2. /\ requests'[id] = NewRow(user, target, actor, identity)
      /\ audit'[id] = Append(audit[id],
                             AuditEvent("request_created", actor, 0))
      /\ reviewAudit'[id] = reviewAudit[id]
      /\ ~Exists(id) /\ Conflicts(user, target) = {}
  BY <1>1 DEF StartRequest, Commit, RepoTypeOK
<1>3. NewRow(user, target, actor, identity) \in Row
  BY NewRowType
<1> QED
  BY <1>2, <1>3 DEF StartEffect

DecideEffect(id, old, new) ==
    \E actor \in Actors, decision \in {"approved", "denied"} :
        /\ old.status = "pending"
        /\ new \in Row
        /\ SameKey(old, new)
        /\ new.status = decision
        /\ new.decidedBy = actor
        /\ new.attempts = old.attempts
        /\ new.lease = old.lease
        /\ new.account = old.account
        /\ new.review = old.review
        /\ audit'[id] = Append(audit[id], AuditEvent(decision, actor, 0))
        /\ reviewAudit'[id] = reviewAudit[id]

\* A decision is made on a pending row and writes its officer.
LEMMA DecideStepEffect ==
    ASSUME RepoTypeOK, NEW id \in RequestIds, DecideStep(id)
    PROVE  DecideEffect(id, requests[id], requests'[id])
<1>1. requests[id] \in Row
  BY ExistingRow, ExistsBefore
<1>2. PICK actor \in Actors, decision \in {"approved", "denied"} :
           Decide(id, actor, decision)
  BY DEF DecideStep
<1>3. Decided(requests[id], actor, decision) \in Row
  BY <1>1, DecidedType
<1>4. /\ requests'[id] = Decided(requests[id], actor, decision)
      /\ audit'[id] = Append(audit[id], AuditEvent(decision, actor, 0))
      /\ reviewAudit'[id] = reviewAudit[id]
  BY <1>2 DEF Decide, Commit, RepoTypeOK
<1>5. requests[id].status = "pending"
  BY <1>2 DEF Decide, DecisionAllowed
<1> QED
  BY <1>1, <1>3, <1>4, <1>5 DEF DecideEffect, Decided, Row, SameKey

ClaimEffect(id, old, new) ==
    \E actor \in Actors :
        /\ \/ old.status \in {"approved", "failed"}
           \/ old.status = "provisioning" /\ old.lease = "expired"
        /\ new \in Row
        /\ SameKey(old, new)
        /\ new.status = "provisioning"
        /\ new.decidedBy = old.decidedBy
        /\ new.attempts = old.attempts + 1
        /\ new.lease = "running"
        /\ new.account = old.account
        /\ new.review = old.review
        /\ audit'[id] = Append(audit[id], AuditEvent("provisioning_started",
                                                     actor, new.attempts))
        /\ reviewAudit'[id] = reviewAudit[id]

\* A claim raises the counter of a decided row and writes neither officer nor
\* identity.
LEMMA ClaimStepEffect ==
    ASSUME RepoTypeOK, NEW id \in RequestIds, ClaimStep(id)
    PROVE  ClaimEffect(id, requests[id], requests'[id])
<1>1. requests[id] \in Row
  BY ExistingRow, ExistsBefore
<1>2. PICK actor \in Actors : ClaimProvisioning(id, actor)
  BY DEF ClaimStep
<1>3. Claimed(requests[id]) \in Row
  BY <1>1, <1>2, ClaimedType DEF ClaimProvisioning
<1>4. /\ requests'[id] = Claimed(requests[id])
      /\ audit'[id] = Append(audit[id],
                             AuditEvent("provisioning_started", actor,
                                        Claimed(requests[id]).attempts))
      /\ reviewAudit'[id] = reviewAudit[id]
  BY <1>2 DEF ClaimProvisioning, Commit, RepoTypeOK
<1>5. Claimable(requests[id])
  BY <1>2 DEF ClaimProvisioning
<1> QED
  BY <1>1, <1>3, <1>4, <1>5 DEF ClaimEffect, Claimable, Claimed, Row, SameKey

OutcomeEffect(id, old, new, status, type) ==
    /\ old.status = "provisioning"
    /\ new \in Row
    /\ SameKey(old, new)
    /\ new.status = status
    /\ new.decidedBy = old.decidedBy
    /\ new.attempts = old.attempts
    /\ new.lease = old.lease
    /\ new.review = old.review
    /\ audit'[id] = Append(audit[id], AuditEvent(type, None, 0))
    /\ reviewAudit'[id] = reviewAudit[id]

\* A completion is of a row being provisioned and keeps its decision.
LEMMA CompleteStepEffect ==
    ASSUME RepoTypeOK, NEW id \in RequestIds, CompleteStep(id)
    PROVE  /\ OutcomeEffect(id, requests[id], requests'[id],
                            "completed", "provisioning_completed")
           /\ requests'[id].account \in Accounts
<1>1. requests[id] \in Row
  BY ExistingRow, ExistsBefore
<1>2. PICK account \in Accounts, attempt \in 1..MaxAttempts :
           MarkCompleted(id, account, attempt)
  BY DEF CompleteStep
<1>3. Completed(requests[id], account) \in Row
  BY <1>1, CompletedType
<1>4. /\ requests'[id] = Completed(requests[id], account)
      /\ audit'[id] = Append(audit[id],
                             AuditEvent("provisioning_completed", None, 0))
      /\ reviewAudit'[id] = reviewAudit[id]
  BY <1>2 DEF MarkCompleted, Commit, RepoTypeOK
<1>5. requests[id].status = "provisioning"
  BY <1>2 DEF MarkCompleted, HeldBy
<1> QED
  BY <1>1, <1>3, <1>4, <1>5 DEF OutcomeEffect, Completed, Row, SameKey

\* A failure is of a row being provisioned and keeps its decision.
LEMMA FailStepEffect ==
    ASSUME RepoTypeOK, NEW id \in RequestIds, FailStep(id)
    PROVE  OutcomeEffect(id, requests[id], requests'[id],
                         "failed", "provisioning_failed")
<1>1. requests[id] \in Row
  BY ExistingRow, ExistsBefore
<1>2. PICK attempt \in 1..MaxAttempts : MarkFailed(id, attempt)
  BY DEF FailStep
<1>3. Failed(requests[id]) \in Row
  BY <1>1, FailedType
<1>4. /\ requests'[id] = Failed(requests[id])
      /\ audit'[id] = Append(audit[id],
                             AuditEvent("provisioning_failed", None, 0))
      /\ reviewAudit'[id] = reviewAudit[id]
  BY <1>2 DEF MarkFailed, Commit, RepoTypeOK
<1>5. requests[id].status = "provisioning"
  BY <1>2 DEF MarkFailed, HeldBy
<1> QED
  BY <1>1, <1>3, <1>4, <1>5 DEF OutcomeEffect, Failed, Row, SameKey

\* Setting the review message and the passing of time leave the workflow alone.
SameWorkflow(id, old, new) ==
    /\ new \in Row
    /\ SameKey(old, new)
    /\ new.status = old.status
    /\ new.decidedBy = old.decidedBy
    /\ new.attempts = old.attempts
    /\ new.account = old.account
    /\ audit'[id] = audit[id]

\* Recording a review message keeps status, decision and attempts.
LEMMA ReviewStepEffect ==
    ASSUME RepoTypeOK, NEW id \in RequestIds, ReviewStep(id)
    PROVE  /\ SameWorkflow(id, requests[id], requests'[id])
           /\ requests'[id].lease = requests[id].lease
           /\ requests'[id].review \in Messages
           /\ reviewAudit'[id] = Append(reviewAudit[id], requests'[id].review)
<1>1. requests[id] \in Row
  BY ExistingRow, ExistsBefore
<1>2. PICK message \in Messages : SetReviewMessage(id, message)
  BY DEF ReviewStep
<1>3. /\ requests'[id] = [requests[id] EXCEPT !.review = message]
      /\ audit'[id] = audit[id]
      /\ reviewAudit'[id] = Append(reviewAudit[id], message)
  BY <1>2 DEF SetReviewMessage, RepoTypeOK
<1>4. [requests[id] EXCEPT !.review = message] \in Row
  BY <1>1 DEF Row
<1> QED
  BY <1>1, <1>3, <1>4 DEF Row, SameWorkflow, SameKey

\* The passing of time keeps all of a row but its lease.
LEMMA LeaseStepEffect ==
    ASSUME RepoTypeOK, NEW id \in RequestIds, LeaseExpires(id)
    PROVE  /\ SameWorkflow(id, requests[id], requests'[id])
           /\ requests'[id].lease = "expired"
           /\ requests'[id].review = requests[id].review
           /\ reviewAudit'[id] = reviewAudit[id]
<1>1. requests[id] \in Row
  BY ExistingRow, ExistsBefore
<1>2. /\ requests'[id] = [requests[id] EXCEPT !.lease = "expired"]
      /\ audit'[id] = audit[id]
      /\ reviewAudit'[id] = reviewAudit[id]
  BY DEF LeaseExpires, RepoTypeOK
<1>3. [requests[id] EXCEPT !.lease = "expired"] \in Row
  BY <1>1 DEF Row, Leases
<1> QED
  BY <1>1, <1>2, <1>3 DEF Row, SameWorkflow, SameKey

\* A request once inserted stays, keeps its key, and is not revived.
LEMMA RowEvolution ==
    ASSUME RepoTypeOK, [RepoNext]_repoVars, NEW id \in RequestIds, Exists(id)
    PROVE  /\ Exists(id)'
           /\ SameKey(requests[id], requests'[id])
           /\ Active(requests'[id]) => Active(requests[id])
<1>1. RepoTypeOK' /\ ~StartStep(id)
  BY TypeStep DEF StartStep, StartRequest
<1>2. SameKey(requests[id], requests'[id])
  BY <1>1, Locality, DecideStepEffect, ClaimStepEffect, CompleteStepEffect,
     FailStepEffect, ReviewStepEffect, LeaseStepEffect
     DEF SameKey, DecideEffect, ClaimEffect, OutcomeEffect, SameWorkflow
<1>3. Exists(id)'
  BY <1>1, Locality, DecideStepEffect, ClaimStepEffect, CompleteStepEffect,
     FailStepEffect, ReviewStepEffect, LeaseStepEffect, NullAssumption
     DEF Exists, DecideEffect, ClaimEffect, OutcomeEffect, SameWorkflow
<1> QED
  BY <1>1, <1>2, <1>3, Locality, DecideStepEffect, ClaimStepEffect,
     CompleteStepEffect, FailStepEffect, ReviewStepEffect, LeaseStepEffect
     DEF Exists, Active, DecideEffect, ClaimEffect, OutcomeEffect, SameWorkflow

(***************************************************************************)
(* No call, in any order, leaves two requests of one user for one target   *)
(* that are not denied.                                                    *)
(***************************************************************************)
THEOREM OneActiveRequestHolds == RepoSpec => []OneActiveRequest
<1>1. RepoInit => OneActiveRequest
  BY DEF RepoInit, OneActiveRequest, Active
<1>2. RepoTypeOK /\ OneActiveRequest /\ [RepoNext]_repoVars => OneActiveRequest'
  <2> SUFFICES ASSUME RepoTypeOK, OneActiveRequest, [RepoNext]_repoVars,
                      NEW i \in RequestIds, NEW j \in RequestIds,
                      Active(requests'[i]), Active(requests'[j]),
                      requests'[i].user = requests'[j].user,
                      requests'[i].target = requests'[j].target
               PROVE  i = j
    BY DEF OneActiveRequest
  <2>1. CASE Exists(i) /\ Exists(j)
    BY <2>1, RowEvolution DEF OneActiveRequest, SameKey
  <2>2. ASSUME NEW new \in RequestIds, ~Exists(new), Exists(new)'
        PROVE  /\ \A other \in RequestIds \ {new} :
                     requests'[other] = requests[other]
               /\ Conflicts(requests'[new].user, requests'[new].target) = {}
    <3>1. StartStep(new)
      BY <2>2, Locality, ExistsBefore DEF Exists
    <3>2. PICK user \in Users, target \in Targets, actor \in Actors,
               identity \in Identities :
               StartRequest(new, user, target, actor, identity)
      BY <3>1 DEF StartStep
    <3>3. requests'[new] = NewRow(user, target, actor, identity)
      BY <3>2 DEF StartRequest, Commit, RepoTypeOK
    <3> QED
      BY <3>2, <3>3 DEF StartRequest, Commit, RepoTypeOK, NewRow
  <2>3. ASSUME ~Exists(i), i # j PROVE FALSE
    BY <2>2, <2>3 DEF Conflicts, Exists, Active
  <2>4. ASSUME ~Exists(j), i # j PROVE FALSE
    BY <2>2, <2>4 DEF Conflicts, Exists, Active
  <2> QED
    BY <2>1, <2>3, <2>4
<1> QED
  BY <1>1, <1>2, RepoTypeCorrect, PTL DEF RepoSpec

-----------------------------------------------------------------------------

\* A new row satisfies the table constraints.
LEMMA NewRowChecks ==
    ASSUME NEW user \in Users, NEW target \in Targets, NEW actor \in Actors,
           NEW identity \in Identities
    PROVE  RowChecks(NewRow(user, target, actor, identity))
BY DEF NewRow, RowChecks

(***************************************************************************)
(* No transaction of the repository is aborted by a CHECK constraint of    *)
(* migration 03.                                                           *)
(***************************************************************************)
THEOREM SchemaChecksHold == RepoSpec => []SchemaChecks
<1>1. RepoInit => SchemaChecks
  BY DEF RepoInit, SchemaChecks, Exists
<1>2. RepoTypeOK /\ SchemaChecks /\ [RepoNext]_repoVars => SchemaChecks'
  <2> SUFFICES ASSUME RepoTypeOK, SchemaChecks, [RepoNext]_repoVars,
                      NEW id \in RequestIds, Exists(id)'
               PROVE  RowChecks(requests'[id])
    BY DEF SchemaChecks
  <2> DEFINE old == requests[id]
             new == requests'[id]
  <2>1. CASE requests'[id] = requests[id]
    BY <2>1 DEF SchemaChecks, Exists
  <2>2. CASE StartStep(id)
    BY <2>2, StartStepEffect, NewRowChecks DEF StartEffect
  <2>3. ASSUME Exists(id) PROVE old \in Row /\ RowChecks(old)
    BY <2>3, ExistingRow DEF SchemaChecks
  <2>4. CASE DecideStep(id)
    BY <2>3, <2>4, ExistsBefore, DecideStepEffect, NullAssumption
       DEF DecideEffect, RowChecks
  <2>5. CASE ClaimStep(id)
    <3>1. old \in Row /\ RowChecks(old)
      BY <2>3, <2>5, ExistsBefore
    <3>2. old.attempts + 1 > 0
      BY <3>1, BoundsAssumption DEF Row
    <3> QED
      BY <2>5, <3>1, <3>2, ClaimStepEffect DEF ClaimEffect, RowChecks
  <2>6. CASE CompleteStep(id)
    BY <2>3, <2>6, ExistsBefore, CompleteStepEffect, NullAssumption
       DEF OutcomeEffect, RowChecks
  <2>7. CASE FailStep(id)
    BY <2>3, <2>7, ExistsBefore, FailStepEffect DEF OutcomeEffect, RowChecks
  <2>8. CASE ReviewStep(id)
    BY <2>3, <2>8, ExistsBefore, ReviewStepEffect DEF SameWorkflow, RowChecks
  <2>9. CASE LeaseExpires(id)
    BY <2>3, <2>9, ExistsBefore, LeaseStepEffect DEF SameWorkflow, RowChecks
  <2> QED
    BY <2>1, <2>2, <2>4, <2>5, <2>6, <2>7, <2>8, <2>9, Locality
<1> QED
  BY <1>1, <1>2, RepoTypeCorrect, PTL DEF RepoSpec

(***************************************************************************)
(* The first decision of a request stands for ever, and so does the        *)
(* account of a completed one.                                             *)
(***************************************************************************)
THEOREM DecisionIsFinalHolds == RepoSpec => DecisionIsFinal
<1>1. ASSUME RepoTypeOK, [RepoNext]_repoVars, NEW id \in RequestIds,
             Exists(id), requests[id].status # "pending"
      PROVE  /\ Exists(id)'
             /\ Decision(requests'[id]) = Decision(requests[id])
             /\ requests'[id].decidedBy = requests[id].decidedBy
             /\ requests[id].status = "completed" =>
                    /\ requests'[id].status = "completed"
                    /\ requests'[id].account = requests[id].account
  <2>1. Exists(id)'
    BY <1>1, RowEvolution
  <2>2. ~StartStep(id)
    BY <1>1 DEF StartStep, StartRequest
  <2> QED
    BY <1>1, <2>1, <2>2, Locality, DecideStepEffect, ClaimStepEffect,
       CompleteStepEffect, FailStepEffect, ReviewStepEffect, LeaseStepEffect
       DEF Decision, DecideEffect, ClaimEffect, OutcomeEffect, SameWorkflow
<1>2. RepoTypeOK /\ [RepoNext]_repoVars =>
        [\A id \in RequestIds :
            Exists(id) /\ requests[id].status # "pending" =>
            /\ Exists(id)'
            /\ Decision(requests'[id]) = Decision(requests[id])
            /\ requests'[id].decidedBy = requests[id].decidedBy
            /\ requests[id].status = "completed" =>
                    /\ requests'[id].status = "completed"
                    /\ requests'[id].account = requests[id].account]_repoVars
  BY <1>1
<1> QED
  BY <1>2, RepoTypeCorrect, PTL DEF RepoSpec, DecisionIsFinal

-----------------------------------------------------------------------------

\* What appending one event does to a history.
LEMMA Appended ==
    ASSUME NEW h \in Seq(Event), NEW event \in Event
    PROVE  /\ Append(h, event) \in Seq(Event)
           /\ Append(h, event) # << >>
           /\ Len(h) \in Nat
           /\ Len(Append(h, event)) = Len(h) + 1
           /\ \A i \in 1..Len(h) : Append(h, event)[i] = h[i]
           /\ Append(h, event)[Len(h) + 1] = event
OBVIOUS

\* An event that continues the path, with the row changed to match, keeps the
\* history and the row in agreement.
LEMMA HistoryGrows ==
    ASSUME RepoTypeOK, NEW id \in RequestIds, HistoryTells(id),
           NEW event \in Event,
           requests[id] \in Row, requests'[id] \in Row,
           audit'[id] = Append(audit[id], event),
           reviewAudit'[id] = reviewAudit[id],
           requests'[id].review = requests[id].review,
           requests'[id].requestedBy = requests[id].requestedBy,
           requests'[id].status = StatusAfter(event.type),
           <<audit[id][Len(audit[id])].type, event.type>> \in MayFollow,
           Len(audit[id]) = 1 => event.actor = requests'[id].decidedBy,
           Len(audit[id]) > 1 => requests'[id].decidedBy = requests[id].decidedBy,
           \/ /\ event.type # "provisioning_started"
              /\ requests'[id].attempts = requests[id].attempts
           \/ /\ event.type = "provisioning_started"
              /\ requests'[id].attempts = requests[id].attempts + 1
              /\ event.attempt = requests'[id].attempts
    PROVE  HistoryTells(id)'
<1> DEFINE h == audit[id]
           g == audit'[id]
           n == Len(h)
<1>1. h \in Seq(Event)
  BY DEF RepoTypeOK
<1>2. /\ g # << >> /\ n \in Nat /\ Len(g) = n + 1 /\ g[n + 1] = event
      /\ \A i \in 1..n : g[i] = h[i]
  BY <1>1, Appended
<1>3. n >= 1
  BY <1>1, <1>2 DEF HistoryTells, AuditTellsStatus
<1> HIDE DEF h, g, n
<1>4. AuditTellsStatus(id)'
  BY <1>2 DEF AuditTellsStatus, g
<1>5. AuditIsAPath(id)'
  <2> SUFFICES ASSUME NEW i \in 1..(Len(g) - 1)
               PROVE  <<g[i].type, g[i + 1].type>> \in MayFollow
    BY DEF AuditIsAPath, g
  <2>1. CASE i = n
    <3>1. g[i] = h[n] /\ g[i + 1] = event
      BY <1>2, <1>3, <2>1
    <3> QED
      BY <3>1 DEF h, n
  <2>2. CASE i < n
    BY <1>2, <2>2 DEF HistoryTells, AuditIsAPath, h, n
  <2> QED
    BY <1>2, <2>1, <2>2
<1>6. AuditTellsActors(id)'
  <2>1. event.type # "request_created"
    BY DEF MayFollow
  <2>2. /\ g[1].type = "request_created"
        /\ g[1].actor = requests'[id].requestedBy
    BY <1>2, <1>3 DEF HistoryTells, AuditTellsActors, h, n
  <2>3. g[2].actor = requests'[id].decidedBy
    <3>1. CASE n = 1
      <4>1. g[2] = event
        BY <1>2, <3>1
      <4> QED
        BY <3>1, <4>1 DEF h, n
    <3>2. CASE n > 1
      <4>1. g[2] = h[2]
        BY <1>2, <3>2
      <4> QED
        BY <3>2, <4>1 DEF HistoryTells, AuditTellsActors, h, n
    <3> QED
      BY <1>2, <1>3, <3>1, <3>2
  <2>4. \A i \in 2..Len(g) : g[i].type # "request_created"
    BY <1>2, <1>3, <2>1 DEF HistoryTells, AuditTellsActors, h, n
  <2> QED
    BY <2>2, <2>3, <2>4 DEF AuditTellsActors, g
<1>7. AuditTellsAttempts(id)'
  <2> DEFINE old == requests[id].attempts
             new == requests'[id].attempts
  <2>1. /\ \A i \in 1..n : h[i].type = "provisioning_started" =>
                h[i].attempt \in 1..old
        /\ \A i, j \in 1..n :
                /\ h[i].type = "provisioning_started"
                /\ h[j].type = "provisioning_started"
                /\ i < j
                => h[i].attempt < h[j].attempt
        /\ \A k \in 1..old : \E i \in 1..n :
                h[i].type = "provisioning_started" /\ h[i].attempt = k
    BY DEF HistoryTells, AuditTellsAttempts, Started, h, n
  <2>2. old \in Nat /\ new \in Nat
    BY BoundsAssumption DEF Row
  <2>3. \A i \in 1..(n + 1) : g[i].type = "provisioning_started" =>
                g[i].attempt \in 1..new
    BY <1>2, <2>1, <2>2
  <2>4. \A i, j \in 1..(n + 1) :
                /\ g[i].type = "provisioning_started"
                /\ g[j].type = "provisioning_started"
                /\ i < j
                => g[i].attempt < g[j].attempt
    <3> SUFFICES ASSUME NEW i \in 1..(n + 1), NEW j \in 1..(n + 1),
                        g[i].type = "provisioning_started",
                        g[j].type = "provisioning_started",
                        i < j
                 PROVE  g[i].attempt < g[j].attempt
      OBVIOUS
    <3>1. i \in 1..n /\ g[i] = h[i] /\ h[i].attempt \in 1..old
      BY <1>2, <2>1
    <3>2. CASE j = n + 1
      <4>1. event.attempt = old + 1 /\ g[j] = event
        BY <1>2, <3>2
      <4> QED
        BY <2>2, <3>1, <4>1
    <3>3. CASE j # n + 1
      <4>1. j \in 1..n /\ g[j] = h[j]
        BY <1>2, <3>3
      <4> QED
        BY <2>1, <3>1, <4>1
    <3> QED
      BY <3>2, <3>3
  <2>5. ASSUME NEW k \in 1..new
        PROVE  \E i \in 1..(n + 1) :
                    g[i].type = "provisioning_started" /\ g[i].attempt = k
    <3>1. CASE k \in 1..old
      BY <1>2, <2>1, <3>1
    <3>2. CASE k \notin 1..old
      <4>1. k = new /\ event.type = "provisioning_started" /\ event.attempt = k
        BY <2>2, <3>2
      <4>2. n + 1 \in 1..(n + 1) /\ g[n + 1] = event
        BY <1>2
      <4> QED
        BY <4>1, <4>2
    <3> QED
      BY <3>1, <3>2
  <2> QED
    BY <1>2, <2>3, <2>4, <2>5 DEF AuditTellsAttempts, Started, g
<1>8. AuditTellsReview(id)'
  BY DEF HistoryTells, AuditTellsReview
<1> QED
  BY <1>4, <1>5, <1>6, <1>7, <1>8 DEF HistoryTells

\* The status a history ends with determines its last event.
LEMMA LastEvent ==
    ASSUME RepoTypeOK, NEW id \in RequestIds, HistoryTells(id)
    PROVE  LET last == audit[id][Len(audit[id])].type
           IN  /\ Len(audit[id]) \in Nat \ {0}
               /\ last \in EventTypes
               /\ requests[id].status = "pending" => last = "request_created"
               /\ requests[id].status = "approved" => last = "approved"
               /\ requests[id].status = "provisioning" => last = "provisioning_started"
               /\ requests[id].status = "failed" => last = "provisioning_failed"
               /\ last = "request_created" <=> Len(audit[id]) = 1
<1>1. audit[id] \in Seq(Event)
  BY DEF RepoTypeOK
<1>2. Len(audit[id]) \in Nat /\ Len(audit[id]) >= 1
  BY <1>1 DEF HistoryTells, AuditTellsStatus
<1>3. audit[id][Len(audit[id])] \in Event
  BY <1>1, <1>2
<1>4. audit[id][Len(audit[id])].type \in EventTypes
  BY <1>3 DEF Event
<1>5. audit[id][Len(audit[id])].type = "request_created" <=> Len(audit[id]) = 1
  <2>1. CASE Len(audit[id]) = 1
    BY <2>1 DEF HistoryTells, AuditTellsActors
  <2>2. CASE Len(audit[id]) # 1
    <3> DEFINE n == Len(audit[id])
    <3> HIDE DEF n
    <3>0. n \in Nat /\ n >= 1 /\ n # 1
      BY <1>2, <2>2 DEF n
    <3>1. n \in 2..n
      BY <3>0
    <3> QED
      BY <2>2, <3>1 DEF n, HistoryTells, AuditTellsActors
  <2> QED
    BY <2>1, <2>2
<1>6. requests[id].status = StatusAfter(audit[id][Len(audit[id])].type)
  BY DEF HistoryTells, AuditTellsStatus
<1> QED
  BY <1>2, <1>4, <1>5, <1>6 DEF EventTypes, StatusAfter

\* An event of the workflow has the type of an event.
LEMMA EventType ==
    ASSUME NEW type \in EventTypes, NEW actor \in Actors \cup {None},
           NEW attempt \in 0..MaxAttempts
    PROVE  /\ AuditEvent(type, actor, attempt) \in Event
           /\ AuditEvent(type, actor, attempt).type = type
           /\ AuditEvent(type, actor, attempt).actor = actor
           /\ AuditEvent(type, actor, attempt).attempt = attempt
BY DEF AuditEvent, Event

(***************************************************************************)
(* The audit trail and the row never disagree: the history reconstructs    *)
(* the status, the requester, the decider, the attempts and the review     *)
(* message of every request.                                               *)
(***************************************************************************)
THEOREM AuditReconstructsRowHolds == RepoSpec => []AuditReconstructsRow
<1>1. RepoInit => AuditReconstructsRow
  BY DEF RepoInit, AuditReconstructsRow, NoHistory, Exists
<1>2. RepoTypeOK /\ AuditReconstructsRow /\ [RepoNext]_repoVars
        => AuditReconstructsRow'
  <2> SUFFICES ASSUME RepoTypeOK, AuditReconstructsRow, [RepoNext]_repoVars,
                      NEW id \in RequestIds
               PROVE  IF Exists(id)' THEN HistoryTells(id)' ELSE NoHistory(id)'
    BY DEF AuditReconstructsRow
  <2> USE BoundsAssumption
  <2>1. CASE /\ requests'[id] = requests[id]
             /\ audit'[id] = audit[id]
             /\ reviewAudit'[id] = reviewAudit[id]
    BY <2>1 DEF AuditReconstructsRow, Exists, HistoryTells, NoHistory,
       AuditTellsStatus, AuditIsAPath, AuditTellsActors, AuditTellsAttempts,
       AuditTellsReview, Started
  <2>2. CASE StartStep(id)
    <3>1. PICK user \in Users, target \in Targets, actor \in Actors,
               identity \in Identities :
            /\ ~Exists(id)
            /\ requests'[id] = NewRow(user, target, actor, identity)
            /\ requests'[id] \in Row
            /\ audit'[id] = Append(audit[id],
                                   AuditEvent("request_created", actor, 0))
            /\ reviewAudit'[id] = reviewAudit[id]
      BY <2>2, StartStepEffect DEF StartEffect
    <3>2. audit[id] = << >> /\ reviewAudit[id] = << >>
      BY <3>1 DEF AuditReconstructsRow, NoHistory
    <3>3. AuditEvent("request_created", actor, 0) \in Event
      BY EventType DEF EventTypes
    <3>4. audit'[id] = <<AuditEvent("request_created", actor, 0)>>
      BY <3>1, <3>2, <3>3
    <3>5. /\ Len(audit'[id]) = 1
          /\ audit'[id] # << >>
          /\ audit'[id][1].type = "request_created"
          /\ audit'[id][1].actor = actor
      BY <3>4 DEF AuditEvent
    <3>6. /\ requests'[id].status = "pending"
          /\ requests'[id].requestedBy = actor
          /\ requests'[id].attempts = 0
          /\ requests'[id].review = None
      BY <3>1 DEF NewRow
    <3>7. AuditTellsStatus(id)' /\ AuditIsAPath(id)' /\ AuditTellsActors(id)'
      BY <3>5, <3>6 DEF AuditTellsStatus, AuditIsAPath, AuditTellsActors,
         StatusAfter
    <3>8. AuditTellsAttempts(id)' /\ AuditTellsReview(id)'
      BY <3>1, <3>2, <3>5, <3>6 DEF AuditTellsAttempts, Started, AuditTellsReview
    <3>9. Exists(id)'
      BY <3>1, NullAssumption DEF Exists
    <3> QED
      BY <3>7, <3>8, <3>9 DEF HistoryTells
  <2>3. ASSUME Exists(id)
        PROVE  /\ requests[id] \in Row /\ HistoryTells(id)
               /\ Exists(id)' /\ SameKey(requests[id], requests'[id])
    BY <2>3, ExistingRow, RowEvolution DEF AuditReconstructsRow
  <2>4. CASE DecideStep(id)
    <3>1. PICK actor \in Actors, decision \in {"approved", "denied"} :
            /\ requests[id].status = "pending"
            /\ requests'[id] \in Row
            /\ requests'[id].status = decision
            /\ requests'[id].decidedBy = actor
            /\ requests'[id].attempts = requests[id].attempts
            /\ requests'[id].review = requests[id].review
            /\ audit'[id] = Append(audit[id], AuditEvent(decision, actor, 0))
            /\ reviewAudit'[id] = reviewAudit[id]
      BY <2>4, DecideStepEffect DEF DecideEffect
    <3>2. requests[id] \in Row /\ HistoryTells(id) /\ Exists(id)'
          /\ requests'[id].requestedBy = requests[id].requestedBy
      BY <2>3, <2>4, ExistsBefore DEF SameKey
    <3>3. /\ AuditEvent(decision, actor, 0) \in Event
          /\ AuditEvent(decision, actor, 0).type = decision
          /\ AuditEvent(decision, actor, 0).actor = actor
      BY EventType DEF EventTypes
    <3>4. /\ audit[id][Len(audit[id])].type = "request_created"
          /\ Len(audit[id]) = 1
      BY <3>1, <3>2, LastEvent
    <3>5. /\ <<audit[id][Len(audit[id])].type, decision>> \in MayFollow
          /\ decision = StatusAfter(decision)
          /\ decision # "provisioning_started"
      BY <3>4 DEF MayFollow, StatusAfter
    <3> DEFINE event == AuditEvent(decision, actor, 0)
    <3>6. audit'[id] = Append(audit[id], event)
      BY <3>1
    <3>7. /\ event \in Event /\ event.type = decision /\ event.actor = actor
      BY <3>3
    <3> HIDE DEF event
    <3>8. /\ requests'[id].status = StatusAfter(event.type)
          /\ <<audit[id][Len(audit[id])].type, event.type>> \in MayFollow
          /\ event.type # "provisioning_started"
      BY <3>1, <3>5, <3>7
    <3>9. HistoryTells(id)'
      BY <3>1, <3>2, <3>4, <3>6, <3>7, <3>8, HistoryGrows
    <3> QED
      BY <3>2, <3>9
  <2>5. CASE ClaimStep(id)
    <3>1. PICK actor \in Actors :
            /\ requests[id].status \in {"approved", "failed", "provisioning"}
            /\ requests'[id] \in Row
            /\ requests'[id].status = "provisioning"
            /\ requests'[id].decidedBy = requests[id].decidedBy
            /\ requests'[id].attempts = requests[id].attempts + 1
            /\ requests'[id].review = requests[id].review
            /\ audit'[id] = Append(audit[id],
                                   AuditEvent("provisioning_started", actor,
                                              requests'[id].attempts))
            /\ reviewAudit'[id] = reviewAudit[id]
      BY <2>5, ClaimStepEffect DEF ClaimEffect
    <3>2. requests[id] \in Row /\ HistoryTells(id) /\ Exists(id)'
          /\ requests'[id].requestedBy = requests[id].requestedBy
      BY <2>3, <2>5, ExistsBefore DEF SameKey
    <3> DEFINE event == AuditEvent("provisioning_started", actor,
                                   requests'[id].attempts)
    <3>3. requests'[id].attempts \in 0..MaxAttempts
      BY <3>1 DEF Row
    <3>4. /\ event \in Event
          /\ event.type = "provisioning_started"
          /\ event.attempt = requests'[id].attempts
      BY <3>3, EventType DEF EventTypes
    <3>5. /\ audit[id][Len(audit[id])].type \in
                {"approved", "provisioning_failed", "provisioning_started"}
          /\ Len(audit[id]) # 1
      BY <3>1, <3>2, LastEvent
    <3>6. /\ <<audit[id][Len(audit[id])].type, "provisioning_started">> \in MayFollow
          /\ StatusAfter("provisioning_started") = "provisioning"
      BY <3>5 DEF MayFollow, StatusAfter
    <3>7. audit'[id] = Append(audit[id], event)
      BY <3>1
    <3> HIDE DEF event
    <3>8. /\ requests'[id].status = StatusAfter(event.type)
          /\ <<audit[id][Len(audit[id])].type, event.type>> \in MayFollow
      BY <3>1, <3>4, <3>6
    <3>9. HistoryTells(id)'
      BY <3>1, <3>2, <3>4, <3>5, <3>7, <3>8, HistoryGrows
    <3> QED
      BY <3>2, <3>9
  <2>6. ASSUME NEW status \in Statuses, NEW type \in EventTypes,
               Exists(id),
               <<status, type>> \in {<<"completed", "provisioning_completed">>,
                                     <<"failed", "provisioning_failed">>},
               OutcomeEffect(id, requests[id], requests'[id], status, type)
        PROVE  Exists(id)' /\ HistoryTells(id)'
    <3>1. requests[id] \in Row /\ HistoryTells(id) /\ Exists(id)'
          /\ requests'[id].requestedBy = requests[id].requestedBy
      BY <2>3, <2>6 DEF SameKey
    <3>2. /\ AuditEvent(type, None, 0) \in Event
          /\ AuditEvent(type, None, 0).type = type
      BY EventType
    <3>3. /\ audit[id][Len(audit[id])].type = "provisioning_started"
          /\ Len(audit[id]) # 1
      BY <2>6, <3>1, LastEvent DEF OutcomeEffect
    <3>4. /\ <<audit[id][Len(audit[id])].type, type>> \in MayFollow
          /\ StatusAfter(type) = status
          /\ type # "provisioning_started"
      BY <2>6, <3>3 DEF MayFollow, StatusAfter
    <3> QED
      BY <2>6, <3>1, <3>2, <3>3, <3>4, HistoryGrows DEF OutcomeEffect
  <2>7. CASE CompleteStep(id)
    BY <2>6, <2>7, CompleteStepEffect, ExistsBefore DEF Statuses, EventTypes
  <2>8. CASE FailStep(id)
    BY <2>6, <2>8, FailStepEffect, ExistsBefore DEF Statuses, EventTypes
  <2>9. CASE ReviewStep(id)
    <3>1. /\ SameWorkflow(id, requests[id], requests'[id])
          /\ requests'[id].review \in Messages
          /\ reviewAudit'[id] = Append(reviewAudit[id], requests'[id].review)
      BY <2>9, ReviewStepEffect
    <3>2. HistoryTells(id) /\ Exists(id)'
      BY <2>3, <2>9, ExistsBefore
    <3>3. AuditTellsReview(id)'
      <4>1. reviewAudit[id] \in Seq(Messages)
        BY DEF RepoTypeOK
      <4>2. /\ reviewAudit'[id] # << >>
            /\ reviewAudit'[id][Len(reviewAudit'[id])] = requests'[id].review
        BY <3>1, <4>1
      <4> QED
        BY <4>2 DEF AuditTellsReview
    <3> QED
      BY <3>1, <3>2, <3>3
         DEF SameWorkflow, SameKey, HistoryTells, AuditTellsStatus,
             AuditIsAPath, AuditTellsActors, AuditTellsAttempts, Started
  <2>10. CASE LeaseExpires(id)
    <3>1. /\ SameWorkflow(id, requests[id], requests'[id])
          /\ requests'[id].review = requests[id].review
          /\ reviewAudit'[id] = reviewAudit[id]
      BY <2>10, LeaseStepEffect
    <3>2. HistoryTells(id) /\ Exists(id)'
      BY <2>3, <2>10, ExistsBefore
    <3> QED
      BY <3>1, <3>2
         DEF SameWorkflow, SameKey, HistoryTells, AuditTellsStatus,
             AuditIsAPath, AuditTellsActors, AuditTellsAttempts,
             AuditTellsReview, Started
  <2> QED
    BY <2>1, <2>2, <2>4, <2>5, <2>7, <2>8, <2>9, <2>10, Locality
<1> QED
  BY <1>1, <1>2, RepoTypeCorrect, PTL DEF RepoSpec

=============================================================================
