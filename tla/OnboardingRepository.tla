------------------------ MODULE OnboardingRepository ------------------------
(***************************************************************************)
(* The onboarding_requests and audit_events tables and the transactions    *)
(* of db/onboarding_repository.rs.  Every action is one committed          *)
(* transaction, called by anybody at any time with any argument: several   *)
(* handlers, several officers and several bot instances share the table.   *)
(* A call that returns AlreadyHandled, Unavailable, Missing, Reused or an  *)
(* error changes no row and is a stuttering step.                          *)
(*                                                                         *)
(* Abstractions.  Timestamps are kept only as far as code reads them:      *)
(* decided_at and completed_at are written with decidedBy and account, and *)
(* provisioning_started_at is `lease': NULL, less than 15 minutes ago, or  *)
(* older.  The e-mail address and display name copied into the row are one *)
(* member of Identities; the error text is the fact that there is one.     *)
(***************************************************************************)
EXTENDS Naturals, Sequences, FiniteSets

CONSTANTS RequestIds,    \* primary keys
          Users,         \* Discord users that are onboarded
          Targets,       \* configured onboarding targets
          Actors,        \* Discord users that request, decide and retry
          Identities,    \* verified (e-mail, display name) pairs
          Accounts,      \* Authentik user ids
          Messages,      \* Discord messages in the review channel
          MaxAttempts,   \* bound: provisioning attempts of one request
          MaxPosts,      \* bound: review messages recorded for one request
          None,          \* SQL NULL
          NoRow          \* an id no row has yet

Statuses == {"pending", "approved", "denied", "provisioning", "completed",
             "failed"}

Leases == {"none", "running", "expired"}

Row == [user        : Users,
        target      : Targets,
        requestedBy : Actors,
        identity    : Identities,
        status      : Statuses,
        decidedBy   : Actors \cup {None},
        attempts    : 0..MaxAttempts,
        lease       : Leases,
        account     : Accounts \cup {None},
        lastError   : BOOLEAN,
        review      : Messages \cup {None}]

EventTypes == {"request_created", "approved", "denied",
               "provisioning_started", "provisioning_completed",
               "provisioning_failed"}

Event == [type    : EventTypes,
          actor   : Actors \cup {None},
          attempt : 0..MaxAttempts]

ASSUME BoundsAssumption == MaxAttempts \in Nat /\ MaxPosts \in Nat

ASSUME NullAssumption ==
    /\ None \notin Actors
    /\ None \notin Accounts
    /\ None \notin Messages
    /\ NoRow \notin Row

VARIABLES
    requests,     \* onboarding_requests, by id
    audit,        \* per request, the audit events of status changes, in order
    reviewAudit   \* per request, the message of each review_synchronized event

repoVars == <<requests, audit, reviewAudit>>

-----------------------------------------------------------------------------

Exists(id) == requests[id] # NoRow

Active(row) == row # NoRow /\ row.status # "denied"

\* Mutant: the index covers pending requests only.
ConflictsWithoutDenied(user, target) ==
    {id \in RequestIds : /\ Exists(id)
                         /\ requests[id].status = "pending"
                         /\ requests[id].user = user
                         /\ requests[id].target = target}

(***************************************************************************)
(* The partial unique index: what ON CONFLICT ... DO NOTHING finds.        *)
(***************************************************************************)
Conflicts(user, target) ==
    {id \in RequestIds : /\ Active(requests[id])
                         /\ requests[id].user = user
                         /\ requests[id].target = target}

NewRow(user, target, actor, identity) ==
    [user |-> user, target |-> target, requestedBy |-> actor,
     identity |-> identity, status |-> "pending", decidedBy |-> None,
     attempts |-> 0, lease |-> "none", account |-> None,
     lastError |-> FALSE, review |-> None]

AuditEvent(type, actor, attempt) ==
    [type |-> type, actor |-> actor, attempt |-> attempt]

\* A transaction that rewrites one row and appends its audit event.
Commit(id, row, event) ==
    /\ requests' = [requests EXCEPT ![id] = row]
    /\ audit' = [audit EXCEPT ![id] = Append(@, event)]
    /\ UNCHANGED reviewAudit

-----------------------------------------------------------------------------

(***************************************************************************)
(* start_or_reuse, the branch that inserts.                                *)
(***************************************************************************)
StartRequest(id, user, target, actor, identity) ==
    /\ ~Exists(id)
    /\ Conflicts(user, target) = {}
    /\ Commit(id, NewRow(user, target, actor, identity),
              AuditEvent("request_created", actor, 0))

(***************************************************************************)
(* set_review_message: unconditional on the status, the last caller wins.  *)
(***************************************************************************)
SetReviewMessage(id, message) ==
    /\ Exists(id)
    /\ Len(reviewAudit[id]) < MaxPosts
    /\ requests' = [requests EXCEPT ![id].review = message]
    /\ reviewAudit' = [reviewAudit EXCEPT ![id] = Append(@, message)]
    /\ UNCHANGED audit

\* Mutant: a decision may be changed until the request is done.
DecisionAllowedUntilDone(row) == row.status \notin {"denied", "completed"}

DecisionAllowed(row) == row.status = "pending"

Decided(row, actor, decision) ==
    [row EXCEPT !.status = decision, !.decidedBy = actor, !.lastError = FALSE]

(***************************************************************************)
(* approve and deny share decide: an UPDATE ... WHERE status = 'pending'.  *)
(***************************************************************************)
Decide(id, actor, decision) ==
    /\ Exists(id)
    /\ DecisionAllowed(requests[id])
    /\ Commit(id, Decided(requests[id], actor, decision),
              AuditEvent(decision, actor, 0))

Approve(id, actor) == Decide(id, actor, "approved")

Deny(id, actor) == Decide(id, actor, "denied")

\* Mutant: whatever is not done can be claimed.
ClaimableUnlessDone(row) == row.status \notin {"denied", "completed"}

\* Mutant: an abandoned attempt cannot be claimed.
ClaimableWhenFresh(row) == row.status \in {"approved", "failed"}

Claimable(row) ==
    \/ row.status \in {"approved", "failed"}
    \/ row.status = "provisioning" /\ row.lease = "expired"

\* Mutant: the attempt counter does not move.
ClaimedSameAttempt(row) ==
    [row EXCEPT !.status = "provisioning", !.lease = "running",
                !.lastError = FALSE]

Claimed(row) ==
    [row EXCEPT !.status = "provisioning", !.attempts = @ + 1,
                !.lease = "running", !.lastError = FALSE]

(***************************************************************************)
(* claim_provisioning: a new attempt number fences off older workers.      *)
(***************************************************************************)
ClaimProvisioning(id, actor) ==
    /\ Exists(id)
    /\ Claimable(requests[id])
    /\ requests[id].attempts < MaxAttempts
    /\ Commit(id, Claimed(requests[id]),
              AuditEvent("provisioning_started", actor,
                         Claimed(requests[id]).attempts))

\* Mutant: no fence.
HeldByAnyAttempt(row, attempt) == row.status = "provisioning"

\* The fence: the row is still being provisioned by this attempt.
HeldBy(row, attempt) ==
    row.status = "provisioning" /\ row.attempts = attempt

Completed(row, account) ==
    [row EXCEPT !.status = "completed", !.account = account,
                !.lastError = FALSE]

MarkCompleted(id, account, attempt) ==
    /\ Exists(id)
    /\ HeldBy(requests[id], attempt)
    /\ Commit(id, Completed(requests[id], account),
              AuditEvent("provisioning_completed", None, 0))

\* Mutant: a failure reopens the request.
FailedResettingDecision(row) ==
    [row EXCEPT !.status = "pending", !.lastError = TRUE]

\* Mutant: a status the enumeration does not have.
FailedUnderUnknownName(row) == [row EXCEPT !.status = "error", !.lastError = TRUE]

Failed(row) == [row EXCEPT !.status = "failed", !.lastError = TRUE]

MarkFailed(id, attempt) ==
    /\ Exists(id)
    /\ HeldBy(requests[id], attempt)
    /\ Commit(id, Failed(requests[id]),
              AuditEvent("provisioning_failed", None, 0))

(***************************************************************************)
(* Fifteen minutes pass since the claim.  At the last attempt the bound    *)
(* leaves no claim to make, so the lease does not expire.                  *)
(***************************************************************************)
LeaseExpires(id) ==
    /\ Exists(id)
    /\ requests[id].status = "provisioning"
    /\ requests[id].lease = "running"
    /\ requests[id].attempts < MaxAttempts
    /\ requests' = [requests EXCEPT ![id].lease = "expired"]
    /\ UNCHANGED <<audit, reviewAudit>>

-----------------------------------------------------------------------------

RepoInit ==
    /\ requests = [id \in RequestIds |-> NoRow]
    /\ audit = [id \in RequestIds |-> << >>]
    /\ reviewAudit = [id \in RequestIds |-> << >>]

RepoNext ==
    \E id \in RequestIds :
        \/ \E user \in Users, target \in Targets, actor \in Actors,
              identity \in Identities :
                StartRequest(id, user, target, actor, identity)
        \/ \E message \in Messages : SetReviewMessage(id, message)
        \/ \E actor \in Actors : Approve(id, actor)
        \/ \E actor \in Actors : Deny(id, actor)
        \/ \E actor \in Actors : ClaimProvisioning(id, actor)
        \/ \E account \in Accounts, attempt \in 1..MaxAttempts :
                MarkCompleted(id, account, attempt)
        \/ \E attempt \in 1..MaxAttempts : MarkFailed(id, attempt)
        \/ LeaseExpires(id)

RepoSpec == RepoInit /\ [][RepoNext]_repoVars

-----------------------------------------------------------------------------

(***************************************************************************)
(* Every row and event has its type.                                       *)
(***************************************************************************)
RepoTypeOK ==
    /\ requests \in [RequestIds -> Row \cup {NoRow}]
    /\ audit \in [RequestIds -> Seq(Event)]
    /\ reviewAudit \in [RequestIds -> Seq(Messages)]

(***************************************************************************)
(* The table constraints of migration 03 that no single UPDATE checks on   *)
(* its own: were one violated, Postgres would abort the transaction and    *)
(* the handler would fail on a legal call.                                 *)
(***************************************************************************)
RowChecks(row) ==
    /\ (row.status = "pending") <=> (row.decidedBy = None)
    /\ row.status = "provisioning" => row.attempts > 0 /\ row.lease # "none"
    /\ row.status = "completed" => row.account # None

SchemaChecks == \A id \in RequestIds : Exists(id) => RowChecks(requests[id])

(***************************************************************************)
(* At most one request of a user for a target is not denied, whatever is   *)
(* decided, retried and requested again (ROADMAP 2.1 and the unique        *)
(* index, which an UPDATE reviving a denied row would hit).                *)
(***************************************************************************)
OneActiveRequest ==
    \A i, j \in RequestIds :
        /\ Active(requests[i])
        /\ Active(requests[j])
        /\ requests[i].user = requests[j].user
        /\ requests[i].target = requests[j].target
        => i = j

StatusAfter(type) ==
    CASE type = "request_created"        -> "pending"
      [] type = "approved"               -> "approved"
      [] type = "denied"                 -> "denied"
      [] type = "provisioning_started"   -> "provisioning"
      [] type = "provisioning_completed" -> "completed"
      [] type = "provisioning_failed"    -> "failed"

MayFollow ==
    {<<"request_created", "approved">>, <<"request_created", "denied">>,
     <<"approved", "provisioning_started">>,
     <<"provisioning_started", "provisioning_started">>,
     <<"provisioning_started", "provisioning_completed">>,
     <<"provisioning_started", "provisioning_failed">>,
     <<"provisioning_failed", "provisioning_started">>}

\* The row's status is the one the last audited event leads to.
AuditTellsStatus(id) ==
    /\ audit[id] # << >>
    /\ requests[id].status = StatusAfter(audit[id][Len(audit[id])].type)

\* The history is a path of the workflow: in particular nothing follows a
\* denial or a completion, and an attempt records at most one outcome.
AuditIsAPath(id) ==
    \A i \in 1..(Len(audit[id]) - 1) :
        <<audit[id][i].type, audit[id][i + 1].type>> \in MayFollow

\* It names the requester and the officer who decided.
AuditTellsActors(id) ==
    /\ audit[id][1].type = "request_created"
    /\ audit[id][1].actor = requests[id].requestedBy
    /\ Len(audit[id]) > 1 => audit[id][2].actor = requests[id].decidedBy
    /\ \A i \in 2..Len(audit[id]) : audit[id][i].type # "request_created"

Started(id) ==
    {i \in 1..Len(audit[id]) : audit[id][i].type = "provisioning_started"}

\* It names, once and in order, every attempt up to the row's counter.
AuditTellsAttempts(id) ==
    /\ \A i \in Started(id) : audit[id][i].attempt \in 1..requests[id].attempts
    /\ \A i, j \in Started(id) :
            i < j => audit[id][i].attempt < audit[id][j].attempt
    /\ \A n \in 1..requests[id].attempts :
            \E i \in Started(id) : audit[id][i].attempt = n

AuditTellsReview(id) ==
    requests[id].review = IF reviewAudit[id] = << >> THEN None
                          ELSE reviewAudit[id][Len(reviewAudit[id])]

HistoryTells(id) ==
    /\ AuditTellsStatus(id)
    /\ AuditIsAPath(id)
    /\ AuditTellsActors(id)
    /\ AuditTellsAttempts(id)
    /\ AuditTellsReview(id)

NoHistory(id) == audit[id] = << >> /\ reviewAudit[id] = << >>

(***************************************************************************)
(* The durable history alone tells what happened to a request: its status, *)
(* who requested and who decided it, each attempt with at most one         *)
(* outcome, and where its review message is (ROADMAP milestone 4, "can be  *)
(* reconstructed later").                                                  *)
(***************************************************************************)
AuditReconstructsRow ==
    \A id \in RequestIds :
        IF Exists(id) THEN HistoryTells(id) ELSE NoHistory(id)

Decision(row) ==
    IF row.decidedBy = None THEN "open"
    ELSE IF row.status = "denied" THEN "denied" ELSE "approved"

(***************************************************************************)
(* The first decision is final: no later call, of any handler or attempt,  *)
(* reverses it or replaces the officer who made it, and a completed        *)
(* request keeps its account (ROADMAP 2.2, "Preserve the actor").          *)
(***************************************************************************)
DecisionIsFinal ==
    [][\A id \in RequestIds :
          Exists(id) /\ requests[id].status # "pending" =>
            /\ Exists(id)'
            /\ Decision(requests'[id]) = Decision(requests[id])
            /\ requests'[id].decidedBy = requests[id].decidedBy
            /\ requests[id].status = "completed" =>
                    /\ requests'[id].status = "completed"
                    /\ requests'[id].account = requests[id].account]_repoVars

=============================================================================
