# TLA+ verification of sse-discord-bot

The bot lets members of a Discord guild verify an e-mail address and lets
officers approve access to infrastructure (an Authentik group, and Headscale
behind it). Workflow state lives in Postgres; the bot may run as several
instances, may be restarted at any time, and calls Discord, Authentik and an
SMTP server, each of which may fail or lose an answer. These specifications say
what must hold of that workflow whatever interleaves or fails.

Paths are relative to the root of the repository; `mod.rs` is
`src/commands/onboard/mod.rs`.

## 1. Inventory

### Components

| Component | Code | State | Operations |
|---|---|---|---|
| Onboarding repository | `src/db/onboarding_repository.rs`, migration 03 | tables `onboarding_requests`, `audit_events` | `start_or_reuse`, `set_review_message`, `approve`, `deny`, `claim_provisioning`, `mark_completed`, `mark_failed`; reads `find_by_id`, `list_recent`, `list_audit_events` |
| Onboarding handlers | `mod.rs` | none but the locals of running handlers; Discord holds the review messages | `/onboard`, `/onboarding_status`, `/onboarding_retry`, `/onboarding_check`, Approve and Deny buttons, `provision_request`, `ensure_review_message` |
| Authentik client | `src/integrations/authentik.rs` | the cached access token; Authentik holds users and groups | find or create a user, add to a group, recovery link, access checks; token fetch and invalidation |
| Pending verification attempts | `src/db/pending_verification_repository.rs`, migrations 02, 04, 05 | table `pending_verification_attempts` | `start_or_reuse`, `delete_if_code_matches`, `check_code` |
| Verified identities | `src/db/verify_repository.rs`, migrations 01, 04, 05 | table `verified_identities` | `find_user_by_id`, `confirm_display_name`, the upsert of `check_code` |
| Verification handlers | `src/commands/verify.rs` | locals; Discord holds nicknames and roles | e-mail modal, code modal, `start_verification`, `complete_verification` |
| Member synchronization | `src/commands/verify.rs` | Discord nicknames and roles | `handle_member_join`, `sync_verified_member` |
| E-mail delivery | `src/integrations/email.rs` | none | one SMTP submission |
| Domain types | `src/domain/*.rs` | none | parsing of addresses, names, statuses; hashing of codes |
| Configuration | `src/config/mod.rs` | read once at startup | validation |
| Commands, lookups, startup, logging, pool | `src/commands/{mod,find,age}.rs`, `src/{main,lib,logging}.rs`, `src/db/mod.rs` | none | dispatch, read-only commands, migrations at startup |

`/verify` in `verify.rs` is not registered (`commands/mod.rs::enabled` adds only
`verification_panel`); verification goes through the panel's modals.

### How they interact

A Discord interaction starts a Tokio task running one handler. Handlers share
nothing in memory but the configuration, the connection pool and the Authentik
client; they meet in the tables, in Discord (a review message two of them edit)
and in Authentik (an account two of them create). Onboarding reads the identity
that verification writes: once when a request is made, and again before each
decision and attempt. An approval provisions in the same task; a failed or
abandoned attempt is taken up by `/onboarding_retry`, from any instance.

### What is hard

* Two officers decide at once; a button of an old message is clicked late.
* An attempt that runs longer than fifteen minutes is taken over while its
  worker is still alive: two workers, two outcomes.
* The process dies between the approval and the claim, between the claim and the
  outcome, or between posting a review message and recording it.
* Each call of the provisioning sequence may fail before or after it takes effect,
  or time out and take effect when its attempt is long over.
* Roles, officers and identities change between a check and its use.
* Find-then-create against Authentik, with nothing to make the pair atomic.
* Review messages are edited from rows read earlier.
* A 401 answers a request with a token of some time ago; by then another task
  may have logged in again.
* Verification: the address is checked against the identity, and an attempt is
  started later; attempts are replaced while e-mail is under way; the limit on
  wrong codes must hold across concurrent checks.

### What makes each part correct

* Repository: one active request per user and target; decisions are final; the
  table's constraints always hold; the audit events reconstruct every row; an
  attempt number fences its worker.
* Handlers: access only for an approved address; completed only if everything
  was done; no contradictory messages; an approved request is completed in the
  end; a review message follows its request.
* Verification: an identity's address was proved by a code mailed to it, which
  was used once, within the limit of wrong tries; a verified member's address
  changes only through an officer; a member is not stranded.
* Token cache: a rejected old token does not evict a newer one; callers share a
  login; a request is sent a second time only after a 401 and with a later token,
  so it takes effect at most once.

## 2. Modules

| Module | What it is |
|---|---|
| `OnboardingRepository` | The two tables; one action per committed transaction, callable at any time. A call that changes no row is a stuttering step. |
| `OnboardingLifecycle` | The abstract promise: open, settle, give access, complete. |
| `Onboarding` | EXTENDS the repository. The handlers as tasks with a program counter, one action between two awaits, with Discord, the persisted identity and Authentik as state. Implements `OnboardingLifecycle`. |
| `VerificationRepository` | The tables of attempts and identities; one action per transaction, callable at any time. |
| `VerificationLifecycle` | The abstract promise: ask, lapse, prove, promote, enter, exit. |
| `Verification` | EXTENDS the repository. The two modals and the join handler as tasks, with the mailboxes and the guild's members. Implements `VerificationLifecycle`. |
| `Bot` | EXTENDS `Onboarding` and joins it to `Verification`: one process, one database, one guild. Implements both. |
| `AuthentikCalls` | What a caller of the Authentik client counts on: a call takes effect at most once, and is answered only if it did. |
| `AuthentikToken` | The token cache behind its mutex and the callers that share it. Implements `AuthentikCalls`. |
| `OnboardingRepositoryProofs`, `OnboardingProofs`, `OnboardingWorkProofs`, `VerificationRepositoryProofs`, `VerificationProofs`, `VerificationMailProofs`, `AuthentikTokenProofs`, `BotProofs` | Theorems. |
| `MC*` and `*.cfg` | Instances for TLC. |

`Onboarding` and `AuthentikToken` meet in `AuthentikCalls`: a handler's call to
Authentik works, fails without effect, or works and loses its answer, which are
the ways a call of `AuthentikCalls` can go; `AuthentikToken` shows that the
client keeps to it although it logs in, drops tokens and sends requests again.
Both follow a call until its caller is answered; `Onboarding` alone also reckons
with the effect of a call that its caller has given up.

### OnboardingRepository and the code

`requests[id]` is a row of `onboarding_requests`; `audit[id]` its audit events in
order, without `review_synchronized`, which is `reviewAudit[id]`. Timestamps are
kept as far as a statement reads them: `provisioning_started_at` is `lease`
(`none`, `running`, `expired` after 15 minutes), the others are non-null exactly
when a column written with them is. `StartRequest`, `SetReviewMessage`, `Approve`,
`Deny`, `ClaimProvisioning`, `MarkCompleted` and `MarkFailed` are the functions of
those names: the WHERE clause is the guard, SET is the new row, `insert_audit`
the event appended in the same transaction.

### Onboarding and the code

`task[t]` holds what a handler's locals hold: the caller, the request, the last
row a transaction returned (`seen`), the account it found. `pc` names the next
await. `cards` are the review messages: the request named in the button's custom
id, and the status shown (buttons exactly when it is `pending`).

| pc | code |
|---|---|
| authorize, role, identity | checks at the head of a handler, `target_remains_eligible` |
| insert, select | the two statements of `start_or_reuse` |
| decide, denial | `handle_approval`, `handle_denial` |
| provision, recheck_role, recheck_identity, claim | head of `provision_request` |
| account, create, group, link, dm | the calls to Authentik and the direct message |
| complete, fail | `mark_completed`, `mark_failed` |
| review, post, record | `ensure_review_message`, where an edit may have taken effect although its answer is lost and a replacement is posted; `after` is where the handler goes on |
| reply | last message of `/onboard` |

A call to Authentik or Discord has three outcomes: it works, it fails with no
effect (`CallFails`), or it works and the answer is lost (`lost`). A creation or an
addition to a group may besides run into the client's timeout (`TimesOut`,
authentik.rs:92) while the request is under way: it then waits in `lateUsers` or
`lateMembers` until Authentik carries it out (`LateUser`, `LateMember`), if ever, in
the middle of the next attempt or after the request is completed. Any other error
a handler passes up with `?`, and a crash, are `Abort`: the task is gone and what
it did stays. A member fetch that fails ends the handler like a failed check.

### VerificationRepository and Verification and the code

`pending[u]` and `identities[u]` are the rows of `pending_verification_attempts`
and `verified_identities`. `check_code` holds its row (`FOR UPDATE`) from the
first statement to the commit, so each outcome is one action: `AcceptCode`,
`RejectCode`, `DiscardAttempt` (expired, or begun without a name), and nothing for
a missing row. `StartAttempt` is a `start_or_reuse` that inserted or replaced; one
that reuses changes nothing. A code is a value generated once, and its hash
matches it alone. `expired` is the comparison of `expires_at` with `NOW()`. The
tables may start with attempts without a name, of the image deployed before display
names (migration 05), and with identities whose name migration 04 filled in and nobody
has confirmed. A member may have the role from before, with or without an identity
(`OldMember`, mod.rs:129). `issued`, `wrong` and `accepted` are history for the properties.

A task's `pc` again names the next await: `lookup` (`find_user_by_id`), `confirm`,
`start`, `mail`, `cleanup` (`start_verification`), `check`, then `fetch`, `nick`,
`grant`, `revoke` (`complete_verification`, `sync_verified_member`), `mark` (the
unverified role, which is configured here). `Mail` may deliver and succeed, fail,
or deliver and be reported as failed. `sync_verified_member` decides each call by
the member as fetched or as it joined (`member`), not as it is. A submitted code is
one its user can read in a mailbox (`Reads`), or a wrong guess.

### VerificationLifecycle and Verification

`asked` is the address of the row in `pending_verification_attempts`, `proved` that
of the identity's. The refinement says more than the invariants do: an attempt
keeps its address until it is closed, an identity changes only when its own open
attempt closes, in one step, and only to an address its user reads, and a
member's role is taken away by leaving alone. A replacement of an expired or
nameless attempt closes the old one and opens the new one in the same statement,
so `asked` shows an attempt only while it can still be accepted.

### Bot and the code

Verification and onboarding meet in two things that verification writes and
onboarding reads. `verified` is who has the verified role (mod.rs:998), and in
`Bot` is `Verification`'s `Holders`; `identity` is what `find_user_by_id` says of a member
whose name is confirmed (mod.rs:130, mod.rs:1008), and in `Bot` is `Confirmed`, a view of
`identities`. A step is a step of verification (`VerificationStep`), which moves the
two along, or one of onboarding (`OnboardingStep`), which leaves everything of
verification alone; `handle_event` dispatches to both, and neither waits for the other.
`Verification` is instantiated with its tasks as `Clerks` and `clerk`.

On its own, `Onboarding` lets roles come and go and identities change as they please
(`RoleChanges`, `IdentityChanges`), starting from any. `ImplementsOnboarding` says that
this is as free as verification can be: one member's role, or one member's confirmed
identity, in a step, and a confirmed identity replaced but never withdrawn.

### AuthentikToken and the code

`cached` and `fresh` are `access_token: Mutex<Option<CachedToken>>`, with the
comparison of `refresh_at` with the clock as a fact that time takes away
(`Ages`); `holder` is the task that keeps the guard over the login. The mutex is
held over no other await, so where it is taken and released in one step it does
not show. Tokens are numbered as Authentik issues them; `valid` are those it
accepts (`Expires`: they run out there, or are revoked, at any time and whatever
the cache believes). `call[c]` are the locals of `send_authenticated`:

| step | code |
|---|---|
| lock | `access_token` waits for the mutex |
| login, granted | the request for a token, and its answer under way |
| send, carried | the request under way, and its answer |
| drop | `invalidate_access_token` waits for the mutex, with the token that was refused |

A restart of the process empties the cache, which is where it starts.

## 3. Runs

| Run | Question | Bounds |
|---|---|---|
| `repo` | Do the transactions alone keep the invariants, in any order? | three ids of one user and target, two officers, two attempts, a review message recorded twice |
| `decisions` | Do two overlapping handlers keep access, completion, messages and attempts consistent under failures, do all attempts go on with one account, and does a review message only show what was true? | one request, two tasks, two attempts, two messages, one abort |
| `liveness` | Is an approved request completed in the end? | one request, two tasks, two attempts, one abort |
| `targets` | Are requests provisioned together, for one address or for two that share a local part, only completed on an account of their own address, and do they implement the lifecycle? | two users, requests and targets, three addresses of which two share a local part, one attempt |
| `drift` | Is access right when roles, identities and officers change at any step? | two addresses, two attempts |
| `verification` | Is an identity's address proved, a wrong code counted, a code used once, the role and the nickname only given on a confirmed identity, a delivered code left alone, and does it all implement the lifecycle? | one user, an own and a foreign address, one preferred name, three codes, two wrong tries, two tasks, one mishap; the member may have the role from before, with or without an identity |
| `verification_liveness` | Is a member who keeps asking settled in the end? | the same with two codes, one wrong try, a reserve of one code |
| `bot` | Does access, and the link that sets a password, only go to an address its user proved, when verification and onboarding run together? Is verification all that `Onboarding` was checked against? | one member with an own address and that of a namesake, whose account Authentik may have already; two clerks, two codes, one wrong try; one task, one attempt |
| `token` | Does a retry use a later token, does a good token stay in the cache, are logins shared, does every call return, and take effect at most once? | two callers, four tokens |
| `address` | A disagreement between what the code says and does; see below. | two own addresses |
| `eligible`, `review_keeps_up` | Two disagreements between what the code says and does; see below. | |

Bounds, each named in a guard: `MaxAttempts` (the row's counter; the last attempt
meets no failure, `MayFail`, and its lease does not run out, because the model
could not repeat it; `RoomForAttempt` refuses another as an unavailable request),
`MaxPosts` (review messages recorded per request), `MaxAborts` (tasks that die),
`MaxLate` (timed-out requests under way at once: one in `decisions`, `drift` and
`liveness`, none where the question is another),
`Registered` (the addresses of accounts that were there before the bot: that of a
namesake in `bot`, none elsewhere), `RoomForRequest` (an id for every `/onboard` in flight), `Handlers` (the
interactions of a scenario) and `Drifts` (what may change). Two workers and two
attempts are what a takeover needs: one worker of the old attempt, one of the
new. Two targets are what an account found by the one and created by the other needs; two users whose addresses share
a local part are what a stolen account would need, because Authentik's username
is the local part alone: the second creation is refused (`UsernameRefused`) at
every attempt. Another spelling of an address is one more member of `Emails`, with
a username of its own. Three ids are what a denial
followed by two new requests needs.

Verification: `Codes` bounds how many attempts are ever started, so what may go
wrong does so only while another code is left (`Spare`), an address the user
does not read leaves `Reserve` of them over (`RoomForCode`; one for liveness, none for
safety), and the last code is not used up by
wrong guesses (`LastTry`); `MaxMishaps` bounds dying tasks and departures. Three
codes are an attempt, its replacement, and one that is started while the mail of
either is still under way; two tasks are two handlers of one user.
Rows are keyed by user and no statement reads another user's, so one user is
enough; that a code is only one user's is proved, not run. A run has one preferred
name: that two forms with two names race for the nickname is not run, and no property
says whose wins.

Bot: two clerks are what a replaced or reused attempt needs, and one task is
enough for what the two parts have to do with each other: how tasks overlap is the
question of the other runs, and any number of both is proved. The run's view leaves
out `audit`, `dms`, `wrong`, `accepted` and `sent`: histories that no guard reads, and to
which a step adds the same whatever they hold, so of two states that differ in them
alone the same steps lead on, and the search loses nothing.

Token cache: `MaxTokens` bounds the logins; when it is reached a login fails. A
call uses at most two tokens, so four are enough for both callers to be
refused twice, or for one to be refused while the other has logged in again.

Deadlock is checked in `decisions`, `liveness`, `drift`, `bot`, `token` and the
verification runs. `repo` stops
when every id is used up and finished, `targets` when both requests are.

Fairness (`FairSpec`): every task makes progress, because Tokio polls it and
every call has a timeout; the clock moves; and an officer who can run
`/onboarding_retry` again and again does. Nobody is obliged to click a button,
and neither failures nor successes of a call are forced: failures are bounded
instead, by attempts and aborts. In `Verification`, `FairSpec` also says that hours
pass and that a member who again and again can ask with an own address, or enter
the code last received, does (strong fairness: a handler in flight or a missing
attempt disables either for a while). Joins, departures, deaths and failures of
the mail are never forced. In `AuthentikToken` it says that a caller who waits for
nobody goes on (`WF`: every request has a timeout, authentik.rs:90) and that one
who waits for the mutex gets it if it is free again and again (`SF`: Tokio's mutex
serves its waiters in order).

### Findings

* `eligible`: a retry is refused because the display name changed, although the
  message asks to confirm "Discord verification and persisted email"
  (mod.rs:1098). The request keeps its old name for good.
* `review_keeps_up`: a handler holding an old row puts a decided request's
  message back to `pending`, with its buttons (mod.rs:823). The buttons do no
  harm (`DecisionIsFinal`), but the message is wrong until something else
  synchronizes it.
* `address`: a member with a pending code submits the code and, at the same time,
  the e-mail form with another address. The identity is read before the code is
  accepted (verify.rs:691) and the attempt started after (verify.rs:723); its code
  then replaces the address, although "Ask an officer for help if it needs to be
  changed" (verify.rs:696). Both addresses are the member's own
  (`IdentityIsProved`).

No run states it, but it follows from `reply`: `/onboard` answers "is waiting for
approval" (mod.rs:198) also of a request that was approved and whose handler died
before the claim, which only `/onboarding_retry` moves on (`ApprovedIsCompleted`).

## 4. Proofs

Theorems hold for every value of the constants, under the modules' named
assumptions:

| Assumption | Module | What it says |
|---|---|---|
| `BoundsAssumption`, `NullAssumption` | `OnboardingRepository` | bounds are naturals; None and NoRow are not data |
| `IdentityAssumption`, `ScenarioAssumption` | `Onboarding` | identities have addresses; a username per address; handlers and drifts are known ones; None is not data |
| `LimitAssumption`, `NoneAssumption`, `RowAssumption` | `VerificationRepository` | at least one wrong code is allowed; None is neither data nor a row |
| `ScenarioAssumption` | `Verification` | bounds are naturals; who reads which address is a relation of users and addresses |
| `NamesAssumption`, `DriftAssumption`, `VerifyingAssumption` | `Bot` | an identity is an address and a name; roles and identities may change; what the two modules of verification assume, for its constants here |
| `TokenAssumption` | `AuthentikToken` | the bound is a natural; None is not a caller |

`OnboardingRepositoryProofs` proves of `RepoSpec`: `RepoTypeOK`,
`OneActiveRequest`, `SchemaChecks`, `DecisionIsFinal`, `AuditReconstructsRow`.
The argument goes through one lemma per transaction saying what it does to the
row and its history (`...Effect`), so that each invariant is shown on effects
and not on actions. `OneActiveRequest` needs that an active row was active
before or has just been inserted without a conflict (`RowEvolution`).
`AuditReconstructsRow` needs that a history only grows by an event that may
follow its last one (`HistoryGrows`, `Appended`).

`OnboardingProofs` proves of `Spec` that `TypeOK` holds and that every step of a
handler is a transaction of the repository or leaves the tables alone
(`HandlersUseTransactions`: `Spec => RepoSpec`), so that all the above holds of the
handlers too. `TypeOK` is not inductive: a task at `claim` must have a request
that exists, a task at `complete` an account and an attempt of at least one, and
a message that a row names must have been sent. `IInv` adds these (`TasksOK`,
`CardsOK`); `GoodStep` is what each action is shown to do.

`OnboardingWorkProofs` proves the rest of what the runs check of the handlers
except liveness: `AccessNeedsApproval`, `CompletedMeansProvisioned`,
`AttemptsShareAccount`, `AttemptsAreExclusive`, `RecordedAttemptIsOver`,
`MessagesAgree`, `CardsShowHistory`, and that `Spec` implements
`OnboardingLifecycle`. None of them is inductive, because each speaks of the world
and rests on what a task did before its last awaits. `WorkInv` therefore says of
each task what it may rely on:

* `OwnRow`: its request exists, for the target it looked at;
* `Licence`: it works under an approval, for the identity in the row, and its
  attempt is the row's, still open, or a later one fences it off (`Fence`);
* `Deeds`: at `group` its account has the address; at `link` and after it the account
  is in the group; at `complete` the member was told in this very attempt.

and of the requests that Authentik may still carry out that the access they would
give is covered by an approved request (`LateOK`): rows never lose their address,
target or approval (`CoverStays`), so the access is still right when it comes. A late
creation is harmless because Authentik, which the bot relies on, refuses a second
account of a username (`AccountCreated`). Hence the accounts that carry an address,
spelled as it is, have one username between them and are one (`UsernamesDiffer`,
`SameAddressSameAccount`), which is what `AttemptsShareAccount` needs: the account a
late or an earlier attempt gave access to is the one in hand. It says nothing of two
spellings.

The fence gives `RecordedAttemptIsOver`, and with it `AttemptsAreExclusive`: a claim
takes a number above every worker's. The deeds give `CompletedMeansProvisioned`
when `mark_completed` commits, and nothing takes an account's address or group
away later. `MessagesAgree` rests on decisions being final. What the tables do
meanwhile is taken from `HandlersUseTransactions` and the lemmas of
`OnboardingRepositoryProofs`. `ShowInv` says that the row a task shows had its
status in the history, which only grows, and that a row's message is about that
row. The refinement follows transaction by transaction: three of them are steps
of the lifecycle (`StartRefines`, `DecideRefines`, `CompleteRefines`), as is a new
member of a group, late or not (`MemberRefines`), and all others change nothing it
shows; `SchemaChecks` is needed to see that a retried request stays approved.

`VerificationRepositoryProofs` proves `GuessesAreLimited` and `CodesAreUsedOnce` of
`TablesSpec`. They are inductive together with the types and `FreshCodes` (a code
nobody was given has not been guessed at): a rejected code is counted on the one
row that holds it, so the row and the history stay equal.

`VerificationProofs` proves `TypeOK` and `StandingIsEarned` of `Spec`, and that each
step of a handler is a transaction or leaves the tables alone
(`HandlersUseTransactions`), which carries the two invariants over. `StandingIsEarned`
is about steps, because members may have the role without an identity from the
start. A step gives a role or a nickname long after it looked; that the identity is
there and confirmed then needs that every task between `confirm` or `fetch` and
`revoke` has one behind it (`SyncersAreEntitled`) and that no transaction takes this
away (`EntitledStays`).

`StandingChangesSingly` is what others may rely on: a step changes one member's role, or
one member's confirmed identity, or neither. It follows from the writes alone
(`IdentityWritten`, `MemberWritten`); a code is only accepted for an attempt with a
name, so what was confirmed stays so.

`VerificationMailProofs` proves `IdentityIsProved`, `DeliveredCodeStays` and that `Spec`
implements `VerificationLifecycle`. All three rest on where codes travel
(`MailInv`): a code in a mailbox, or about to be mailed, belongs to the attempt
with the address it is mailed to for as long as that attempt exists, and only one
task mails it. A replaced attempt takes its code out of reach, so the code that
arrives late fits no row.

`AuthentikTokenProofs` proves `TypeOK`, `RetryUsesNewerToken`, `GoodTokenStays`,
`LoginsAreNeeded` and the refinement of `AuthentikCalls`. The inductive invariant
orders the tokens: what the cache holds was issued before what a login in flight
will bring, and a task that comes back from a refusal finds the cache empty or
with a token later than the one it was refused.

`BotProofs` proves that `BotSpec` implements both `Verification` and `Onboarding`, and from
this the two end-to-end properties of the run, `AccessIsProved` and
`LinkReachesOwner`. The first refinement is a projection. It carries over
`IdentityIsProved` and `StandingChangesSingly`; with `Linked` (what onboarding reads is
what verification wrote) each step of verification is a `RoleChanges`, an
`IdentityChanges` or a stutter of onboarding (`VerificationIsDrift`), which is the second
refinement, and carries over `WorkInv`. `WorkInv` speaks of a request's address, not of
who reads it. `ProvedInv` adds this: every row, every row in a task's hands and every
identity a task has read has an address its user reads. It is inductive because
addresses travel one way, from the identities (`IdentitiesOwn`) through a task into a row
and from rows into tasks (`Inherits`, shown of each action), a row keeps the address
it was inserted with (`RowEvolution`), and only an insert makes a row (`NoNewRow`).
`SameSpecification` is needed because `Bot` instantiates `Verification` and the proofs
the module that extends it: it says that both are the same specification.

The abstract specifications are shown to be worth implementing. Their own next-state
relations alone imply `AccessIsApproved` (who has access has it on an approved request
for that address and target), `ProvedIsRead` (an identity's address is one its user
reads) and `RoleIsProved` (nobody gets the role without an identity): `LifecycleNeedsApproval` and
`LifecycleIsProved`. With the refinements both hold of the handlers, and
`BotKeepsPromises` says that the bot implements the two specifications at once.

Only model-checked: the liveness properties `ApprovedIsCompleted`, `MemberIsSettled`
and `CallsReturn`, which with their fairness, and the ENABLED inside it, are
beyond the proof system; and the three disagreements, which are counterexamples.

## 5. Not modelled

* Parsing, formatting, hashing and logging (`src/domain`, the replies): functions
  of one string with unit tests beside them. Of an address the models tell apart
  which ones share a local part; a display name matters as equal or changed. Addresses
  are told apart as they are spelled: the bot keeps the case of a local part
  (domain/verification.rs:99), asks Authentik for exactly that spelling
  (authentik.rs:116) and makes the username of it (authentik.rs:487). Two spellings of
  one mailbox therefore get two accounts, in the code and in the model, and no
  property says otherwise. Authentik's filter is taken to be exact; were it not, the
  client would take an account in another spelling (authentik.rs:147) and the two
  would share one.
* The order of `/onboarding_status`: `audit` is in the order of commits, and
  `list_audit_events` sorts by `created_at`, when the transaction began.
* Configuration, startup and the connection pool: run once; a failing connection
  is any error. Another deployment with other targets or officers is seen as an
  officer losing the role (`drift`).
* `/onboarding_check`, listings, `/find`, `/age`: they change no state. `/verify` is
  not registered. Migrations are not events; that a row may predate one is an
  initial state of verification.
* Authentik: its groups and users are changed by the bot alone in `Onboarding`,
  which may find accounts there (`Registered`) but nobody in the groups. A
  late recovery link is not kept track of: no state of the bot depends on it. Nor
  are late requests in `AuthentikToken`: their answers reach no caller. Each login issues a
  token of its own; were it to return the token just refused, the retry would
  send that again, and fail.
* Clocks: the 15-minute lease is an event that may happen any time after a claim;
  so are the hour of a code and the refresh time of a token.

## 6. Plan

The order in which this was built: the onboarding tables, the handlers on top of
them, verification in the same two layers, the token cache, then abstract
specifications of each and their proofs, and last the composition of verification
with onboarding. What is left:

1. Targets that disappear from the configuration between two deployments, while
   requests for them are open.
