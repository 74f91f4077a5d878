# Study agent platform: a verification project in TLA+

The platform is a Python web application in which learners keep projects,
conversations, plans and study materials, and in which workers ask a language
model questions on their behalf. Two things make it hard to get right. It spends
money with an external provider that may time out after it was asked, and nearly
every operation can be repeated: by a client that retries, by a worker that
reclaims the job of a dead one, by a reconciliation. These modules model those
parts and the stores around them, check them on small instances with TLC, and
prove the most important properties for every instance with TLAPS.

Paths are relative to `src/backend/app/` unless they start with `src/`.

## 1. Inventory

| Component | State | Operations | Hard behaviour | Modules |
|---|---|---|---|---|
| Teaching run store (`db/teaching_store.py`, `teaching/memory_store.py`, migration 0010) | runs with claim token and lease, provider attempts, events, the answer's slot in a conversation | start, claim, mark dispatched, record result, finish, fail, require reconciliation | leases that pass under a live worker, crashes between steps, replay of stored results | `TeachingRuns` |
| Teaching service and worker (`teaching/service.py`, `workers/teaching.py`) | the memory of a worker process | replay or execute, one provider call, validation, settlement | unknown outcomes, exceptions that kill the worker or let the claim go | `TeachingRuns` |
| Teaching budget (`budget/ports.py`, `db/budget_store.py`) | tenant and project accounts (reserved, in flight, spent), one reservation per run | reserve, hold to in flight, settle, release | two rows that must agree, unknown cost, reported usage that cannot be trusted | `TeachingBudget` |
| Teaching run API (`api/teaching_routes.py`) | a connection that replays events | start, event stream with `Last-Event-ID` | bounded batches, broken connections | `TeachingRuns`, `TeachingStream` |
| HTTP idempotency (`api/http_idempotency.py`) | one row per tenant, principal, command and client key: state, owner token, lease, cached response | claim, complete, release, the guard around an endpoint | lost responses, leases that pass, a commit without completion | `HttpIdempotency` |
| Ingestion (`db/ingestion_store.py`, `workers/ingestion.py`) | documents with versions, jobs with claim token and lease, chunks | enqueue, claim, load, parse, complete, fail | stale workers, late completion, the race for a version | `IngestionJobs`, `JobQueue` |
| Document processor (`knowledge/processor.py`) | position, open headings and fence, units, pieces | parse | boundaries of the cuts, overlap | `Chunking` |
| Interaction runtime (`workflow/runtime.py`) | idempotency table with a condition variable, run accounts | authorise, confirm, reserve, dispatch, settle, close | concurrent requests with one key, partial failure between the steps | `ToolExecution` |
| Dispatcher and state machine (`execution/outbox.py`, `execution/state_machine.py`) | logical actions, revocation epoch | plan, dispatch, reconcile, revoke | effect before the record, unknown outcomes | `ToolExecution` |
| Budget tree (`budget/ledger.py`) | accounts, reservations, grants | open, reserve, settle, release, grant to child, close | conservation between parent and child | `BudgetTree` |
| Confirmations (`execution/confirmation.py`, `db/confirmation_store.py`) | confirmations, consumed or not | create, peek, consume | one use, check and use are apart | `ToolExecution` |
| Audit (`audit/sink.py`, `audit/outbox.py`) | a hash-chained file, a buffer, an outbox table | append, flush, verify, stage, project | sink down, torn lines, projection at least once | `AuditTrail`, `SignIn` |
| Identity (`identity/`, `db/identity_store.py`, `db/rate_limit_store.py`) | invitations, sessions, counters | exchange, authenticate, revoke, revoke all, register an attempt | concurrent exchange and revocation, window boundary | `SignIn` |
| Projects (`identity/membership.py`, `api/projects_routes.py`) | projects with a version, grants | create, grant, edit | two edits of one version, two adapters | `Projects` |
| Products (`product/`, `db/product_store.py`) | messages, plan versions, tasks | append message, replace plan, transition task | concurrent writers | `Products` |
| Learning (`learning/`, `db/learning_store.py`, `db/evidence_store.py`) | diagnoses, assessments, evidence table, log of the runtime | diagnose, generate plan, submit a report, observe, project | a report races a move, two logs, numbering | `Products` |
| Knowledge retrieval (`knowledge/store.py`, `knowledge/retrieval.py`, `knowledge/evidence_state.py`) | published chunks of every version | search, read a citation back, assess | answers that become stale | `Retrieval` |
| Policy (`policy/`, `execution/child_run.py`) | issued tokens, endorsements | derive, verify, authorise, consume | scope that only narrows | none |
| Registry, tenancy, core helpers, wiring, earlier migrations, tools, front end | static or derived | | none of a protocol | none |

How they interact. An HTTP request is authenticated (identity), guarded by an
idempotency key if it writes, and then either writes product rows, starts a
teaching run or runs an interaction. An interaction calls tools through the
runtime, which asks the policy gateway, a confirmation, the budget tree and the
dispatcher in that order and audits each of them. A teaching run is only a row
until a worker claims it: API process and workers share nothing but the database.
Ingestion jobs are handed over in the same way; what they publish is what retrieval
searches. Audit events of an exchange go through an outbox table into the file that
the sink owns; all others go to the sink directly.

What makes each of them correct: a run asks the provider at most once, money
follows what happened, an answer shown is the answer stored, and a client that
follows the events misses none (teaching); one effect per key and no cached outcome
that did not happen (idempotency); versions without a hole, chunks written once by
the current holder (ingestion); no character lost and none under a wrong heading
(processor); no effect without an intent, no second effect before a reconciliation,
no confirmation used twice, one execution per key (tools); parents and children
reconcile (budget tree); no record lost or written twice without being detectable
(audit); one session per invitation and none after a revocation (identity); no edit
lost silently (projects); dense message numbers, one winner for every move, mastery
that is earned (products and learning); citations that say later what they said
first (retrieval).

## 2. Plan and order of the modules

The order is by what a failure costs.

| Part | Modules, bottom up | Run | Proofs |
|---|---|---|---|
| Teaching runs | `RunPromise` (abstract), `TeachingBudget`, `TeachingRuns`, `TeachingRunsInv`, `MCTeachingRuns` | `teaching_*` | `TeachingRuns_proofs`, `AccountSums` |
| HTTP idempotency | `KeyPromise` (abstract), `HttpIdempotency`, `MCHttpIdempotency` | `http_*` | `HttpIdempotency_proofs` |
| Ingestion | `JobQueue` (abstract), `IngestionJobs`, `MCIngestion` | `ingestion_jobs` | `IngestionJobs_proofs` |
| Tools | `BudgetTree`, `ToolExecution`, `MCToolExecution` | `tools`, `tools_rerun` | `ToolExecution_proofs`, `AccountSums` |
| Platform | `AuditTrail`, `SignIn`, `Products`, `Chunking`, `Projects`, `Retrieval`, `TeachingStream`, composed in `MCPlatform` | `platform` | `SignIn_proofs`, `Workspace_proofs`, `Platform_proofs`, `AccountSums` |

`X EXTENDS Y` where X uses the state or the operators of Y: `TeachingRuns` keeps the
ledgers of `TeachingBudget`, `ToolExecution` the ledger of `BudgetTree`, `SignIn` the
file of `AuditTrail`. `IngestionJobs` instantiates `JobQueue` under a refinement
mapping. Constants carry named assumptions, and no module uses a RECURSIVE
operator: recursion is by recursive functions or the folds of the community modules.

Worth doing next: the start endpoint composed with the idempotency guard, so that
a retried HTTP request cannot start two runs; endorsements and child runs once the
program calls them.

## 3. Teaching runs: the model and the code

`TeachingRuns` keeps a row of each table as a record per run, and the memory of a
worker process as a record with a program counter.

| Model | Code |
|---|---|
| `run[r]`: status, token, live | `teaching_runs`: status, claim_token, `lease_until > now()` |
| `attempt[r]` | `provider_attempts`, unique per run: status, id, result_payload |
| `resv[r]`, `ledger` | `teaching_reservations`, `teaching_tenant_budgets`, `teaching_budgets` |
| `answer[r]` | the assistant message in the slot reserved by `start_run` |
| `events[r]` | `teaching_events` in seq order |
| `worker[w]` | local variables of `run_once`, `execute`, `replay` |
| `calls`, `delivered` | history: calls of `provider.generate`; whether one arrived |

One action is one transaction of `db/teaching_store.py`, one call of the provider, or
one step outside both (building the context, validating the citations). A guard that
fails in the code raises; the action then leaves the rows alone (rollback) and the
worker lets go, which is what it does both for the error codes it takes as "stale"
and for the exceptions that kill it. `LetGo` therefore stands for both, and "idle"
also for a dead process that the supervisor will start again.

Three abstractions deserve a word.

* **Time.** A row only knows whether its lease is in the future. `ExpireLease` makes it
  pass at any moment. PostgreSQL's `now()` is the start of a transaction, so a
  transaction that began before the lease passed still sees it alive: `early`. An
  expiry may leave one holder "early" or none. The row lock makes a claim that
  arrives meanwhile skip the row, `MayBeLocked` in `Selected`.
* **Tokens.** `gen_random_uuid()` never returns a used value. `FreshToken` chooses a
  value that no row and no worker refers to; an old token that nobody remembers
  cannot be compared with anything, so a finite set is enough, one per worker and
  two per run (claim and attempt). `ClaimRun` has `Tokens \ UsedTokens # {}` as a
  guard, which the size of `MCTokens` keeps true for an idle worker.
  The attempt id of the code is another UUID, made once per claim; it is named by the
  token of that claim.
* **Provider.** External. A call arrives or not (`delivered`), and then any outcome
  consistent with that is returned. `TIMEOUT` and exceptions are possible in both
  cases. Usage reports are a constant set; an answer is the number of the call it
  answers, so that two answers would differ.

What all this is for is `RunPromise`: one request to the provider, a stored result that is
not lost or replaced and becomes the answer, one end, and money that moves with them. Its
steps know no worker, lease or token. `TeachingRunsInv` gives the mapping: queued and
running are "open", and how far the request has come is read off the attempt row and the
history of calls.

`AttemptPayloadCheck` says which adapter is modelled: PostgreSQL has a CHECK constraint
on `provider_attempts` that the in-memory store does not have. It is the only
difference between them the properties can see.

## 4. HTTP idempotency: the model and the code

| Model | Code |
|---|---|
| `row[k]`: state, hash, owner, live, body | `http_idempotency`: state, request_hash, owner_token, `claimed_at` within 120 s, response_body |
| `req[q]` | one HTTP request: where the guard `idempotent_write` is, and the answer the client gets |
| `effects[k]` | history: committed business transactions of the command |
| `doubts[k]` | history: those after which the endpoint raised all the same |

`KeyPromise` is what a client may rely on, without owners, leases or statements: free,
taken, done, or unknown. The mapping in `HttpIdempotency` reads the phase off the state of
the row; somebody may still act if a request is in its endpoint; what was told is the
content and the answer of every request that succeeded.

A key of the model is the whole unique key (tenant, principal, command, client key), a
content the fingerprint. A request claims at most once, so it stands for its owner
token. One action is one SQL statement that can change or decide something: the
INSERT of `claim` (`Insert`), its SELECT (`Read`), each of the two conditional UPDATEs
(`Retake`, `MarkIndeterminate`), the business transaction of the endpoint (`CommandReturns`,
`CommandRaises`, `CommandRaisesAfterCommit`, `InteractionRefused`), `Complete` and
`Release`. Between any two of them other requests, the lease and a crash may come.
`claim` runs at READ COMMITTED, so what the SELECT saw says nothing of the row the
UPDATE meets; the model has no other memory of it than the program counter.

* `Complete` has three outcomes: it worked; it raised before its commit; it raised
  after. In the last two the guard has already noted `_completion_attempted` and
  does not release. An UPDATE that matches no row is no error: a late owner whose key
  is indeterminate still answers its own client with its result.
* `CommandRaisesAfterCommit` is a connection that breaks at COMMIT, or a read that
  follows the commit (`transition_task` reads the evidence). The key is released.
* A replay leaves the guard through its last line, `_release`; its owner token is of no
  pending row, so this changes nothing and is not a step of the model.
* `Interactions` are the keys of the interact endpoint, whose runtime returns a refusal
  as a result. The runtime's own idempotency table is another component.
* The in-memory store takes a lock around the whole of `claim`; its behaviours are
  among those of the model.

## 5. Ingestion: the model and the code

| Model | Code |
|---|---|
| `upload[j]` | the request that uploads: the MAX(version) it has read, before its INSERT |
| `doc[j]` | `source_documents`: version, content, content_hash |
| `job[j]` | `ingestion_jobs`: status, claim_token, `lease_until > now()` |
| `chunks[j]` | `source_chunks` of the document |
| `worker[w]` | local variables of `run_once`, `_process` and `_mark_failed` (`workers/ingestion.py`) |
| `reports[j]` | history: what a worker logged as the result |

An action is a transaction of `db/ingestion_store.py`; loading and cutting are one, since what
is cut is what was loaded. An upload is two, because the version is read in one statement and inserted in another
and only a unique key stands between two uploads. Time and tokens are modelled as for
teaching runs. A text is a model value and its chunks are its numbered slices; how a
document is cut is `Chunking`. `Damage` replaces a stored text behind the program's
back, once, for the hash check of `load`.

Three things the model keeps because the code does them:

* The worker catches every `PlatformError`, the illegal transition of a lost claim
  included, and tries to mark the job failed; only the fence of `fail` stops it. A
  worker that lost its claim may therefore report "failed" for a job another one has
  completed. `ReportsTellTheJob` states exactly that exception.
* A slice of white space only (4000 blanks cut hard) makes `StoredChunk` raise, and the
  upload fails for good: `Uncuttable`.
* Attempts are counted but never limited.

`JobQueue` is what the queue promises without leases, tokens or workers: a job is taken
up as often as it must be, ends once, and its result is published in the step that ends
it. `ImplementsQueue` is the refinement, with the status and the chunks of a job as the
mapping.

## 6. Tools: the model and the code

| Model | Code |
|---|---|
| `req[r]` | the thread of `InteractionRuntime.run`: its step, its call, its result |
| `entry[k]` | the idempotency table of the runtime, with its condition variable |
| `conf[c]` | `confirmations`: issued or consumed, before `expires_at` or not |
| `action[c]`, `listed` | `ActionStateMachine`: the state of an action, and the index by logical id |
| `ledger` | `BudgetLedger` (`BudgetTree`): an account per tenant, project and run, in two dimensions |
| `sink` | what a caller can see of the audit sink: up or down, how full its buffer is |
| `epoch` | the revocation epoch |
| `intents`, `ran` | history: intents in the trail, tools called |

Requests are threads of one process. An action is a step under a lock, a statement of the
confirmation store, an append to the sink, or the tool's call; between any two of them
the other thread, an outage, a disk or database error or a revocation may come. The
steps of a call are in the order of the code: policy with the peeked confirmation and its
ceiling, reservation, consumption, plan and intent, call, outcome, settlement and audit
(`Authorise`, `Reserve`, `Consume`, `Dispatch`, `CallTool`, `Report`, `Reject`, `Finish`).

Behaviours kept as they are:

* A rejection whose audit finds the sink down raises before the run's account is
  closed, and an error that is no `PlatformError` leaves `_execute` without closing:
  the grant stays with a run nobody has. `GrantsComeBack` speaks of requests that are
  answered.
* The audit that follows the call may fail: the reservation must then not be released.
* `reconcile` settles and then always raises, since only RECONCILED may follow UNKNOWN and
  the code goes through ACKNOWLEDGED or FAILED; neither it nor `revoke_all` has a caller
  in the program. They are actions all the same, since they are the interface an
  operator has, and no fairness is assumed of them.
* Every intent is HIGH risk because `requires_audit` is true by default.
* `fetch_external_url` never runs: its decision carries an obligation nobody supports.
* No tool of the catalogue raises `UncertainFailure` today; the model lets a call have an
  unknown outcome because the dispatcher is written for it.

## 7. The platform: the models and the code

Six parts that share no state that matters here; `MCPlatform` puts one of them in each
behaviour (`part`), so that the state space is their sum.

**`AuditTrail` and `SignIn`.** A hash covers the hash before it and the content of its
record, so it is modelled by what it pins down: the sequence of contents from the
first record of its chain. A failed write leaves nothing, half a line or the whole
record. A sink that restarts, or is asked to project, reads the head up to the first
malformed line: after a torn line later records fork from before it, and each restart
forks again. `verify_chain_report` looks for malformed lines before it checks any link,
so a broken link above a torn line stays hidden. The lock of the sink is of one
process; a second process that appends directly forks the chain, which the docstring
admits: `TrailHolds` excuses a broken link only by `behind`. `SignIn` has the exchange of
an invitation statement by statement (limiter, consume with session and outbox row, read
back, projection), the two logouts and an authenticated call. A logout commits the
revocation before its audit; when the append fails the client gets an error, and a
retry finds nothing to revoke and audits nothing. Outbox rows are projected by a later
exchange only, so no liveness is stated of them. An exchange whose session is revoked
before the read-back ends in an error although its invitation is consumed. The
in-memory limiter starts again at one when a late request comes with an older window
(`rewound`); the SQL function never goes back.

**`Products`.** Plans, task moves, self reports, messages, diagnoses and mastery,
statement by statement in PostgreSQL and under one lock in memory; a failing transaction
rolls back, a restart empties what is in the process. Evidence is numbered when it is
inserted and visible when it is committed, so it may appear out of order; the
projection (`learning/projector.py`) reads everything each time, from the first
verdict to the last: `Bucket` is one recursive function over the verdicts that count.
`MasteryIsEarned` says what comes of it without an order. The log of the runtime is process memory: what it
showed is gone after a restart, and two threads may give one number, which
`MasteryIsEarned` states instead of hiding. A generated plan reads the diagnosis in a
transaction of its own; tasks of a replaced plan still move; a plan the user wrote
carries no assessments, and reports for it are refused.

**`Chunking`.** `parse` as a loop over lines: fences that only their own character
closes, headings that close deeper ones, sections, and cuts with overlap. A line is
chosen when it is read, so that one run parses every document of up to four lines of
nine kinds. The parser goes through the document with a stack; `PiecesCover` says what
the document says by itself: which lines are in a fence (`OpenBefore`), which are
headings, and which headings no later one of their level or above has closed (`Above`).
A section is found by the place where it begins, as `_groups` finds it. The overlap may go back to a boundary that was used, which gives
nested pieces, and neighbouring sections under one path merge.

**`Projects`.** Creating with the grant (one transaction in PostgreSQL, two assignments
in memory), creating by a script, granting, and editing under a version. The
conditional UPDATE lets one of two editors win; the in-memory update has no lock between
its check and its assignment, so an edit can be lost to one that had read the project
before it, and the version can go back. `ProjectsHold` says exactly this of each adapter.
`grant_project` checks the principal's tenant in PostgreSQL only, by a foreign key.

**`Retrieval`.** Search, ranking and reading a citation back while versions are published
in any order. A text stands for the terms it holds. The pieces found are a set, as
rows are, and a sorted list of them is the one in which each piece stands as far down as
there are pieces that rank before it (`RankChunks`). `AnswersStayTrue` states the place
of each hit by its score, source and position. The program passes no required claims, so an answer of the program
is never called supported; the model also tries claims. `LOW_RELEVANCE` cannot be
triggered by a search, since its floor is the lowest score a hit has.

**`TeachingStream`.** A connection replays at most a batch of events after `Last-Event-ID`,
marks a full batch, and ends; it may break anywhere. The client is external: it keeps
the last number it read and sends it again. The marker `batch.truncated` has no data
line, so a standard `EventSource` would not hand it on; the client of the model reads
the raw stream.

## 8. What the runs check

`teaching_safety` (two runs, two workers, PostgreSQL, about 190 000 states). Crashes and
expiries are unbounded. Checked: `TypeOK`; `AtMostOneProviderCall`;
`AccountsReconcile` (each column of both accounts is the sum of the reservations in
that state); `CostFollowsOutcome`; `EventsTellTheRun`; the
action property `HolderOnlyWrites`; and the refinement `KeepsPromise`, in which the answer
that is shown is the result that was stored.

`teaching_liveness` (one run, two workers, in-memory adapter, about 77 000 states):
`StoredResultDelivered` and `RefusalSettled`. Here the adapter without the CHECK is
used because with it the second property fails, see below.

`http_safety` (one key, four requests, two contents; about 18 500 states up to symmetry):
`TypeOK` (with the bound of the cache), `OneExecutor`, `RepeatsAreAccounted`,
`AnswersAgree`, and the refinement `KeepsPromise`, in which a settled key stays so.

`ingestion_jobs` (two uploads of one source, two workers; about 161 000 states): `TypeOK`,
`VersionsAreDense`, `ChunksAreComplete`, `ReportsTellTheJob`, `HolderOnlySettles`, the
refinement `ImplementsQueue` and, under fairness, `EveryJobEnds`.

`tools` (two requests at a time out of four, about 99 000 states): `TypeOK`,
`LedgerReconciles` (every account is the sum of its reservations and never overdrawn),
`ConfirmedOnce`, `WhatRanIsNotForgotten`, `OneExecutionPerKey`, `GrantsComeBack`, and
`EveryRequestEnds`, which does not count on the 30 s limit of the wait.

`platform` (about 661 000 states): `TypeOK` of all parts; `TrailHolds`, `EventsAreKept`,
`OneSessionPerInvitation`, `RevokedIsRefused`, `WindowLimit`; `PlansAndTasks`,
`MasteryIsEarned`; `PiecesCover`; `ProjectsHold`; `AnswersStayTrue`; `EveryEventOnce`.

Six runs each show a disagreement between the code and what the repository
says of it; the findings in `PROJECT.json` quote the lines.

* `teaching_resolved`: a worker dies after `mark_dispatched` and before `record_result`.
  Every later holder finds the reservation in flight, raises, and dies. The run is
  running for ever, although the plan says it goes to reconciliation.
* `teaching_refusal`: under PostgreSQL a refusal with usage cannot be stored, and its
  cost is never settled.
* `teaching_released`: a reclaimed run whose context no longer fits is failed as unsent
  and its in-flight estimate is released, after a call that was received.
* `teaching_overdrawn`: the estimate covers the question only, the settlement covers
  the whole prompt; the account may go below zero.
* `http_refused`: `interact` completes its key with a refused interaction, although
  refusals are not to be cached.
* `tools_rerun`: an unknown outcome gives the key back; the retry is a run of its own,
  plans an action of its own and calls the tool again before any reconciliation.

**Bounds.** Two runs meet in two places only: the account rows, and the order of
claiming. Two workers meet on one run. The constraint `OneRunOrOneBusyWorker`
explores two workers on one run completely, and two started runs with at most one
busy worker at a time (any of the two, with crashes and changes of worker at every
step); without it the state space is above ten million. What it leaves out is two
workers busy with two different runs: each transaction posts to the ledger
atomically and touches no other row of the other run, and the theorems below have no
such bound. One project suffices because the project row and the tenant row then
receive the same postings, and a posting to only one of them shows. An account of
6 and an estimate of 3 let two reservations fill it; a call costs 1, and may come back
without usage or (in the liveness run) above the promised output. Two of the violation
runs need a single worker. Requests under different keys share no row and no guard,
hence one key; four requests are an owner, a retry that
makes the key indeterminate or retakes it, one that read the row before that, and one
more. The theorems have no bound on either. Nothing else is bounded there: a request is
sent once, so everything it can do is finite.

In `ingestion_jobs` two uploads of one source are the least that can race for a version,
one of them can be cut and one cannot, and one row may be damaged. In `tools`, `Loads`
names the pairs that meet: a request and its retry under one key, two requests with one
confirmation, one key with two contents, and two runs whose grants do not fit one
project account. `MaxFaults` is two for the third pair and one for the others: each
failure has its own effect on keys, grants and books, and a second one at most
finds the sink already down. In `platform`, `Loads`, `CallLoads`, `EditLoads` and
`LookupLoads` name which requests come together; `MaxFaults`, `MaxFailures`, `drills` and
`MaxBreaks` bound failures, `LastWindow` the windows of the limiter, `MaxLines` the
document, `MaxEvents` the stream (more than two batches). Documents of four lines
reach every transition of fence, heading and cut; a cut needs a section longer
than six characters, which two lines have.

**Fairness.** `FairSpec` of the teaching runs and of ingestion first lets any number of
faults happen and then, at a moment of its choice (`stable`), no more. A step a worker
can take is taken (WF per worker): the process runs, and a provider call has a
deadline. Claiming is strongly fair per run or job: a worker polls every two seconds
and a lease lasts minutes, so what is claimable and first again and again is taken.
`ExpireLease` is weakly fair, and after `stable` only for a row that nobody
holds, since a worker that is not slow finishes within its lease. Users are not fair:
starting a run or an upload has no fairness. Without `stable`, a run could be reclaimed
for ever, which the code does not exclude and does not promise to exclude. In
`ToolExecution` only the steps of a thread are fair; nothing is assumed of the sink, of
an operator or of the time limit of the wait.

No liveness is stated of HTTP keys: a key may stay pending until somebody retries, and
an indeterminate one for ever. Nor of the platform parts: nobody has to call again.

Deadlock is not checked because a state in which every run has ended, or every
request has been answered, is one.

## 9. What is proved

The theorems about teaching runs are for arbitrary sets of projects, runs, workers and tokens, arbitrary
limits and usage reports, and either adapter, from `BudgetAssumption` and
`RunsAssumption` (names are distinct, limits are natural numbers, runs have projects);
those about sums also from `RunsAreFinite`.

* `TypeCorrect`: `Spec => []TypeOK`. The columns of the ledger are only typed as
  integers there.
* `AccountsAddUp`: each column of both accounts is the sum of the reservations in that
  state. A posting moves one reservation between two columns; that this moves the two
  sums by its amount is a lemma on sums over finite sets (`AccountSums`). Sums are a
  fold of the community modules, and the library's induction theorems take an operator,
  which the provers cannot instantiate; `AccountSums` therefore states induction over
  the subsets of a finite set with a set in place of the predicate, and derives it from
  the well-foundedness of the natural numbers.
* `ColumnsAreNeverNegative`, from the sums: no column goes below zero although
  every posting subtracts without looking, and no open reservation is larger than its
  column.
* `EventsAreTheHistory`: the event log of every run is what its status and its attempt
  say.
* `ClaimsAreSound`: `Spec => []ClaimsAndAttempts`. `AtMostOneProviderCall` is not
  inductive: a worker about to call must know that nobody has called. The
  strengthening says what a worker at each step knows: tokens of busy workers differ
  (`TokenNames`), before the dispatch no attempt has its token
  (`NotYetDispatched`), from the dispatch to the recorded outcome the attempt is its
  own and the call counter is what its position says (`OwnsAttempt`), an outcome it
  knows was delivered (`OutcomeIsDelivered`), and one that finishes carries the stored
  answer (`CarriesStoredResult`); and what an attempt row says of the calls
  (`AttemptTellsCalls`). The key step is `MarkDispatched`: it inserts only if the run
  has no attempt, and then no other worker can be past its own dispatch.
* `ProviderCalledAtMostOnce`, from it.
* `OnlyTheHolderWrites`: the action property, one step per action, from the fence.
* `TeachingKeepsItsPromise`: the refinement of `RunPromise`. What it needs beyond the above
  is that no result is lost: whoever may still fail its run as unsent has found no stored
  result under its claim (`NoResultToLose`), and what was delivered was sent. Every action
  is then one of the seven moves of its run, or is not seen (`StepMoves`).
* `FairRunsKeepTheirPromise`: the same of the behaviours of the liveness run, `FairSpec`,
  where the faults stop at some time.
* `AnswerComesFromTheStore` and `CostIsFollowed`: conjunctions of `TypeOK`, the
  invariant and the property, inductive together.

The theorems about HTTP keys are for arbitrary sets of keys, contents, requests and
interaction keys, from `HttpAssumption` (`NoRequest` and `TooLarge` are distinct from
requests and responses).

* `TypeCorrectHttp`: `Spec => []TypeOK`, including that only bounded bodies are cached.
* `KeysHaveOneExecutor` and, with it, `BusyOwns`: whoever executes owns the pending row of
  its key, or has lost it to indeterminacy, from which no statement leads back. The row
  also keeps the content of whoever has passed the SELECT. These are inductive by
  themselves (`Ownership`).
* `RepeatsComeFromDoubts`: as long as nobody's endpoint has returned, every effect of a
  key was doubtful (`OnlyDoubts`); only from that state can the key be taken again.
* `KeysTellRequests`: the whole invariant. Its last part, `SuccessEnds`, says that a
  success ends the key: nobody is busy with it any more, and either the row keeps the
  response for everyone, or the key is indeterminate and the late owner is the only one
  who ever knew it. `SuccessesAgree` follows without a further induction.
* `SettledKeysStay`: a completed or indeterminate row never changes; every UPDATE names the
  state it expects.
* `KeysKeepTheirPromise`: the refinement of `KeyPromise`. Beside the invariant it needs that
  an answer about to be given tells of the one effect that was noticed, or of a refusal
  (`AnswerIsTrue`). Each action is one of the eight moves of its key or is not seen: whoever
  is busy with a key is alone with it and nobody was answered under it (`AloneWith`), so
  an effect, an answer and a release are all allowed when they come.

The strengthening invariants `ClaimsAndAttempts` and `KeyTellsRequests`, what a refinement
implies (`AnswerIsTheStoredResult`, `SettledRowsStay`) and the action property
`PublishedFromStoredText` below are proved for every instance and not run again by TLC.

The theorems about ingestion are for arbitrary jobs, sources, workers, tokens, texts and
damages, from `IngestionAssumption` (`NoToken` and `NoJob` are no token and no job, chunk
counts are natural numbers).

* `IngestionIsSound`: the inductive invariant. Its parts: types, with a claim token on
  exactly the jobs that are being processed; upload, document and job come together, and
  a worker about to complete carries the slices of the text that was uploaded
  (`Consistent`); a version that was read but not inserted follows one that is there
  (`Numbered`); and the three properties themselves.
* From it `TypeCorrectIngestion`, `VersionsStayDense`, `ChunksComeWithSuccess`,
  `ReportsAreTrue`, and the action properties `OnlyTheHolderSettles` and
  `ChunksArePublishedFromTheRow` (slices of what is stored, not of what was loaded).
* `IngestionImplementsQueue`: the refinement. Each action maps to taking a job up,
  ending it, or a stutter; completion and failure need the fence, which the invariant
  turns into "the abstract job is taken up".

The theorems about tools are for arbitrary requests, keys, contents, scripts, costs,
confirmations and fault bounds, from `BudgetTreeAssumption` and `ToolExecutionAssumption`
(requests with equal contents have equal scripts and confirmations; the fingerprint
covers both).

* `TypeCorrectTools`: the type invariant, which also says that no request goes past its
  last call.
* `OneExecution`: the entry of a key names its executor, and a completed entry a result of
  the content it keeps; whoever waits reads the entry again under the lock.
* `WaitingIsForSomebody`: a pending entry has a thread that still executes under its key,
  and who waits has a pending entry, because the thread that settles one wakes the
  waiters of every key. So nobody sleeps after the last thread that could wake it has
  gone, also without the timeout. `NobodyWaitsInVain` is no property of a run: it is what
  `EveryRequestEnds` needs of safety, where the run also has the timeout to count on.
* `ConfirmedCallsOnce`: a confirmation that carries a call is consumed and has one carrier,
  and between peek and consume a request carries nothing yet.
* `RanIsBooked` and `AnsweredGivesBack`: by an invariant that says for each request what
  its books hold at each of its steps. Nothing of another request can disturb them
  because a reservation is named by the request and its call.
* `TreeReconciles`, also from `AccountsAreFinite` and `ReserveIsWithinLimit` (the tenant's
  limit covers the completion reserve: 1 000 000 000 and 10 000 000 micro units):
  every account of the tree is the sum of its reservations and grants, of those that are
  in flight and of what was spent, and is never overdrawn. A grant is a reservation on
  the parent, so closing a run moves its sum by what the child did not spend.

The theorems about signing in and the audit trail (`SignIn_proofs`) are of `SignSpec`, for
arbitrary requests, processes, tokens, windows, capacities and numbers of failures, from
`SinksAreReal` (there is a process; the bounds are natural numbers) and
`RequestsAreWellFormed` (a request presents a token or a cookie that exists, and its
events have names). One invariant, `SignIsInvariant`, carries them all:

* `ChainInv`: every complete record is linked to one above it, or its process was
  behind; each process believes in a head that is in the file, and one that is not
  behind believes in the end. From it `TrailIsLinked`.
* `Exchanging`: a session of an exchange, the use of its invitation and its outbox row
  come together, and where the request is says which. From it `InvitationsAreUsedOnce`.
* `Ending`: what was closed is over, and a logout about to answer has ended what it set
  out to end. From it `RevocationHolds`.
* `Counting`: how many were let through in each window, older, current and newer than
  the counter's, for each time the counter was taken back. From it `WindowsAreLimited`.
* `Projecting` and `Keeping`: who projects a row holds the lock; a row that is marked is
  in the file (`RowsKept`); an event waits in one place (`OnePlace`); it is written at
  most once more than there were failures, and one fewer while it waits (`FewTimes`);
  and what has not been said yet is nowhere (`Unsaid`), without which a second
  write could not be told from a first. From them `AcceptedIsKept`.
* `SignInTypes`: the type invariant of both modules.

The theorems about the rest of the platform are in `Workspace_proofs`, each of the part's
own specification; `Platform_proofs` takes them over to the composition.

* `EventsOnce`, of the stream: for any number of events, any batch and any number of
  breaks. What the wire still holds continues what the client has seen, so a
  break loses only what the client will ask for again, and an unmarked end is an end.
* `EditsAreNotLost`, of projects: for any calls, people and projects, from
  `ProjectsAssumption` (a user acts for the own tenant). Its invariant
  says what a thread in the middle of an in-memory edit may believe: that the project is
  as it read it, or that another edit has been made since.
* `PlansAreNumberedAndMovesLegal`, of products: for any calls and any number of failures,
  from `CallsAreWellFormed` (moves and reports name tasks there may be). A version that
  was read is one of those there are or the next, and only one open transaction has
  inserted the next (`Planned`); the status of a task is where its moves end
  (`Moved`); whoever has taken a message number holds the conversation (`Numbered`).
* `ReportsBecomeEvidence`: whoever reports holds the row of a task in progress
  (`Locked`), and numbers of the evidence table that were given out are used once
  (`Reported`).
* `MasteryIsEarnedForGood`, also from `EvidenceIsWellFormed` (levels are those there are,
  the log at the start is finite). `ViewInv` says that what a view has read is still
  there, in the log until a restart. The rest is about the projection: the fold exists
  (`FoldExists`, by induction over the number of verdicts, as for the sums), and after
  any verdicts in any order a bucket counts them and shows their highest level
  (`BucketTells`); so more evidence never shows less (`MoreIsNoLess`).
* `AnswersAreTrueForGood`, of retrieval: for any documents, queries and limits, from
  `PiecesHaveKeys` (one piece at a place, one document of a version: unique keys of the
  tables) and `LookupsAreWellFormed`. Each answer is right when it is given by what was
  published then (`AnswerIsEarned`, `ReadIsTrue`), and these need nothing but the answer,
  so that no later version takes them back. That the list is sorted is
  `OrderHasPlaces`: in a finite set with a complete order each place is taken once.

The theorem about the document processor is for documents of any
number of lines, of any kinds of lines, and any size of a piece and of the overlap, from
`OverlapIsSmaller` (the constructor refuses anything else) and `KindsAreWellFormed` (sizes and levels
are natural numbers, a fence is made of characters).

* `DocumentsAreCovered`: `ChunkSpec => []PiecesCover`, by an invariant for each phase.
  While lines are read (`LinesHold`) the fence is the one the text says; the stack holds
  the headings above the last line (`StackTells`: popping to a level and pushing leaves
  those of smaller levels and the new one, `PushedTells`); the open lines are the last
  ones, under one path; and every line with text or a heading is in a unit that touches
  lines of its own path only (`UnitsHold`). Later lines change nothing of what earlier
  ones say (`LinesStay`), which is what makes this inductive. The sections made of the
  units tell the same (`SectionsMade`): a section that is left out is one heading
  alone, and no text is in it. While they are cut (`CutHolds`) every character of the
  text is in a piece under its headings or ahead of the cut; each cut lies ahead of
  where its piece starts and before the end of the section (`CutsAhead`).

The composition, in `Platform_proofs`: a behaviour of `MCPlatform` is one of every part,
with steps of others in between.

* `PlatformTypes`: its type invariant, from those of the parts (`SignInTypes`,
  `ProductTypes`, `ChunkTypes`, `ProjectTypes`, `RetrievalTypes`, `StreamTypes`). They say more
  than shapes: a plan version comes of one call, so there are no more versions than
  calls (`OnePlanEach`), and the version of a project is not ahead of the edits that were
  let through (`NotAhead`), which counts the edits (there are finitely many).
* `PlatformKeepsItsPromises`: the eleven other invariants of the run.

Only model-checked: liveness (`StoredResultDelivered`, `RefusalSettled`, `EveryJobEnds`,
`EveryRequestEnds`), which is out of reach of the prover, as is ENABLED. The six
disagreements are counterexamples of TLC.

## 10. Not modelled

* Prompt and citation contents, the wording of errors, logging, listing and polling
  endpoints: they only read, or compute text. Bearer authentication, the origin check and
  the text of cookies; a `Last-Event-ID` that is no number.
* The composition of the start endpoint with its idempotency key. Each is a
  module; a retry of a start meets the guard as any command does.
* Policy, tokens and taint: decisions over immutable values, taken in one call. The
  revocation epoch is in `ToolExecution`. Child runs and endorsements have no caller in
  the program, so no interleaving of them is one the program has. Expiry of a
  token during a call, and input checks that refuse before a budget is granted.
* Of the audit: records of the older schema, changed records, filtered reads. Of identity:
  issuing an invitation, one INSERT of a script. Of products: creating conversations and
  sources, one INSERT each. Of learning: `append_correction`, which has no caller, so
  corrections are given at the start; `last_at` and the hash of the inputs. Of
  retrieval: cutting a query into terms, display policies, the fixed corpus of the
  interaction path. Of ingestion: `attempt_count`, which decides nothing.
* Registry, tenancy, core helpers, the object graph, settings, the front end, tools and
  scripts, and the migrations 0001 to 0009 except the constraints that decide an
  outcome, which are modelled with the store that meets them.
