---------------------------- MODULE TeachingRuns ----------------------------
(***************************************************************************)
(* Durable teaching runs: a question becomes a run, a worker claims it,    *)
(* asks the model provider once, and writes the answer.                    *)
(*                                                                         *)
(*   db/teaching_store.py    every row change, one transaction an action   *)
(*   teaching/service.py     the order of the steps of a worker            *)
(*   workers/teaching.py     claim, replay-or-execute, what is let go      *)
(*                                                                         *)
(* A worker's transaction is one step, the one that takes the row lock,    *)
(* reads, writes and commits.  PostgreSQL's now() is the start of the      *)
(* transaction, so the lease the fence tests is the lease as it was then:  *)
(* when a lease passes, a holder whose transaction has begun keeps seeing  *)
(* it alive ("early").  The provider is called outside any transaction.  A *)
(* crash or an unhandled exception rolls the open transaction back and     *)
(* loses the worker's memory, never a row.                                 *)
(*                                                                         *)
(* A claim token is a fresh UUID.  Here it is a value no row and no worker *)
(* refers to: one that nobody remembers cannot be told from a new one, so  *)
(* a finite set of tokens stands for all of them.  A worker executes once  *)
(* per claim, so its attempt id is named by the token of the claim.        *)
(***************************************************************************)
EXTENDS TeachingBudget, Sequences, FiniteSets, Functions

CONSTANTS
    Runs,                 \* run ids
    ProjectOf,            \* the project of each run
    Workers,              \* worker processes
    Tokens,               \* claim tokens
    NoToken, NoRun,
    QuestionLengths,      \* len(question): 1 or more
    UsageReports,         \* what the provider may report: [input, output]
    NoUsage,
    AttemptPayloadCheck   \* TRUE for PostgreSQL: the CHECK of migration 0010 that
                          \* ties an attempt's status to its payload; FALSE for the
                          \* in-memory adapter, which has no such check

ASSUME RunsAssumption ==
    /\ ProjectOf \in [Runs -> Projects]
    /\ NoToken \notin Tokens
    /\ NoRun \notin Runs
    /\ QuestionLengths \subseteq Nat \ {0}
    /\ UsageReports \subseteq [input : Nat, output : Nat]
    /\ NoUsage \notin UsageReports
    /\ AttemptPayloadCheck \in BOOLEAN

\* Run ids are UUIDs.
ASSUME RunsAreFinite == IsFiniteSet(Runs)

VARIABLES
    created,   \* run ids in the order of created_at
    run,       \* teaching_runs: status, claim_token, is lease_until in the future
    attempt,   \* provider_attempts: status, attempt_id, stored answer and usage
    resv,      \* teaching_reservations: state, estimated_micro, actual_micro
    ledger,    \* teaching_tenant_budgets and teaching_budgets
    answer,    \* the assistant message in the slot reserved for the run (0: none)
    events,    \* teaching_events, in seq order
    worker,    \* the memory of each worker process
    calls,     \* history: provider.generate calls made for the run
    delivered, \* history: the provider received one, so it may charge for it
    stable     \* no more crashes and no more slow workers (for liveness)

rows == <<created, run, attempt, resv, ledger, answer, events>>
provider == <<calls, delivered>>
vars == <<rows, worker, provider, stable>>

RunStatus == {"none", "queued", "running", "succeeded", "failed",
              "reconciliation_required"}
AttemptStatus == {"none", "dispatched", "unknown", "completed", "failed"}
ReservationState == {"none", "held", "in_flight", "settled", "released"}
Usage == UsageReports \cup {NoUsage}

\* Where a worker is.  "idle" also stands for a process that has died and will
\* be started again by its supervisor.
WorkerPc == {"idle", "lookup", "reload", "context", "dispatch", "call", "waiting",
             "record", "validate", "finish", "fail", "reconcile"}

\* Steps that are one database transaction.
TransactionPcs == {"lookup", "reload", "dispatch", "record", "finish", "fail", "reconcile"}

IdleWorker ==
    [pc |-> "idle", run |-> NoRun, token |-> NoToken, early |-> FALSE,
     sent |-> FALSE, usage |-> NoUsage, answer |-> 0]

NoAttempt == [status |-> "none", id |-> NoToken, answer |-> 0, usage |-> NoUsage]

Init ==
    /\ created = <<>>
    /\ run = [r \in Runs |-> [status |-> "none", token |-> NoToken, live |-> FALSE]]
    /\ attempt = [r \in Runs |-> NoAttempt]
    /\ resv = [r \in Runs |-> [state |-> "none", estimate |-> 0, actual |-> 0]]
    /\ ledger = EmptyLedger
    /\ answer = [r \in Runs |-> 0]
    /\ events = [r \in Runs |-> <<>>]
    /\ worker = [w \in Workers |-> IdleWorker]
    /\ calls = [r \in Runs |-> 0]
    /\ delivered = [r \in Runs |-> FALSE]
    /\ stable = FALSE

-----------------------------------------------------------------------------
(* The user's side.                                                        *)

\* seq = MAX(seq) + 1 under the lock of the run row.
InsertEvent(r, type) == events' = [events EXCEPT ![r] = Append(@, type)]

\* POST teaching-runs: user message, answer slot, run, reservation and event in
\* one transaction.  The input estimate is the length of the question, the
\* output estimate the promised maximum; a refused reservation rolls it all back.
StartRun(r, question) ==
    /\ run[r].status = "none"
    /\ AssertCapacity(ledger, ProjectOf[r], question, MaxOutput)
    /\ LET estimate == EstimateMicro(question, MaxOutput) IN
         /\ ledger' = ReserveMicro(ledger, ProjectOf[r], estimate)
         /\ resv' = [resv EXCEPT ![r] =
                        [state |-> "held", estimate |-> estimate, actual |-> 0]]
    /\ run' = [run EXCEPT ![r].status = "queued"]
    /\ created' = Append(created, r)
    /\ InsertEvent(r, "run.created")
    /\ UNCHANGED <<attempt, answer, worker, provider, stable>>

-----------------------------------------------------------------------------
(* Claiming.                                                               *)

UsedTokens ==
    {worker[w].token : w \in Workers} \cup {run[r].token : r \in Runs}
        \cup {attempt[r].id : r \in Runs}

\* gen_random_uuid()
FreshToken == CHOOSE t \in Tokens \ UsedTokens : TRUE

LeaseExpired(r) == run[r].status = "running" /\ ~run[r].live

Claimable(r) == run[r].status = "queued" \/ LeaseExpired(r)

\* A transaction that has begun may hold the lock of its run's row.
MayBeLocked(r) ==
    \E w \in Workers : worker[w].run = r /\ worker[w].pc \in TransactionPcs

\* SELECT ... ORDER BY created_at LIMIT 1 FOR UPDATE SKIP LOCKED
Selected(r) ==
    \E i \in 1..Len(created) :
        /\ created[i] = r
        /\ Claimable(r)
        /\ \A j \in 1..(i - 1) : Claimable(created[j]) => MayBeLocked(created[j])

ClaimRun(w, r) ==
    /\ worker[w].pc = "idle"
    /\ Selected(r)
    /\ Tokens \ UsedTokens # {}
    /\ run' = [run EXCEPT ![r] = [status |-> "running", token |-> FreshToken, live |-> TRUE]]
    /\ worker' = [worker EXCEPT ![w] =
                    [IdleWorker EXCEPT !.pc = "lookup", !.run = r, !.token = FreshToken]]
    /\ UNCHANGED <<created, attempt, resv, ledger, answer, events, provider, stable>>

-----------------------------------------------------------------------------
(* A worker's transactions.                                                *)

\* The next step of the worker, outside any transaction.
Goto(w, pc) == worker' = [worker EXCEPT ![w] = [@ EXCEPT !.pc = pc, !.early = FALSE]]

\* The claim is let go: a terminal status was returned, the error was one of
\* _STALE_CODES, or the exception killed the process.
LetGo(w) == worker' = [worker EXCEPT ![w] = IdleWorker]

\* Mutant: any worker of a running run passes for its holder.
AnyoneHoldsClaim(w) == run[worker[w].run].status = "running"

HoldsClaim(w) ==
    /\ run[worker[w].run].status = "running"
    /\ run[worker[w].run].token = worker[w].token

\* status = 'running' AND claim_token = mine AND lease_until > now()
Fence(w) == HoldsClaim(w) /\ (run[worker[w].run].live \/ worker[w].early)

\* Mutant: execute is always chosen, a stored result is not looked for.
AlwaysExecute(w) ==
    /\ worker[w].pc = "lookup"
    /\ IF Fence(w) THEN Goto(w, "context") ELSE LetGo(w)
    /\ UNCHANGED <<rows, provider, stable>>

\* run_once asks for a stored result before anything else.
FindStoredResult(w) ==
    /\ worker[w].pc = "lookup"
    /\ IF ~Fence(w) THEN LetGo(w)
       ELSE IF attempt[worker[w].run].answer # 0 THEN Goto(w, "reload")
       ELSE Goto(w, "context")
    /\ UNCHANGED <<rows, provider, stable>>

\* replay reads the stored result again, and goes on from the provider's answer.
Replay(w) ==
    /\ worker[w].pc = "reload"
    /\ IF Fence(w) /\ attempt[worker[w].run].answer # 0
       THEN worker' = [worker EXCEPT ![w] =
                [@ EXCEPT !.pc = "validate", !.early = FALSE,
                          !.usage = attempt[worker[w].run].usage,
                          !.answer = attempt[worker[w].run].answer]]
       ELSE LetGo(w)
    /\ UNCHANGED <<rows, provider, stable>>

\* execute: the history and the materials are read as they are now, so the
\* context may or may not fit the input limit, whatever it did the last time.
BuildContext(w) ==
    /\ worker[w].pc = "context"
    /\ \/ Goto(w, "dispatch")
       \/ worker' = [worker EXCEPT ![w] = [@ EXCEPT !.pc = "fail", !.sent = FALSE]]
    /\ UNCHANGED <<rows, provider, stable>>

\* Mutant: the attempt is looked up by its run, not by its id and its run.
AttemptOfRunExists(w) == attempt[worker[w].run].status # "none"

AttemptExists(w) == attempt[worker[w].run].id = worker[w].token

\* The reservation must be held, and the run must have no attempt row yet
\* (UNIQUE (tenant_id, project_id, run_id)); otherwise the worker dies.
MarkDispatched(w) ==
    LET r == worker[w].run IN
    /\ worker[w].pc = "dispatch"
    /\ IF (run[r].status # "running" \/ Fence(w)) /\ AttemptExists(w)
       THEN /\ Goto(w, "call")
            /\ UNCHANGED <<attempt, resv, ledger, events>>
       ELSE IF Fence(w) /\ resv[r].state = "held" /\ attempt[r].status = "none"
       THEN /\ resv' = [resv EXCEPT ![r].state = "in_flight"]
            /\ ledger' = HoldToInFlight(ledger, ProjectOf[r], resv[r].estimate)
            /\ attempt' = [attempt EXCEPT ![r] =
                            [NoAttempt EXCEPT !.status = "dispatched",
                                              !.id = worker[w].token]]
            /\ InsertEvent(r, "run.dispatched")
            /\ Goto(w, "call")
       ELSE /\ LetGo(w)
            /\ UNCHANGED <<attempt, resv, ledger, events>>
    /\ UNCHANGED <<created, run, answer, provider, stable>>

\* provider.generate: the request leaves, and may or may not get there.
CallProvider(w) ==
    /\ worker[w].pc = "call"
    /\ calls' = [calls EXCEPT ![worker[w].run] = @ + 1]
    /\ \E got \in BOOLEAN :
         delivered' = [delivered EXCEPT ![worker[w].run] = @ \/ got]
    /\ Goto(w, "waiting")
    /\ UNCHANGED <<rows, stable>>

\* What generate returns or raises.  An answer is named by the call it answers.
ProviderReturns(w) ==
    LET r == worker[w].run IN
    /\ worker[w].pc = "waiting"
    /\ \/ \E u \in Usage :                                \* COMPLETED
            /\ delivered[r]
            /\ worker' = [worker EXCEPT ![w] = [@ EXCEPT !.pc = "record", !.usage = u,
                                                        !.answer = calls[r]]]
       \/ \E u \in Usage :                                \* REFUSED, MALFORMED, TRUNCATED
            /\ delivered[r]
            /\ worker' = [worker EXCEPT ![w] = [@ EXCEPT !.pc = "fail", !.usage = u, !.sent = TRUE]]
       \/ /\ ~delivered[r]                                \* DISPATCH_FAILED
          /\ worker' = [worker EXCEPT ![w] = [@ EXCEPT !.pc = "fail", !.sent = FALSE]]
       \/ Goto(w, "reconcile")                            \* TIMEOUT, any exception
    /\ UNCHANGED <<rows, provider, stable>>

RecordResult(w) ==
    LET r == worker[w].run IN
    /\ worker[w].pc = "record"
    /\ IF Fence(w) /\ AttemptExists(w) /\ attempt[r].status = "dispatched"
       THEN /\ attempt' = [attempt EXCEPT ![r] =
                            [@ EXCEPT !.status = "completed", !.answer = worker[w].answer,
                                      !.usage = worker[w].usage]]
            /\ Goto(w, "validate")
       ELSE /\ LetGo(w)
            /\ UNCHANGED attempt
    /\ UNCHANGED <<created, run, resv, ledger, answer, events, provider, stable>>

\* validate_citations reads the cited spans back, outside any transaction.  A span
\* that cannot be read back only costs the citation.
ValidateCitations(w) ==
    /\ worker[w].pc = "validate"
    /\ Goto(w, "finish")
    /\ UNCHANGED <<rows, provider, stable>>

\* A missing usage, or one above the promised limits, is not adopted.
SettledUsage(w) ==
    LET u == worker[w].usage IN
    IF u # NoUsage /\ u.input <= MaxInput /\ u.output <= MaxOutput THEN u ELSE NoUsage

ActualMicro(w) == EstimateMicro(SettledUsage(w).input, SettledUsage(w).output)

Settle(w) ==
    LET r == worker[w].run IN
    /\ resv' = [resv EXCEPT ![r] = [@ EXCEPT !.state = "settled", !.actual = ActualMicro(w)]]
    /\ ledger' = SettleMicro(ledger, ProjectOf[r], resv[r].estimate, ActualMicro(w))

\* Mutant: the two strings change places.
SwappedLeaveRunning(r, status, type) ==
    /\ run' = [run EXCEPT ![r] = [status |-> type, token |-> NoToken, live |-> FALSE]]
    /\ InsertEvent(r, status)

\* Mutant: a failed run goes back into the queue.
RequeueFailed(r, status, type) ==
    /\ run' = [run EXCEPT ![r] =
                  [status |-> IF status = "failed" THEN "queued" ELSE status,
                   token |-> NoToken, live |-> FALSE]]
    /\ InsertEvent(r, type)

\* The run leaves "running": the claim columns become NULL.
LeaveRunning(r, status, type) ==
    /\ run' = [run EXCEPT ![r] = [status |-> status, token |-> NoToken, live |-> FALSE]]
    /\ InsertEvent(r, type)

\* Mutant: no usage is taken for no cost.
ForgetExposure(r) ==
    /\ resv' = [resv EXCEPT ![r].state = "released"]
    /\ ledger' = ReleaseMicro(ledger, ProjectOf[r], resv[r].state, resv[r].estimate)

\* A usage that was not reported is not a cost of zero: nothing is posted and
\* the reservation stays in flight.
KeepExposure(r) == UNCHANGED <<resv, ledger>>

\* Answer message, settlement, terminal status and event in one transaction.
FinishRun(w) ==
    LET r == worker[w].run IN
    /\ worker[w].pc = "finish"
    /\ IF /\ Fence(w)
          /\ answer[r] = 0                        \* UNIQUE (conversation_id, seq)
          /\ SettledUsage(w) # NoUsage => resv[r].state = "in_flight"
       THEN /\ answer' = [answer EXCEPT ![r] = worker[w].answer]
            /\ IF SettledUsage(w) = NoUsage THEN KeepExposure(r) ELSE Settle(w)
            /\ LeaveRunning(r, "succeeded", "run.succeeded")
       ELSE UNCHANGED <<answer, resv, ledger, run, events>>
    /\ LetGo(w)
    /\ UNCHANGED <<created, attempt, provider, stable>>

\* fail_run, nothing was sent: the reservation is given back, wherever it is.
FailUnsent(w) ==
    LET r == worker[w].run IN
    /\ worker[w].pc = "fail"
    /\ ~worker[w].sent
    /\ IF Fence(w) /\ resv[r].state \in {"held", "in_flight"}
       THEN /\ resv' = [resv EXCEPT ![r].state = "released"]
            /\ ledger' = ReleaseMicro(ledger, ProjectOf[r], resv[r].state, resv[r].estimate)
            /\ LeaveRunning(r, "failed", "run.failed")
       ELSE UNCHANGED <<resv, ledger, run, events>>
    /\ LetGo(w)
    /\ UNCHANGED <<created, attempt, answer, provider, stable>>

\* Mutant: every adapter refuses a failed attempt without a payload.
PayloadAlwaysChecked(status, stored) ==
    status \in {"dispatched", "unknown"} <=> stored = 0

\* CHECK ((status IN ('dispatched', 'unknown')) = (result_payload IS NULL))
PayloadCheck(status, stored) ==
    AttemptPayloadCheck => (status \in {"dispatched", "unknown"} <=> stored = 0)

\* fail_run after a call that was made: settled by its usage.  Without one,
\* fail_run raises ILLEGAL_STATE_TRANSITION, which the worker takes as stale.
FailSent(w) ==
    LET r == worker[w].run IN
    /\ worker[w].pc = "fail"
    /\ worker[w].sent
    /\ IF /\ SettledUsage(w) # NoUsage
          /\ Fence(w)
          /\ resv[r].state = "in_flight"
          /\ attempt[r].status # "none"
          /\ PayloadCheck("failed", attempt[r].answer)
       THEN /\ Settle(w)
            /\ attempt' = [attempt EXCEPT ![r].status = "failed"]
            /\ LeaveRunning(r, "failed", "run.failed")
       ELSE UNCHANGED <<resv, ledger, attempt, run, events>>
    /\ LetGo(w)
    /\ UNCHANGED <<created, answer, provider, stable>>

\* The outcome and the cost are unknown: the reservation stays in flight.
RequireReconciliation(w) ==
    LET r == worker[w].run IN
    /\ worker[w].pc = "reconcile"
    /\ IF Fence(w) /\ attempt[r].status # "none"
       THEN /\ attempt' = [attempt EXCEPT ![r].status =
                            IF @ = "dispatched" THEN "unknown" ELSE @]
            /\ KeepExposure(r)
            /\ LeaveRunning(r, "reconciliation_required", "run.reconciliation_required")
       ELSE UNCHANGED <<attempt, resv, ledger, run, events>>
    /\ LetGo(w)
    /\ UNCHANGED <<created, answer, provider, stable>>

-----------------------------------------------------------------------------
(* Time and faults.                                                        *)

Orphaned(r) == \A w \in Workers : worker[w].token # run[r].token

\* lease_until passes: after the holder has died or, before things are stable,
\* while a holder slower than the lease is still at work, perhaps in a transaction
\* that has begun.
ExpireLease(r) ==
    /\ run[r].status = "running"
    /\ run[r].live
    /\ Orphaned(r) \/ ~stable
    /\ run' = [run EXCEPT ![r].live = FALSE]
    /\ \/ UNCHANGED worker
       \/ \E w \in Workers :
            /\ worker[w].run = r /\ HoldsClaim(w) /\ worker[w].pc \in TransactionPcs
            /\ worker' = [worker EXCEPT ![w].early = TRUE]
    /\ UNCHANGED <<created, attempt, resv, ledger, answer, events, provider, stable>>

Crash(w) ==
    /\ ~stable
    /\ worker[w].pc # "idle"
    /\ LetGo(w)
    /\ UNCHANGED <<rows, provider, stable>>

Stabilise ==
    /\ ~stable
    /\ stable' = TRUE
    /\ UNCHANGED <<rows, worker, provider>>

WorkerStep(w) ==
    \/ FindStoredResult(w) \/ Replay(w) \/ BuildContext(w)
    \/ MarkDispatched(w) \/ CallProvider(w) \/ ProviderReturns(w)
    \/ RecordResult(w) \/ ValidateCitations(w) \/ FinishRun(w)
    \/ FailUnsent(w) \/ FailSent(w) \/ RequireReconciliation(w)

Next ==
    \/ \E r \in Runs, q \in QuestionLengths : StartRun(r, q)
    \/ \E r \in Runs : ExpireLease(r)
    \/ \E w \in Workers, r \in Runs : ClaimRun(w, r)
    \/ \E w \in Workers : WorkerStep(w) \/ Crash(w)

Spec == Init /\ [][Next]_vars

\* The supervisor starts the worker again, a started worker goes on, the lease
\* of a dead holder runs out.  A worker polls far more often (2 s) than a lease
\* expires (600 s), so a claimable run that is the oldest again and again is
\* taken in the end: strong fairness per run.
FairSpec ==
    /\ Init /\ [][Next \/ Stabilise]_vars
    /\ \A w \in Workers : WF_vars(WorkerStep(w))
    /\ \A w \in Workers, r \in Runs : SF_vars(ClaimRun(w, r))
    /\ \A r \in Runs : WF_vars(ExpireLease(r))

-----------------------------------------------------------------------------
(* Properties.                                                             *)

RunRow == [status : RunStatus, token : Tokens \cup {NoToken}, live : BOOLEAN]

EventTypes ==
    {"run.created", "run.dispatched", "run.succeeded", "run.failed",
     "run.reconciliation_required"}

AttemptRow ==
    [status : AttemptStatus, id : Tokens \cup {NoToken}, answer : Nat, usage : Usage]

ReservationRow == [state : ReservationState, estimate : Nat, actual : Nat]

WorkerMemory ==
    [pc : WorkerPc, run : Runs \cup {NoRun}, token : Tokens \cup {NoToken},
     early : BOOLEAN, sent : BOOLEAN, usage : Usage, answer : Nat]

\* Every variable has the shape of the row, or of the local state, it stands for.
TypeOK ==
    /\ created \in Seq(Runs)
    /\ run \in [Runs -> RunRow]
    /\ attempt \in [Runs -> AttemptRow]
    /\ resv \in [Runs -> ReservationRow]
    /\ ledger \in [Accounts -> Account]
    /\ answer \in [Runs -> Nat]
    /\ events \in [Runs -> Seq(EventTypes)]
    /\ worker \in [Workers -> WorkerMemory]
    /\ calls \in [Runs -> Nat]
    /\ delivered \in [Runs -> BOOLEAN]
    /\ stable \in BOOLEAN

\* Whatever crashes, slow workers, reclaims and replays there are, a run asks the
\* model provider at most once: a second call is a second charge.
AtMostOneProviderCall == \A r \in Runs : calls[r] <= 1

\* The attempt, the reservation, the answer and the terminal status of a run are
\* written by the holder of its current claim and nobody else: a worker whose run
\* was reclaimed, or has ended, changes nothing by what it does late.
HolderOnlyWrites ==
    [][\A r \in Runs :
        \/ attempt'[r] # attempt[r]
        \/ answer'[r] # answer[r]
        \/ resv[r].state # "none" /\ resv'[r] # resv[r]
        \/ run[r].status \notin {"none", "queued"} /\ run'[r].status # run[r].status
        => /\ run[r].status = "running"
           /\ \E w \in Workers : /\ worker[w].run = r
                                 /\ worker[w].token = run[r].token
                                 /\ worker'[w] # worker[w]]_vars

\* The answer in the conversation is the provider's answer that was stored before
\* it, also when another worker replays it; a run has an answer iff it succeeded.
AnswerIsTheStoredResult ==
    \A r \in Runs :
        /\ answer[r] # 0 <=> run[r].status = "succeeded"
        /\ answer[r] # 0 => /\ attempt[r].status = "completed"
                            /\ attempt[r].answer = answer[r]
                            /\ delivered[r]

\* The money follows the outcome: held until the request is sent, in flight while
\* the cost is unknown (above all under reconciliation), settled only for a call the
\* provider received, given back only for a failed run.
CostFollowsOutcome ==
    \A r \in Runs :
        /\ run[r].status = "queued" => resv[r].state = "held"
        /\ run[r].status = "running" =>
             resv[r].state = IF attempt[r].status = "none" THEN "held" ELSE "in_flight"
        /\ run[r].status = "reconciliation_required" =>
             resv[r].state = "in_flight" /\ attempt[r].status = "unknown"
        /\ run[r].status = "succeeded" => resv[r].state \in {"in_flight", "settled"}
        /\ run[r].status = "failed" => resv[r].state \in {"released", "settled"}
        /\ resv[r].state = "settled" => delivered[r]

\* The runs whose reservation is in a state and lies on an account.
InState(a, state) ==
    {r \in Runs : resv[r].state = state /\ a \in {TenantAccount, ProjectOf[r]}}
Estimates == [r \in Runs |-> resv[r].estimate]
Actuals == [r \in Runs |-> resv[r].actual]

\* Each column of both rows is the sum of the reservations in its state: what
\* reserve, hold_to_in_flight, settle and release post, in any order and by any worker,
\* adds up (db/budget_store.py).
AccountsReconcile ==
    \A a \in Accounts :
        /\ ledger[a].reserved = SumFunctionOnSet(Estimates, InState(a, "held"))
        /\ ledger[a].inFlight = SumFunctionOnSet(Estimates, InState(a, "in_flight"))
        /\ ledger[a].spent = SumFunctionOnSet(Actuals, InState(a, "settled"))

\* The events a client replays tell the story of the run: at most one dispatch, one
\* terminal event, the last one, and it is the one of the status the run has.
EventsTellTheRun ==
    \A r \in Runs :
        LET s == run[r].status
            sent == IF attempt[r].status = "none" THEN <<>> ELSE <<"run.dispatched">>
        IN events[r] =
             CASE s = "none" -> <<>>
               [] s \in {"queued", "running"} -> <<"run.created">> \o sent
               [] s = "succeeded" -> <<"run.created">> \o sent \o <<"run.succeeded">>
               [] s = "failed" -> <<"run.created">> \o sent \o <<"run.failed">>
               [] s = "reconciliation_required" ->
                    <<"run.created">> \o sent \o <<"run.reconciliation_required">>

\* A stored result reaches the conversation once the faults stop, whoever stored it.
StoredResultDelivered ==
    \A r \in Runs : (stable /\ attempt[r].answer # 0) ~> (run[r].status = "succeeded")

\* A worker that learns, under a live claim, that the provider refused, and at what
\* cost, sees the run fail with that cost settled.
RefusalSettled ==
    \A r \in Runs, w \in Workers :
        (/\ stable
         /\ worker[w].run = r
         /\ worker[w].pc = "fail" /\ worker[w].sent
         /\ SettledUsage(w) # NoUsage
         /\ HoldsClaim(w) /\ run[r].live)
        ~> (run[r].status = "failed" /\ resv[r].state = "settled")

\* Once the request was marked as dispatched, the run is resolved: answered, failed
\* or handed to reconciliation, when the faults stop.
DispatchedIsResolved ==
    \A r \in Runs : (stable /\ attempt[r].status # "none") ~> (run[r].status # "running")

\* The estimate of a call the provider received is never given back as if nothing
\* had been spent.
SentIsNeverReleased == \A r \in Runs : delivered[r] => resv[r].state # "released"

\* No account is ever overdrawn.
NeverOverdrawn == \A a \in Accounts : Available(ledger[a]) >= 0
=============================================================================
