------------------------- MODULE TeachingRuns_proofs ------------------------
(***************************************************************************)
(* Proofs about TeachingRuns, for any number of runs, workers and tokens.  *)
(* First the types.  Then the inductive invariant ClaimsAndAttempts: the   *)
(* lemmas go from what a step does to one worker's memory and to one       *)
(* attempt row, to what it leaves of every other worker's.  On it rest who *)
(* writes a run, its answer and cost, its events, and the two accounts.    *)
(***************************************************************************)
EXTENDS TeachingRunsInv, AccountSums, SequenceTheorems, TLAPS

USE DEF rows, provider

-----------------------------------------------------------------------------
(* Types.                                                                  *)

\* Posting to the two rows of a project keeps every row of the ledger a row.
LEMMA PostType ==
    ASSUME NEW l \in [Accounts -> Account], NEW p, NEW n \in Int,
           NEW column \in {"reserved", "inFlight", "spent"}
    PROVE  Post(l, p, column, n) \in [Accounts -> Account]
  BY DEF Post, Account

LEMMA EstimateType ==
    ASSUME NEW i \in Nat, NEW o \in Nat
    PROVE  EstimateMicro(i, o) \in Nat
  BY DEF EstimateMicro

LEMMA IdleType == IdleWorker \in WorkerMemory
  BY RunsAssumption DEF IdleWorker, WorkerMemory, WorkerPc, Usage

\* Letting go of a claim, or going on to another step, leaves every worker typed.
LEMMA WorkerUpdateTypes ==
    ASSUME worker \in [Workers -> WorkerMemory], NEW w \in Workers
    PROVE  /\ LetGo(w) => worker' \in [Workers -> WorkerMemory]
           /\ \A pc \in WorkerPc : Goto(w, pc) => worker' \in [Workers -> WorkerMemory]
<1>1. LetGo(w) => worker' \in [Workers -> WorkerMemory]
  BY IdleType DEF LetGo
<1>2. ASSUME NEW pc \in WorkerPc, Goto(w, pc)
      PROVE  worker' \in [Workers -> WorkerMemory]
  <2>1. [worker[w] EXCEPT !.pc = pc, !.early = FALSE] \in WorkerMemory
    BY DEF WorkerMemory
  <2> QED BY <1>2, <2>1 DEF Goto
<1> QED BY <1>1, <1>2

\* A usage that is adopted has a cost.
LEMMA ActualType ==
    ASSUME TypeOK, NEW w \in Workers, SettledUsage(w) # NoUsage
    PROVE  ActualMicro(w) \in Nat
<1>1. SettledUsage(w) \in UsageReports
  BY DEF TypeOK, WorkerMemory, SettledUsage, Usage
<1>2. SettledUsage(w).input \in Nat /\ SettledUsage(w).output \in Nat
  BY <1>1, RunsAssumption
<1> QED BY <1>2, EstimateType DEF ActualMicro

LEMMA InitTypeOK == Init => TypeOK
<1> SUFFICES ASSUME Init PROVE TypeOK
  OBVIOUS
<1>1. worker \in [Workers -> WorkerMemory]
  BY IdleType DEF Init
<1>2. ledger \in [Accounts -> Account]
  BY DEF Init, EmptyLedger, Account
<1>3. created \in Seq(Runs) /\ events \in [Runs -> Seq(EventTypes)]
  BY DEF Init
<1>4. /\ run \in [Runs -> RunRow]
      /\ attempt \in [Runs -> AttemptRow]
      /\ resv \in [Runs -> ReservationRow]
  BY RunsAssumption DEF Init, RunRow, RunStatus, AttemptRow, AttemptStatus, NoAttempt,
     ReservationRow, ReservationState, Usage
<1> QED BY <1>1, <1>2, <1>3, <1>4 DEF Init, TypeOK

\* The rows an action writes are rows again.
LEMMA EventType ==
    ASSUME TypeOK, NEW r \in Runs, NEW type \in EventTypes
    PROVE  [events EXCEPT ![r] = Append(@, type)] \in [Runs -> Seq(EventTypes)]
<1>1. events[r] \in Seq(EventTypes)
  BY DEF TypeOK
<1>2. Append(events[r], type) \in Seq(EventTypes)
  BY <1>1, AppendProperties
<1> QED BY <1>2 DEF TypeOK

LEMMA LeaveRunningType ==
    ASSUME TypeOK, NEW r \in Runs, NEW status \in RunStatus, NEW type \in EventTypes,
           LeaveRunning(r, status, type)
    PROVE  run' \in [Runs -> RunRow] /\ events' \in [Runs -> Seq(EventTypes)]
  BY EventType DEF TypeOK, LeaveRunning, InsertEvent, RunRow

LEMMA SettleType ==
    ASSUME TypeOK, NEW w \in Workers, worker[w].run \in Runs,
           SettledUsage(w) # NoUsage, Settle(w)
    PROVE  resv' \in [Runs -> ReservationRow] /\ ledger' \in [Accounts -> Account]
<1> DEFINE r == worker[w].run
           posted == Post(ledger, ProjectOf[r], "inFlight", 0 - resv[r].estimate)
<1>1. ActualMicro(w) \in Nat
  BY ActualType
<1>2. resv[r] \in ReservationRow
  BY DEF TypeOK
<1>3. [resv[r] EXCEPT !.state = "settled", !.actual = ActualMicro(w)] \in ReservationRow
  BY <1>1, <1>2 DEF ReservationRow, ReservationState
<1>4. resv' \in [Runs -> ReservationRow]
  BY <1>3 DEF Settle, TypeOK
<1>5. 0 - resv[r].estimate \in Int
  BY <1>2 DEF ReservationRow
<1>6. posted \in [Accounts -> Account]
  BY <1>5, PostType DEF TypeOK
<1>7. Post(posted, ProjectOf[r], "spent", ActualMicro(w)) \in [Accounts -> Account]
  BY <1>1, <1>6, PostType
<1> QED BY <1>4, <1>7 DEF Settle, SettleMicro

\* A worker that is not idle works for some run.
BusyWorkersHaveRuns == \A w \in Workers : worker[w].pc # "idle" => worker[w].run \in Runs

TypeInv == TypeOK /\ BusyWorkersHaveRuns

LEMMA FreshTokenIsNew ==
    ASSUME Tokens \ UsedTokens # {}
    PROVE  FreshToken \in Tokens \ UsedTokens
  BY DEF FreshToken

\* Going on to another step changes nothing else of the worker's memory.
LEMMA GotoFields ==
    ASSUME worker \in [Workers -> WorkerMemory], NEW w \in Workers, NEW pc \in WorkerPc,
           Goto(w, pc)
    PROVE  /\ worker' \in [Workers -> WorkerMemory]
           /\ \A v \in Workers \ {w} : worker'[v] = worker[v]
           /\ worker'[w].pc = pc
           /\ worker'[w].run = worker[w].run
           /\ worker'[w].token = worker[w].token
           /\ worker'[w].sent = worker[w].sent
           /\ worker'[w].usage = worker[w].usage
           /\ worker'[w].answer = worker[w].answer
<1>1. worker'[w] = [worker[w] EXCEPT !.pc = pc, !.early = FALSE]
  BY DEF Goto
<1>2. worker[w] \in WorkerMemory
  OBVIOUS
<1>3. \A v \in Workers \ {w} : worker'[v] = worker[v]
  BY DEF Goto
<1> QED BY <1>1, <1>2, <1>3, WorkerUpdateTypes DEF WorkerMemory

\* Every action of a worker that keeps its rows and moves on keeps the types.
LEMMA WorkerMovesOn ==
    ASSUME TypeInv, NEW w \in Workers, worker[w].pc # "idle",
           \/ LetGo(w)
           \/ \E pc \in WorkerPc : Goto(w, pc)
    PROVE  worker' \in [Workers -> WorkerMemory] /\ BusyWorkersHaveRuns'
<1>1. worker' \in [Workers -> WorkerMemory]
  BY WorkerUpdateTypes DEF TypeInv, TypeOK
<1>2. CASE LetGo(w)
  BY <1>1, <1>2 DEF TypeInv, TypeOK, BusyWorkersHaveRuns, LetGo, IdleWorker
<1>3. ASSUME NEW pc \in WorkerPc, Goto(w, pc) PROVE BusyWorkersHaveRuns'
  <2>1. \A v \in Workers : /\ worker'[v].run = worker[v].run
                           /\ v = w \/ worker'[v].pc = worker[v].pc
    BY <1>3, GotoFields DEF TypeInv, TypeOK
  <2> QED BY <2>1 DEF TypeInv, BusyWorkersHaveRuns
<1> QED BY <1>1, <1>2, <1>3

LEMMA UserStepsType ==
    ASSUME TypeInv, NEW r \in Runs,
           \/ \E q \in QuestionLengths : StartRun(r, q)
           \/ ExpireLease(r)
    PROVE  TypeInv'
<1>1. ASSUME NEW q \in QuestionLengths, StartRun(r, q) PROVE TypeInv'
  <2> DEFINE cost == EstimateMicro(q, MaxOutput)
  <2>0. q \in Nat /\ MaxOutput \in Nat
    BY RunsAssumption, BudgetAssumption
  <2>1. cost \in Nat
    BY <2>0, EstimateType
  <2>2. Post(ledger, ProjectOf[r], "reserved", cost) \in [Accounts -> Account]
    <3>1. cost \in Int /\ ledger \in [Accounts -> Account]
      BY <2>1 DEF TypeInv, TypeOK
    <3> HIDE DEF cost
    <3> QED BY <3>1, PostType
  <2>7. ledger' \in [Accounts -> Account]
    BY <1>1, <2>2 DEF StartRun, ReserveMicro
  <2>3. resv' \in [Runs -> ReservationRow]
    BY <1>1, <2>1 DEF StartRun, TypeInv, TypeOK, ReservationRow, ReservationState
  <2>8. [run[r] EXCEPT !.status = "queued"] \in RunRow
    BY DEF TypeInv, TypeOK, RunRow, RunStatus
  <2>4. run' \in [Runs -> RunRow]
    BY <1>1, <2>8 DEF StartRun, TypeInv, TypeOK
  <2>5. created' \in Seq(Runs)
    BY <1>1, AppendProperties DEF StartRun, TypeInv, TypeOK
  <2>9. InsertEvent(r, "run.created")
    BY <1>1 DEF StartRun
  <2>6. events' \in [Runs -> Seq(EventTypes)]
    BY <2>9, EventType DEF TypeInv, InsertEvent, EventTypes
  <2> QED BY <1>1, <2>7, <2>3, <2>4, <2>5, <2>6 DEF StartRun, TypeInv, TypeOK, BusyWorkersHaveRuns
<1>2. CASE ExpireLease(r)
  <2>3. [run[r] EXCEPT !.live = FALSE] \in RunRow
    BY DEF TypeInv, TypeOK, RunRow
  <2>1. run' \in [Runs -> RunRow]
    BY <1>2, <2>3 DEF ExpireLease, TypeInv, TypeOK
  <2>2. worker' \in [Workers -> WorkerMemory] /\ BusyWorkersHaveRuns'
    <3>1. CASE UNCHANGED worker
      BY <3>1 DEF TypeInv, TypeOK, BusyWorkersHaveRuns
    <3>2. ASSUME NEW w \in Workers, worker' = [worker EXCEPT ![w].early = TRUE]
          PROVE  worker' \in [Workers -> WorkerMemory] /\ BusyWorkersHaveRuns'
      <4>1. worker' \in [Workers -> WorkerMemory]
        BY <3>2 DEF TypeInv, TypeOK, WorkerMemory
      <4>2. \A v \in Workers : worker'[v].run = worker[v].run /\ worker'[v].pc = worker[v].pc
        BY <3>2 DEF TypeInv, TypeOK, WorkerMemory
      <4> QED BY <4>1, <4>2 DEF TypeInv, BusyWorkersHaveRuns
    <3> QED BY <1>2, <3>1, <3>2 DEF ExpireLease
  <2> QED BY <1>2, <2>1, <2>2 DEF ExpireLease, TypeInv, TypeOK
<1> QED BY <1>1, <1>2

LEMMA ClaimRunType ==
    ASSUME TypeInv, NEW w \in Workers, NEW r \in Runs, ClaimRun(w, r)
    PROVE  TypeInv'
<1>1. FreshToken \in Tokens
  BY FreshTokenIsNew DEF ClaimRun
<1>2. run' \in [Runs -> RunRow]
  BY <1>1 DEF ClaimRun, TypeInv, TypeOK, RunRow, RunStatus
<1> DEFINE claimed == [IdleWorker EXCEPT !.pc = "lookup", !.run = r, !.token = FreshToken]
<1>3. claimed \in WorkerMemory
  BY <1>1, IdleType DEF WorkerMemory, WorkerPc
<1>4. worker' \in [Workers -> WorkerMemory]
  BY <1>3 DEF ClaimRun, TypeInv, TypeOK
<1>5. claimed.run = r
  BY DEF IdleWorker
<1>6. BusyWorkersHaveRuns'
  BY <1>3, <1>5 DEF ClaimRun, TypeInv, TypeOK, BusyWorkersHaveRuns
<1> QED BY <1>2, <1>4, <1>6 DEF ClaimRun, TypeInv, TypeOK

\* The steps of a worker that write no row: it lets go or goes on.
LEMMA ReadingStepsType ==
    ASSUME TypeInv, NEW w \in Workers,
           \/ FindStoredResult(w) \/ Replay(w) \/ BuildContext(w)
           \/ CallProvider(w) \/ ProviderReturns(w) \/ ValidateCitations(w) \/ Crash(w)
    PROVE  TypeInv'
<1> DEFINE r == worker[w].run
<1>1. worker[w].pc # "idle"
  BY DEF FindStoredResult, Replay, BuildContext, CallProvider, ProviderReturns,
     ValidateCitations, Crash
<1>2. r \in Runs /\ worker \in [Workers -> WorkerMemory]
  BY <1>1 DEF TypeInv, TypeOK, BusyWorkersHaveRuns
<1>3. worker' \in [Workers -> WorkerMemory] /\ BusyWorkersHaveRuns'
  <2>1. ASSUME \/ LetGo(w)
               \/ \E pc \in WorkerPc : Goto(w, pc)
        PROVE  worker' \in [Workers -> WorkerMemory] /\ BusyWorkersHaveRuns'
    BY <1>1, <2>1, WorkerMovesOn
  <2>2. ASSUME NEW m \in WorkerMemory, m.run = r, worker' = [worker EXCEPT ![w] = m]
        PROVE  worker' \in [Workers -> WorkerMemory] /\ BusyWorkersHaveRuns'
    BY <1>2, <2>2 DEF TypeInv, BusyWorkersHaveRuns
  <2>3. CASE FindStoredResult(w)
    BY <2>1, <2>3 DEF FindStoredResult, WorkerPc
  <2>4. CASE Replay(w)
    <3> DEFINE m == [worker[w] EXCEPT !.pc = "validate", !.early = FALSE,
                                      !.usage = attempt[r].usage, !.answer = attempt[r].answer]
    <3>1. attempt[r].usage \in Usage /\ attempt[r].answer \in Nat
      BY <1>2 DEF TypeInv, TypeOK, AttemptRow
    <3>2. m \in WorkerMemory /\ m.run = r
      BY <1>2, <3>1 DEF WorkerMemory, WorkerPc
    <3>3. LetGo(w) \/ worker' = [worker EXCEPT ![w] = m]
      BY <2>4 DEF Replay
    <3> QED BY <2>1, <2>2, <3>2, <3>3
  <2>5. CASE BuildContext(w)
    <3> DEFINE m == [worker[w] EXCEPT !.pc = "fail", !.sent = FALSE]
    <3>1. m \in WorkerMemory /\ m.run = r
      BY <1>2 DEF WorkerMemory, WorkerPc
    <3>2. LetGo(w) \/ Goto(w, "dispatch") \/ worker' = [worker EXCEPT ![w] = m]
      BY <2>5 DEF BuildContext
    <3> QED BY <2>1, <2>2, <3>1, <3>2 DEF WorkerPc
  <2>6. CASE CallProvider(w)
    BY <2>1, <2>6 DEF CallProvider, WorkerPc
  <2>7. CASE ProviderReturns(w)
    <3>1. calls[r] \in Nat
      BY <1>2 DEF TypeInv, TypeOK
    <3>2. ASSUME NEW u \in Usage,
                 worker' = [worker EXCEPT ![w] = [@ EXCEPT !.pc = "record", !.usage = u,
                                                           !.answer = calls[r]]]
          PROVE  worker' \in [Workers -> WorkerMemory] /\ BusyWorkersHaveRuns'
      <4> DEFINE m == [worker[w] EXCEPT !.pc = "record", !.usage = u, !.answer = calls[r]]
      <4>1. m \in WorkerMemory /\ m.run = r
        BY <1>2, <3>1 DEF WorkerMemory, WorkerPc
      <4> QED BY <2>2, <3>2, <4>1
    <3>3. ASSUME NEW u \in Usage,
                 worker' = [worker EXCEPT ![w] = [@ EXCEPT !.pc = "fail", !.usage = u,
                                                           !.sent = TRUE]]
          PROVE  worker' \in [Workers -> WorkerMemory] /\ BusyWorkersHaveRuns'
      <4> DEFINE m == [worker[w] EXCEPT !.pc = "fail", !.usage = u, !.sent = TRUE]
      <4>1. m \in WorkerMemory /\ m.run = r
        BY <1>2 DEF WorkerMemory, WorkerPc
      <4> QED BY <2>2, <3>3, <4>1
    <3>4. ASSUME worker' = [worker EXCEPT ![w] = [@ EXCEPT !.pc = "fail", !.sent = FALSE]]
          PROVE  worker' \in [Workers -> WorkerMemory] /\ BusyWorkersHaveRuns'
      <4> DEFINE m == [worker[w] EXCEPT !.pc = "fail", !.sent = FALSE]
      <4>1. m \in WorkerMemory /\ m.run = r
        BY <1>2 DEF WorkerMemory, WorkerPc
      <4> QED BY <2>2, <3>4, <4>1
    <3> QED BY <2>1, <2>7, <3>2, <3>3, <3>4 DEF ProviderReturns, WorkerPc
  <2>8. CASE ValidateCitations(w)
    BY <2>1, <2>8 DEF ValidateCitations, WorkerPc
  <2>9. CASE Crash(w)
    BY <2>1, <2>9 DEF Crash
  <2> QED BY <2>3, <2>4, <2>5, <2>6, <2>7, <2>8, <2>9
<1>4. calls' \in [Runs -> Nat] /\ delivered' \in [Runs -> BOOLEAN]
  <2>1. CASE CallProvider(w)
    BY <2>1, <1>2 DEF CallProvider, TypeInv, TypeOK
  <2> QED BY <2>1 DEF FindStoredResult, Replay, BuildContext, ProviderReturns,
          ValidateCitations, Crash, TypeInv, TypeOK
<1>5. UNCHANGED <<rows, stable>>
  BY DEF FindStoredResult, Replay, BuildContext, CallProvider, ProviderReturns,
     ValidateCitations, Crash
<1> QED BY <1>3, <1>4, <1>5 DEF TypeInv, TypeOK

\* The steps of a worker that write rows.
LEMMA WritingStepsType ==
    ASSUME TypeInv, NEW w \in Workers,
           \/ MarkDispatched(w) \/ RecordResult(w) \/ FinishRun(w)
           \/ FailUnsent(w) \/ FailSent(w) \/ RequireReconciliation(w)
    PROVE  TypeInv'
<1> DEFINE r == worker[w].run
<1>1. worker[w].pc # "idle"
  BY DEF MarkDispatched, RecordResult, FinishRun, FailUnsent, FailSent,
     RequireReconciliation
<1>2. /\ TypeOK
      /\ r \in Runs
      /\ worker[w] \in WorkerMemory
      /\ attempt[r] \in AttemptRow
      /\ resv[r] \in ReservationRow
      /\ resv[r].estimate \in Int /\ 0 - resv[r].estimate \in Int
  BY <1>1 DEF TypeInv, TypeOK, BusyWorkersHaveRuns, ReservationRow
<1>3. worker' \in [Workers -> WorkerMemory] /\ BusyWorkersHaveRuns'
  <2>1. LetGo(w) \/ Goto(w, "call") \/ Goto(w, "validate")
    BY DEF MarkDispatched, RecordResult, FinishRun, FailUnsent, FailSent,
       RequireReconciliation
  <2> QED BY <1>1, <2>1, WorkerMovesOn DEF WorkerPc
<1>4. UNCHANGED <<created, provider, stable>>
  BY DEF MarkDispatched, RecordResult, FinishRun, FailUnsent, FailSent,
     RequireReconciliation
<1>5. run' \in [Runs -> RunRow] /\ events' \in [Runs -> Seq(EventTypes)]
  <2>1. CASE UNCHANGED <<run, events>>
    BY <1>2, <2>1 DEF TypeOK
  <2>2. CASE UNCHANGED run /\ InsertEvent(r, "run.dispatched")
    BY <1>2, <2>2, EventType DEF TypeOK, InsertEvent, EventTypes
  <2>3. ASSUME NEW status \in RunStatus, NEW type \in EventTypes,
               LeaveRunning(r, status, type)
        PROVE  run' \in [Runs -> RunRow] /\ events' \in [Runs -> Seq(EventTypes)]
    BY <1>2, <2>3, LeaveRunningType
  <2>4. \/ UNCHANGED <<run, events>>
        \/ UNCHANGED run /\ InsertEvent(r, "run.dispatched")
        \/ LeaveRunning(r, "succeeded", "run.succeeded")
        \/ LeaveRunning(r, "failed", "run.failed")
        \/ LeaveRunning(r, "reconciliation_required", "run.reconciliation_required")
    BY DEF MarkDispatched, RecordResult, FinishRun, FailUnsent, FailSent,
       RequireReconciliation
  <2> QED BY <2>1, <2>2, <2>3, <2>4 DEF RunStatus, EventTypes
<1>6. attempt' \in [Runs -> AttemptRow]
  <2>1. CASE UNCHANGED attempt
    BY <1>2, <2>1 DEF TypeOK
  <2>2. ASSUME NEW row \in AttemptRow, attempt' = [attempt EXCEPT ![r] = row]
        PROVE  attempt' \in [Runs -> AttemptRow]
    BY <1>2, <2>2 DEF TypeOK
  <2>3. /\ [NoAttempt EXCEPT !.status = "dispatched", !.id = worker[w].token] \in AttemptRow
        /\ [attempt[r] EXCEPT !.status = "completed", !.answer = worker[w].answer,
                              !.usage = worker[w].usage] \in AttemptRow
        /\ [attempt[r] EXCEPT !.status = "failed"] \in AttemptRow
        /\ [attempt[r] EXCEPT !.status = IF @ = "dispatched" THEN "unknown" ELSE @]
             \in AttemptRow
    BY <1>2 DEF AttemptRow, NoAttempt, AttemptStatus, WorkerMemory, Usage
  <2>4. CASE MarkDispatched(w)
    BY <2>1, <2>2, <2>3, <2>4 DEF MarkDispatched
  <2>5. CASE RecordResult(w)
    BY <2>1, <2>2, <2>3, <2>5 DEF RecordResult
  <2>6. CASE FailSent(w)
    BY <2>1, <2>2, <2>3, <2>6 DEF FailSent
  <2>7. CASE RequireReconciliation(w)
    BY <2>1, <2>2, <2>3, <2>7 DEF RequireReconciliation
  <2> QED BY <2>1, <2>4, <2>5, <2>6, <2>7 DEF FinishRun, FailUnsent
<1>7. resv' \in [Runs -> ReservationRow] /\ ledger' \in [Accounts -> Account]
  <2>1. CASE UNCHANGED <<resv, ledger>>
    BY <1>2, <2>1 DEF TypeOK
  <2>2. CASE SettledUsage(w) # NoUsage /\ Settle(w)
    BY <1>2, <2>2, SettleType
  <2>3. CASE /\ resv' = [resv EXCEPT ![r].state = "in_flight"]
             /\ ledger' = HoldToInFlight(ledger, ProjectOf[r], resv[r].estimate)
    <3>1. [resv[r] EXCEPT !.state = "in_flight"] \in ReservationRow
      BY <1>2 DEF ReservationRow, ReservationState
    <3>2. Post(ledger, ProjectOf[r], "reserved", 0 - resv[r].estimate)
            \in [Accounts -> Account]
      BY <1>2, PostType DEF TypeOK
    <3>3. Post(Post(ledger, ProjectOf[r], "reserved", 0 - resv[r].estimate),
               ProjectOf[r], "inFlight", resv[r].estimate) \in [Accounts -> Account]
      BY <1>2, <3>2, PostType
    <3> QED BY <1>2, <2>3, <3>1, <3>3 DEF HoldToInFlight, Transfer, TypeOK
  <2>4. CASE /\ resv' = [resv EXCEPT ![r].state = "released"]
             /\ ledger' = ReleaseMicro(ledger, ProjectOf[r], resv[r].state, resv[r].estimate)
    <3>1. [resv[r] EXCEPT !.state = "released"] \in ReservationRow
      BY <1>2 DEF ReservationRow, ReservationState
    <3>2. \A column \in {"reserved", "inFlight"} :
            Post(ledger, ProjectOf[r], column, 0 - resv[r].estimate)
              \in [Accounts -> Account]
      BY <1>2, PostType DEF TypeOK
    <3> QED BY <1>2, <2>4, <3>1, <3>2 DEF ReleaseMicro, TypeOK
  <2>5. CASE MarkDispatched(w)
    BY <2>1, <2>3, <2>5 DEF MarkDispatched
  <2>6. CASE FinishRun(w)
    BY <2>1, <2>2, <2>6 DEF FinishRun, KeepExposure
  <2>7. CASE FailUnsent(w)
    BY <2>1, <2>4, <2>7 DEF FailUnsent
  <2>8. CASE FailSent(w)
    BY <2>1, <2>2, <2>8 DEF FailSent
  <2> QED BY <2>1, <2>5, <2>6, <2>7, <2>8 DEF RecordResult, RequireReconciliation, KeepExposure
<1>8. answer' \in [Runs -> Nat]
  BY <1>2 DEF MarkDispatched, RecordResult, FinishRun, FailUnsent, FailSent,
     RequireReconciliation, TypeOK, WorkerMemory
<1> QED BY <1>2, <1>3, <1>4, <1>5, <1>6, <1>7, <1>8 DEF TypeInv, TypeOK

LEMMA StepType == TypeInv /\ [Next]_vars => TypeInv'
<1> SUFFICES ASSUME TypeInv, [Next]_vars PROVE TypeInv'
  OBVIOUS
<1>1. CASE UNCHANGED vars
  BY <1>1 DEF vars, TypeInv, TypeOK, BusyWorkersHaveRuns
<1>2. CASE Next
  BY <1>2, UserStepsType, ClaimRunType, ReadingStepsType, WritingStepsType
     DEF Next, WorkerStep
<1> QED BY <1>1, <1>2

\* Every reachable state has the types of the rows and of the workers' memory:
\* no step of the worker loop leaves a column or a local outside its range.
THEOREM TypeCorrect == Spec => []TypeOK
<1>1. Init => TypeInv
  BY InitTypeOK DEF TypeInv, BusyWorkersHaveRuns, Init, IdleWorker
<1>2. TypeInv => TypeOK
  BY DEF TypeInv
<1> QED BY <1>1, <1>2, StepType, PTL DEF Spec

-----------------------------------------------------------------------------
(* What the workers and the attempt rows know.                             *)

USE DEF Busy, Attempt, Refused

\* The worker w may change its own memory but keeps its run and its token, or gives
\* both up.
KeepsOrGivesUp(w) ==
    /\ worker' \in [Workers -> WorkerMemory]
    /\ \A v \in Workers \ {w} : worker'[v] = worker[v]
    /\ \/ worker'[w] = IdleWorker
       \/ /\ worker'[w].pc # "idle"
          /\ worker'[w].run = worker[w].run
          /\ worker'[w].token = worker[w].token

\* Such a step keeps the tokens of the workers distinct.
LEMMA TokensStayDistinct ==
    ASSUME TypeOK, \A v \in Workers : TokenNames(v), NEW w \in Workers,
           worker[w].pc # "idle", KeepsOrGivesUp(w)
    PROVE  \A v \in Workers : TokenNames(v)'
<1> SUFFICES ASSUME NEW v \in Workers PROVE TokenNames(v)'
  OBVIOUS
<1>0. \A u \in Workers : worker[u].token = NoToken \/ worker[u].token \in Tokens
  BY DEF TokenNames
<1>1. CASE worker'[w] = IdleWorker
  <2>1. IdleWorker.pc = "idle" /\ IdleWorker.token = NoToken
    BY DEF IdleWorker
  <2> QED BY <1>0, <1>1, <2>1, RunsAssumption DEF KeepsOrGivesUp, TokenNames
<1>2. CASE worker'[w] # IdleWorker
  BY <1>0, <1>2, RunsAssumption DEF KeepsOrGivesUp, TokenNames
<1> QED BY <1>1, <1>2

\* A step that writes no attempt row and makes no call leaves what the other
\* workers know true.
LEMMA OthersKeepKnowing ==
    ASSUME TypeOK, ClaimsAndAttempts, NEW w \in Workers, worker[w].pc # "idle",
           KeepsOrGivesUp(w), UNCHANGED <<attempt, calls, delivered>>
    PROVE  \A v \in Workers \ {w} : WorkerKnows(v)'
<1>1. \A v \in Workers : TokenNames(v)'
  BY TokensStayDistinct DEF ClaimsAndAttempts, WorkerKnows
<1> QED BY <1>1 DEF KeepsOrGivesUp, ClaimsAndAttempts, WorkerKnows, NotYetDispatched,
            OwnsAttempt, OutcomeIsDelivered, CarriesStoredResult

\* A worker that has let go knows nothing that could be wrong.
LEMMA IdleKnows ==
    ASSUME TypeOK, ClaimsAndAttempts, NEW w \in Workers, worker[w].pc # "idle",
           KeepsOrGivesUp(w), worker'[w] = IdleWorker
    PROVE  WorkerKnows(w)'
<1>1. TokenNames(w)'
  BY TokensStayDistinct DEF ClaimsAndAttempts, WorkerKnows
<1>2. worker'[w].pc = "idle"
  BY DEF IdleWorker
<1> QED BY <1>1, <1>2 DEF WorkerKnows, NotYetDispatched, OwnsAttempt, OutcomeIsDelivered,
       CarriesStoredResult

LEMMA LetGoShape ==
    ASSUME TypeOK, NEW w \in Workers, LetGo(w)
    PROVE  KeepsOrGivesUp(w) /\ worker'[w] = IdleWorker
<1>1. worker' \in [Workers -> WorkerMemory]
  BY WorkerUpdateTypes DEF TypeOK
<1> QED BY <1>1 DEF LetGo, KeepsOrGivesUp, TypeOK

LEMMA GotoShape ==
    ASSUME TypeOK, NEW w \in Workers, NEW pc \in WorkerPc \ {"idle"}, Goto(w, pc)
    PROVE  /\ KeepsOrGivesUp(w)
           /\ worker'[w].pc = pc
           /\ worker'[w].run = worker[w].run
           /\ worker'[w].token = worker[w].token
           /\ worker'[w].sent = worker[w].sent
           /\ worker'[w].usage = worker[w].usage
           /\ worker'[w].answer = worker[w].answer
  BY GotoFields DEF TypeOK, KeepsOrGivesUp

\* A worker whose new memory is m keeps its run and token if m does.
LEMMA MemoryShape ==
    ASSUME TypeOK, NEW w \in Workers, NEW m \in WorkerMemory, m.pc # "idle",
           m.run = worker[w].run, m.token = worker[w].token,
           worker' = [worker EXCEPT ![w] = m]
    PROVE  KeepsOrGivesUp(w) /\ worker'[w] = m
  BY DEF KeepsOrGivesUp, TypeOK

\* A worker that goes on without writing keeps knowing if its new position claims
\* no more than it knew.
LEMMA MoverKnows ==
    ASSUME TypeOK, ClaimsAndAttempts, NEW w \in Workers, worker[w].pc # "idle",
           KeepsOrGivesUp(w), worker'[w].run = worker[w].run,
           worker'[w].token = worker[w].token, worker'[w].pc # "idle",
           UNCHANGED <<attempt, calls, delivered>>,
           worker'[w].pc \in {"lookup", "context", "dispatch"} =>
             worker[w].pc \in {"lookup", "context", "dispatch"},
           (\/ worker'[w].pc \in {"call", "waiting", "record", "reconcile"}
            \/ worker'[w].pc = "fail" /\ worker'[w].sent)
             => worker[w].pc = "waiting" /\ worker'[w].pc # "call",
           OutcomeIsDelivered(w)',
           CarriesStoredResult(w)'
    PROVE  WorkerKnows(w)'
<1>1. TokenNames(w)'
  BY TokensStayDistinct DEF ClaimsAndAttempts, WorkerKnows
<1>2. NotYetDispatched(w) /\ OwnsAttempt(w)
  BY DEF ClaimsAndAttempts, WorkerKnows
<1>3. NotYetDispatched(w)'
  BY <1>2 DEF NotYetDispatched
<1>4. OwnsAttempt(w)'
  <2>1. SUFFICES ASSUME \/ worker'[w].pc \in {"call", "waiting", "record", "reconcile"}
                        \/ worker'[w].pc = "fail" /\ worker'[w].sent
                 PROVE  /\ attempt'[worker'[w].run].status = "dispatched"
                        /\ attempt'[worker'[w].run].id = worker'[w].token
                        /\ calls'[worker'[w].run] = IF worker'[w].pc = "call" THEN 0 ELSE 1
    BY DEF OwnsAttempt
  <2>2. worker[w].pc = "waiting" /\ worker'[w].pc # "call"
    BY <2>1
  <2> QED BY <1>2, <2>2 DEF OwnsAttempt
<1> QED BY <1>1, <1>3, <1>4 DEF WorkerKnows

-----------------------------------------------------------------------------
(* The steps of a worker that write no row.                                *)

LEMMA RunOfBusy ==
    ASSUME TypeOK, ClaimsAndAttempts, NEW w \in Workers, worker[w].pc # "idle"
    PROVE  /\ worker[w].run \in Runs
           /\ worker[w].token \in Tokens
           /\ worker[w] \in WorkerMemory
           /\ attempt[worker[w].run] \in AttemptRow
           /\ WorkerKnows(w)
           /\ AttemptTellsCalls(worker[w].run)
  BY DEF TypeOK, ClaimsAndAttempts, WorkerKnows, TokenNames

\* What the workers know stays true when a worker lets go without writing.
LEMMA LetGoKnows ==
    ASSUME TypeOK, ClaimsAndAttempts, NEW w \in Workers, worker[w].pc # "idle", LetGo(w),
           UNCHANGED <<attempt, calls, delivered>>
    PROVE  \A v \in Workers : WorkerKnows(v)'
  BY LetGoShape, OthersKeepKnowing, IdleKnows

LEMMA FindStoredResultKnows ==
    ASSUME TypeOK, ClaimsAndAttempts, NEW w \in Workers, FindStoredResult(w)
    PROVE  \A v \in Workers : WorkerKnows(v)'
<1>1. worker[w].pc = "lookup" /\ UNCHANGED <<attempt, calls, delivered>>
  BY DEF FindStoredResult
<1>2. CASE LetGo(w)
  BY <1>1, <1>2, LetGoKnows
<1>3. ASSUME NEW pc \in {"reload", "context"}, Goto(w, pc)
      PROVE  \A v \in Workers : WorkerKnows(v)'
  <2>1. /\ KeepsOrGivesUp(w)
        /\ worker'[w].pc = pc
        /\ worker'[w].run = worker[w].run
        /\ worker'[w].token = worker[w].token
    BY <1>3, GotoShape DEF WorkerPc
  <2>2. OutcomeIsDelivered(w)' /\ CarriesStoredResult(w)'
    BY <2>1 DEF OutcomeIsDelivered, CarriesStoredResult
  <2>3. WorkerKnows(w)'
    BY <1>1, <2>1, <2>2, MoverKnows
  <2> QED BY <1>1, <2>1, <2>3, OthersKeepKnowing
<1> QED BY <1>2, <1>3 DEF FindStoredResult

LEMMA ReplayKnows ==
    ASSUME TypeOK, ClaimsAndAttempts, NEW w \in Workers, Replay(w)
    PROVE  \A v \in Workers : WorkerKnows(v)'
<1> DEFINE r == worker[w].run
           m == [worker[w] EXCEPT !.pc = "validate", !.early = FALSE,
                                  !.usage = attempt[r].usage, !.answer = attempt[r].answer]
<1>1. worker[w].pc = "reload" /\ UNCHANGED <<attempt, calls, delivered>>
  BY DEF Replay
<1>2. CASE LetGo(w)
  BY <1>1, <1>2, LetGoKnows
<1>3. CASE attempt[r].answer # 0 /\ worker' = [worker EXCEPT ![w] = m]
  <2>1. /\ m \in WorkerMemory /\ m.pc = "validate"
        /\ m.run = r /\ m.token = worker[w].token /\ m.answer = attempt[r].answer
    BY <1>1, RunOfBusy DEF WorkerMemory, WorkerPc, AttemptRow
  <2>2. KeepsOrGivesUp(w) /\ worker'[w] = m
    <3> HIDE DEF m
    <3> QED BY <1>3, <2>1, MemoryShape
  <2>3. attempt[r].status = "completed"
    BY <1>1, <1>3, RunOfBusy DEF AttemptTellsCalls
  <2> HIDE DEF m
  <2>4. OutcomeIsDelivered(w)' /\ CarriesStoredResult(w)'
    BY <1>1, <2>1, <2>2, <2>3 DEF OutcomeIsDelivered, CarriesStoredResult
  <2>5. WorkerKnows(w)'
    BY <1>1, <2>1, <2>2, <2>4, MoverKnows
  <2> QED BY <1>1, <2>2, <2>5, OthersKeepKnowing
<1> QED BY <1>2, <1>3 DEF Replay

LEMMA BuildContextKnows ==
    ASSUME TypeOK, ClaimsAndAttempts, NEW w \in Workers, BuildContext(w)
    PROVE  \A v \in Workers : WorkerKnows(v)'
<1> DEFINE m == [worker[w] EXCEPT !.pc = "fail", !.sent = FALSE]
<1>1. worker[w].pc = "context" /\ UNCHANGED <<attempt, calls, delivered>>
  BY DEF BuildContext
<1>2. CASE LetGo(w)
  BY <1>1, <1>2, LetGoKnows
<1>3. CASE Goto(w, "dispatch") \/ worker' = [worker EXCEPT ![w] = m]
  <2>1. /\ m \in WorkerMemory /\ m.pc = "fail" /\ ~m.sent
        /\ m.run = worker[w].run /\ m.token = worker[w].token
    BY <1>1, RunOfBusy DEF WorkerMemory, WorkerPc
  <2> HIDE DEF m
  <2>2. /\ KeepsOrGivesUp(w)
        /\ worker'[w].pc = "dispatch" \/ (worker'[w].pc = "fail" /\ ~worker'[w].sent)
        /\ worker'[w].run = worker[w].run
        /\ worker'[w].token = worker[w].token
    BY <1>3, <2>1, GotoShape, MemoryShape DEF WorkerPc
  <2>3. OutcomeIsDelivered(w)' /\ CarriesStoredResult(w)'
    BY <2>2 DEF OutcomeIsDelivered, CarriesStoredResult
  <2>4. WorkerKnows(w)'
    BY <1>1, <2>2, <2>3, MoverKnows
  <2> QED BY <1>1, <2>2, <2>4, OthersKeepKnowing
<1> QED BY <1>2, <1>3 DEF BuildContext

LEMMA ProviderReturnsKnows ==
    ASSUME TypeOK, ClaimsAndAttempts, NEW w \in Workers, ProviderReturns(w)
    PROVE  \A v \in Workers : WorkerKnows(v)'
<1> DEFINE r == worker[w].run
<1>1. worker[w].pc = "waiting" /\ UNCHANGED <<attempt, calls, delivered>>
  BY DEF ProviderReturns
<1>2. /\ r \in Runs
      /\ worker[w] \in WorkerMemory
      /\ calls[r] = 1 /\ calls[r] \in Nat
  BY <1>1, RunOfBusy DEF WorkerKnows, OwnsAttempt, TypeOK
<1>3. ASSUME NEW m \in WorkerMemory, m.run = r, m.token = worker[w].token,
             worker' = [worker EXCEPT ![w] = m],
             \/ m.pc = "record" /\ m.answer = 1 /\ delivered[r]
             \/ m.pc = "fail" /\ (m.sent => delivered[r])
             \/ m.pc = "reconcile"
      PROVE  \A v \in Workers : WorkerKnows(v)'
  <2>1. KeepsOrGivesUp(w) /\ worker'[w] = m
    BY <1>3, MemoryShape
  <2>2. OutcomeIsDelivered(w)' /\ CarriesStoredResult(w)'
    BY <1>1, <1>3, <2>1 DEF OutcomeIsDelivered, CarriesStoredResult
  <2>3. /\ worker'[w].pc \in {"record", "fail", "reconcile"}
        /\ worker'[w].run = worker[w].run
        /\ worker'[w].token = worker[w].token
    BY <1>3, <2>1
  <2>4. WorkerKnows(w)'
    BY <1>1, <2>1, <2>2, <2>3, MoverKnows
  <2> QED BY <1>1, <2>1, <2>4, OthersKeepKnowing
<1>4. ASSUME NEW u \in Usage, delivered[r],
             worker' = [worker EXCEPT ![w] = [@ EXCEPT !.pc = "record", !.usage = u,
                                                       !.answer = calls[r]]]
      PROVE  \A v \in Workers : WorkerKnows(v)'
  <2> DEFINE m == [worker[w] EXCEPT !.pc = "record", !.usage = u, !.answer = calls[r]]
  <2>1. /\ m \in WorkerMemory /\ m.run = r /\ m.token = worker[w].token
        /\ m.pc = "record" /\ m.answer = 1
    BY <1>2 DEF WorkerMemory, WorkerPc
  <2>2. worker' = [worker EXCEPT ![w] = m]
    BY <1>4
  <2> HIDE DEF m
  <2> QED BY <1>3, <1>4, <2>1, <2>2
<1>5. ASSUME NEW u \in Usage, delivered[r],
             worker' = [worker EXCEPT ![w] = [@ EXCEPT !.pc = "fail", !.usage = u,
                                                       !.sent = TRUE]]
      PROVE  \A v \in Workers : WorkerKnows(v)'
  <2> DEFINE m == [worker[w] EXCEPT !.pc = "fail", !.usage = u, !.sent = TRUE]
  <2>1. /\ m \in WorkerMemory /\ m.run = r /\ m.token = worker[w].token
        /\ m.pc = "fail" /\ worker' = [worker EXCEPT ![w] = m]
    BY <1>2, <1>5 DEF WorkerMemory, WorkerPc
  <2> HIDE DEF m
  <2> QED BY <1>3, <1>5, <2>1
<1>6. ASSUME worker' = [worker EXCEPT ![w] = [@ EXCEPT !.pc = "fail", !.sent = FALSE]]
      PROVE  \A v \in Workers : WorkerKnows(v)'
  <2> DEFINE m == [worker[w] EXCEPT !.pc = "fail", !.sent = FALSE]
  <2>1. /\ m \in WorkerMemory /\ m.run = r /\ m.token = worker[w].token
        /\ m.pc = "fail" /\ ~m.sent /\ worker' = [worker EXCEPT ![w] = m]
    BY <1>2, <1>6 DEF WorkerMemory, WorkerPc
  <2> HIDE DEF m
  <2> QED BY <1>3, <2>1
<1>7. ASSUME Goto(w, "reconcile")
      PROVE  \A v \in Workers : WorkerKnows(v)'
  <2> DEFINE m == [worker[w] EXCEPT !.pc = "reconcile", !.early = FALSE]
  <2>1. /\ m \in WorkerMemory /\ m.run = r /\ m.token = worker[w].token
        /\ m.pc = "reconcile" /\ worker' = [worker EXCEPT ![w] = m]
    BY <1>2, <1>7 DEF WorkerMemory, WorkerPc, Goto
  <2> HIDE DEF m
  <2> QED BY <1>3, <2>1
<1> QED BY <1>4, <1>5, <1>6, <1>7 DEF ProviderReturns

LEMMA ValidateCitationsKnows ==
    ASSUME TypeOK, ClaimsAndAttempts, NEW w \in Workers, ValidateCitations(w)
    PROVE  \A v \in Workers : WorkerKnows(v)'
<1>1. worker[w].pc = "validate" /\ UNCHANGED <<attempt, calls, delivered>>
  BY DEF ValidateCitations
<1>2. /\ KeepsOrGivesUp(w)
      /\ worker'[w].pc = "finish"
      /\ worker'[w].run = worker[w].run
      /\ worker'[w].token = worker[w].token
      /\ worker'[w].answer = worker[w].answer
  BY GotoShape DEF ValidateCitations, WorkerPc
<1>3. OutcomeIsDelivered(w)' /\ CarriesStoredResult(w)'
  BY <1>1, <1>2, RunOfBusy
     DEF WorkerKnows, OutcomeIsDelivered, CarriesStoredResult
<1>4. WorkerKnows(w)'
  BY <1>1, <1>2, <1>3, MoverKnows
<1> QED BY <1>1, <1>2, <1>4, OthersKeepKnowing

\* Two workers are never between dispatch and outcome of the same run.
LEMMA OneSender ==
    ASSUME TypeOK, ClaimsAndAttempts, NEW w \in Workers, NEW v \in Workers \ {w},
           worker[v].run = worker[w].run, worker[w].pc # "idle",
           Attempt(w).id = worker[w].token
    PROVE  /\ worker[v].pc \notin {"call", "waiting", "record", "reconcile"}
           /\ ~(worker[v].pc = "fail" /\ worker[v].sent)
<1>1. worker[v].token # worker[w].token
  BY DEF ClaimsAndAttempts, WorkerKnows, TokenNames
<1> QED BY <1>1 DEF ClaimsAndAttempts, WorkerKnows, OwnsAttempt

LEMMA CallProviderKnows ==
    ASSUME TypeOK, ClaimsAndAttempts, NEW w \in Workers, CallProvider(w)
    PROVE  ClaimsAndAttempts'
<1> DEFINE r == worker[w].run
<1>1. /\ worker[w].pc = "call" /\ UNCHANGED <<run, resv, attempt>>
      /\ Goto(w, "waiting")
      /\ calls' = [calls EXCEPT ![r] = @ + 1]
      /\ \E got \in BOOLEAN : delivered' = [delivered EXCEPT ![r] = @ \/ got]
  BY DEF CallProvider
<1>2. /\ r \in Runs
      /\ WorkerKnows(w)
      /\ attempt[r].status = "dispatched" /\ attempt[r].id = worker[w].token
      /\ calls[r] = 0
  BY <1>1, RunOfBusy DEF WorkerKnows, OwnsAttempt
<1>3. /\ \A q \in Runs : q # r => calls'[q] = calls[q] /\ delivered'[q] = delivered[q]
      /\ calls'[r] = 1
      /\ \A q \in Runs : delivered[q] => delivered'[q]
  BY <1>1, <1>2 DEF TypeOK
<1>4. /\ KeepsOrGivesUp(w)
      /\ worker'[w].pc = "waiting"
      /\ worker'[w].run = worker[w].run
      /\ worker'[w].token = worker[w].token
  BY <1>1, GotoShape DEF WorkerPc
<1>5. \A v \in Workers : TokenNames(v)'
  BY <1>1, <1>4, TokensStayDistinct DEF ClaimsAndAttempts, WorkerKnows
<1>6. ASSUME NEW v \in Workers, v # w PROVE WorkerKnows(v)'
  <2>1. worker'[v] = worker[v] /\ WorkerKnows(v)
    BY <1>4, <1>6 DEF KeepsOrGivesUp, ClaimsAndAttempts
  <2>2. NotYetDispatched(v)' /\ CarriesStoredResult(v)'
    BY <1>1, <2>1 DEF WorkerKnows, NotYetDispatched, CarriesStoredResult
  <2>3. OwnsAttempt(v)'
    <3>1. CASE worker[v].run = r
      BY <1>1, <1>2, <1>6, <2>1, <3>1, OneSender DEF OwnsAttempt
    <3>2. CASE worker[v].run # r
      <4>1. worker[v].pc # "idle" => worker[v].run \in Runs
        BY <2>1 DEF WorkerKnows, TokenNames
      <4> QED BY <1>1, <1>3, <2>1, <3>2, <4>1 DEF WorkerKnows, OwnsAttempt
    <3> QED BY <3>1, <3>2
  <2>4. OutcomeIsDelivered(v)'
    <3>1. worker[v].pc # "idle" => worker[v].run \in Runs
      BY <2>1 DEF WorkerKnows, TokenNames
    <3> QED BY <1>3, <2>1, <3>1 DEF WorkerKnows, OutcomeIsDelivered
  <2> QED BY <1>5, <2>2, <2>3, <2>4 DEF WorkerKnows
<1>7. WorkerKnows(w)'
  BY <1>1, <1>2, <1>3, <1>4, <1>5 DEF WorkerKnows, NotYetDispatched, OwnsAttempt,
     OutcomeIsDelivered, CarriesStoredResult
<1>8. ASSUME NEW q \in Runs PROVE AttemptTellsCalls(q)' /\ UnclaimedIsUntouched(q)'
  BY <1>1, <1>2, <1>3 DEF ClaimsAndAttempts, AttemptTellsCalls, UnclaimedIsUntouched
<1> QED BY <1>6, <1>7, <1>8 DEF ClaimsAndAttempts

\* The steps of a worker that write no row keep the invariant.
LEMMA ReadingStepsKeep ==
    ASSUME TypeOK, ClaimsAndAttempts, NEW w \in Workers,
           \/ FindStoredResult(w) \/ Replay(w) \/ BuildContext(w)
           \/ CallProvider(w) \/ ProviderReturns(w) \/ ValidateCitations(w) \/ Crash(w)
    PROVE  ClaimsAndAttempts'
<1>1. CASE CallProvider(w)
  BY <1>1, CallProviderKnows
<1>2. CASE ~CallProvider(w)
  <2>1. UNCHANGED <<run, resv, attempt, calls, delivered>>
    BY <1>2 DEF FindStoredResult, Replay, BuildContext, ProviderReturns,
       ValidateCitations, Crash
  <2>2. \A q \in Runs : AttemptTellsCalls(q)' /\ UnclaimedIsUntouched(q)'
    BY <2>1 DEF ClaimsAndAttempts, AttemptTellsCalls, UnclaimedIsUntouched
  <2>3. CASE Crash(w)
    BY <2>1, <2>2, <2>3, LetGoKnows DEF Crash, ClaimsAndAttempts
  <2> QED BY <1>2, <2>2, <2>3, FindStoredResultKnows, ReplayKnows, BuildContextKnows,
          ProviderReturnsKnows, ValidateCitationsKnows DEF ClaimsAndAttempts
<1> QED BY <1>1, <1>2

-----------------------------------------------------------------------------
(* The steps of a worker that write rows.                                  *)

\* Writing the attempt row of a run that has none, or that is the worker's own and
\* not yet decided, disturbs nothing another worker knows.
LEMMA AttemptWriteKeepsOthers ==
    ASSUME TypeOK, ClaimsAndAttempts, NEW w \in Workers, worker[w].pc # "idle",
           KeepsOrGivesUp(w), NEW row \in AttemptRow, row.id = worker[w].token,
           attempt' = [attempt EXCEPT ![worker[w].run] = row],
           UNCHANGED <<calls, delivered>>,
           \/ attempt[worker[w].run].status = "none"
           \/ /\ attempt[worker[w].run].status = "dispatched"
              /\ attempt[worker[w].run].id = worker[w].token
    PROVE  \A v \in Workers \ {w} : WorkerKnows(v)'
<1> DEFINE r == worker[w].run
<1>1. r \in Runs
  BY RunOfBusy
<1>2. attempt'[r] = row /\ \A q \in Runs \ {r} : attempt'[q] = attempt[q]
  BY <1>1 DEF TypeOK
<1> SUFFICES ASSUME NEW v \in Workers, v # w PROVE WorkerKnows(v)'
  OBVIOUS
<1>3. /\ worker'[v] = worker[v]
      /\ WorkerKnows(v)
      /\ worker[v].token # worker[w].token
      /\ worker[v].pc # "idle" => worker[v].run \in Runs
  BY DEF KeepsOrGivesUp, ClaimsAndAttempts, WorkerKnows, TokenNames
<1>4. TokenNames(v)'
  BY TokensStayDistinct DEF ClaimsAndAttempts, WorkerKnows
<1>5. NotYetDispatched(v)'
  BY <1>2, <1>3 DEF WorkerKnows, NotYetDispatched
<1>6. OwnsAttempt(v)'
  <2>1. CASE worker[v].run = r
    BY <1>3, <2>1, OneSender DEF WorkerKnows, OwnsAttempt
  <2>2. CASE worker[v].run # r
    BY <1>2, <1>3, <2>2 DEF WorkerKnows, OwnsAttempt
  <2> QED BY <2>1, <2>2
<1>7. OutcomeIsDelivered(v)'
  BY <1>3 DEF WorkerKnows, OutcomeIsDelivered
<1>8. CarriesStoredResult(v)'
  BY <1>2, <1>3 DEF WorkerKnows, CarriesStoredResult
<1> QED BY <1>4, <1>5, <1>6, <1>7, <1>8 DEF WorkerKnows

LEMMA MarkDispatchedKeeps ==
    ASSUME TypeOK, ClaimsAndAttempts, NEW w \in Workers, MarkDispatched(w)
    PROVE  ClaimsAndAttempts'
<1> DEFINE r == worker[w].run
           row == [NoAttempt EXCEPT !.status = "dispatched", !.id = worker[w].token]
<1>1. worker[w].pc = "dispatch" /\ UNCHANGED <<run, calls, delivered>>
  BY DEF MarkDispatched
<1>2. /\ r \in Runs /\ worker[w] \in WorkerMemory /\ WorkerKnows(w)
      /\ worker[w].token \in Tokens /\ attempt[r] \in AttemptRow
  BY <1>1, RunOfBusy
<1>3. attempt[r].id # worker[w].token
  BY <1>1, <1>2 DEF WorkerKnows, NotYetDispatched
<1>4. CASE LetGo(w) /\ UNCHANGED <<attempt, resv>>
  <2>1. \A q \in Runs : AttemptTellsCalls(q)' /\ UnclaimedIsUntouched(q)'
    BY <1>1, <1>4 DEF ClaimsAndAttempts, AttemptTellsCalls, UnclaimedIsUntouched
  <2> QED BY <1>1, <1>4, <2>1, LetGoKnows DEF ClaimsAndAttempts
<1>5. CASE /\ Fence(w) /\ attempt[r].status = "none"
           /\ resv' = [resv EXCEPT ![r].state = "in_flight"]
           /\ attempt' = [attempt EXCEPT ![r] = row]
           /\ Goto(w, "call")
  <2>1. /\ row \in AttemptRow /\ row.id = worker[w].token
        /\ row.status = "dispatched" /\ row.answer = 0
    BY <1>2 DEF NoAttempt, AttemptRow, AttemptStatus, Usage
  <2> HIDE DEF row
  <2>2. attempt'[r] = row /\ \A q \in Runs \ {r} : attempt'[q] = attempt[q]
    BY <1>2, <1>5 DEF TypeOK
  <2>3. /\ KeepsOrGivesUp(w)
        /\ worker'[w].pc = "call"
        /\ worker'[w].run = r
        /\ worker'[w].token = worker[w].token
    BY <1>5, GotoShape DEF WorkerPc
  <2>4. \A v \in Workers \ {w} : WorkerKnows(v)'
    BY <1>1, <1>5, <2>1, <2>3, AttemptWriteKeepsOthers
  <2>5. TokenNames(w)'
    BY <1>1, <2>3, TokensStayDistinct DEF ClaimsAndAttempts, WorkerKnows
  <2>6. calls[r] = 0
    BY <1>2, <1>5 DEF ClaimsAndAttempts, AttemptTellsCalls
  <2>7. WorkerKnows(w)'
    BY <1>1, <2>1, <2>2, <2>3, <2>5, <2>6 DEF WorkerKnows, NotYetDispatched, OwnsAttempt,
       OutcomeIsDelivered, CarriesStoredResult
  <2>8. ASSUME NEW q \in Runs PROVE AttemptTellsCalls(q)'
    BY <1>1, <2>1, <2>2, <2>6 DEF ClaimsAndAttempts, AttemptTellsCalls
  <2>9. ASSUME NEW q \in Runs PROVE UnclaimedIsUntouched(q)'
    <3>1. run[r].status = "running"
      BY <1>5 DEF Fence, HoldsClaim
    <3>2. CASE q = r
      BY <1>1, <3>1, <3>2 DEF UnclaimedIsUntouched
    <3>3. CASE q # r
      <4>1. resv'[q] = resv[q]
        BY <1>5, <3>3 DEF TypeOK
      <4> QED BY <1>1, <2>2, <3>3, <4>1 DEF ClaimsAndAttempts, UnclaimedIsUntouched
    <3> QED BY <3>2, <3>3
  <2> QED BY <2>4, <2>7, <2>8, <2>9 DEF ClaimsAndAttempts
<1> QED BY <1>3, <1>4, <1>5 DEF MarkDispatched, AttemptExists

LEMMA RecordResultKeeps ==
    ASSUME TypeOK, ClaimsAndAttempts, NEW w \in Workers, RecordResult(w)
    PROVE  ClaimsAndAttempts'
<1> DEFINE r == worker[w].run
           row == [attempt[r] EXCEPT !.status = "completed", !.answer = worker[w].answer,
                                     !.usage = worker[w].usage]
<1>1. worker[w].pc = "record" /\ UNCHANGED <<run, resv, calls, delivered>>
  BY DEF RecordResult
<1>2. /\ r \in Runs /\ worker[w] \in WorkerMemory /\ WorkerKnows(w)
      /\ worker[w].token \in Tokens /\ attempt[r] \in AttemptRow
  BY <1>1, RunOfBusy
<1>3. delivered[r] /\ worker[w].answer = 1
  BY <1>1, <1>2 DEF WorkerKnows, OutcomeIsDelivered
<1>4. CASE LetGo(w) /\ UNCHANGED attempt
  <2>1. \A q \in Runs : AttemptTellsCalls(q)' /\ UnclaimedIsUntouched(q)'
    BY <1>1, <1>4 DEF ClaimsAndAttempts, AttemptTellsCalls, UnclaimedIsUntouched
  <2> QED BY <1>1, <1>4, <2>1, LetGoKnows DEF ClaimsAndAttempts
<1>5. CASE /\ Fence(w) /\ attempt[r].id = worker[w].token /\ attempt[r].status = "dispatched"
           /\ attempt' = [attempt EXCEPT ![r] = row]
           /\ Goto(w, "validate")
  <2>1. /\ row \in AttemptRow /\ row.id = worker[w].token
        /\ row.status = "completed" /\ row.answer = worker[w].answer
    BY <1>2, <1>5 DEF AttemptRow, AttemptStatus, WorkerMemory
  <2> HIDE DEF row
  <2>2. attempt'[r] = row /\ \A q \in Runs \ {r} : attempt'[q] = attempt[q]
    BY <1>2, <1>5 DEF TypeOK
  <2>3. /\ KeepsOrGivesUp(w)
        /\ worker'[w].pc = "validate"
        /\ worker'[w].run = r
        /\ worker'[w].token = worker[w].token
        /\ worker'[w].answer = worker[w].answer
    BY <1>5, GotoShape DEF WorkerPc
  <2>4. \A v \in Workers \ {w} : WorkerKnows(v)'
    BY <1>1, <1>5, <2>1, <2>3, AttemptWriteKeepsOthers
  <2>5. TokenNames(w)'
    BY <1>1, <2>3, TokensStayDistinct DEF ClaimsAndAttempts, WorkerKnows
  <2>6. WorkerKnows(w)'
    BY <1>1, <2>1, <2>2, <2>3, <2>5 DEF WorkerKnows, NotYetDispatched, OwnsAttempt,
       OutcomeIsDelivered, CarriesStoredResult
  <2>7. ASSUME NEW q \in Runs PROVE AttemptTellsCalls(q)'
    BY <1>1, <1>3, <2>1, <2>2 DEF ClaimsAndAttempts, AttemptTellsCalls
  <2>8. ASSUME NEW q \in Runs PROVE UnclaimedIsUntouched(q)'
    <3>1. run[r].status = "running"
      BY <1>5 DEF Fence, HoldsClaim
    <3> QED BY <1>1, <2>2, <3>1 DEF ClaimsAndAttempts, UnclaimedIsUntouched
  <2> QED BY <2>4, <2>6, <2>7, <2>8 DEF ClaimsAndAttempts
<1> QED BY <1>4, <1>5 DEF RecordResult, AttemptExists

\* A run that leaves "running" is neither unclaimed nor not started.
LEMMA EndedIsNotUnclaimed ==
    ASSUME TypeOK, ClaimsAndAttempts, NEW r \in Runs,
           NEW status \in {"succeeded", "failed", "reconciliation_required"},
           NEW type, LeaveRunning(r, status, type),
           \A q \in Runs \ {r} : attempt'[q] = attempt[q] /\ resv'[q] = resv[q]
    PROVE  \A q \in Runs : UnclaimedIsUntouched(q)'
<1>1. run'[r].status = status /\ \A q \in Runs \ {r} : run'[q] = run[q]
  BY DEF LeaveRunning, TypeOK
<1> QED BY <1>1 DEF ClaimsAndAttempts, UnclaimedIsUntouched

\* FinishRun and FailUnsent end the run and let the claim go; the attempt stays.
LEMMA EndWithoutAttemptKeeps ==
    ASSUME TypeOK, ClaimsAndAttempts, NEW w \in Workers, FinishRun(w) \/ FailUnsent(w)
    PROVE  ClaimsAndAttempts'
<1> DEFINE r == worker[w].run
<1>1. /\ worker[w].pc # "idle" /\ LetGo(w)
      /\ UNCHANGED <<attempt, calls, delivered>>
  BY DEF FinishRun, FailUnsent
<1>2. r \in Runs
  BY <1>1, RunOfBusy
<1>3. \A v \in Workers : WorkerKnows(v)'
  BY <1>1, LetGoKnows
<1>4. \A q \in Runs : AttemptTellsCalls(q)'
  BY <1>1 DEF ClaimsAndAttempts, AttemptTellsCalls
<1>5. \A q \in Runs : UnclaimedIsUntouched(q)'
  <2>1. CASE UNCHANGED <<run, resv>>
    BY <1>1, <2>1 DEF ClaimsAndAttempts, UnclaimedIsUntouched
  <2>2. CASE /\ \/ LeaveRunning(r, "succeeded", "run.succeeded")
                \/ LeaveRunning(r, "failed", "run.failed")
             /\ \A q \in Runs \ {r} : resv'[q] = resv[q]
    BY <1>1, <1>2, <2>2, EndedIsNotUnclaimed
  <2>3. \A q \in Runs \ {r} : resv'[q] = resv[q]
    BY <1>2 DEF FinishRun, FailUnsent, KeepExposure, Settle, TypeOK
  <2> QED BY <2>1, <2>2, <2>3 DEF FinishRun, FailUnsent
<1> QED BY <1>3, <1>4, <1>5 DEF ClaimsAndAttempts

\* FailSent and RequireReconciliation decide the worker's own attempt and end the run.
LEMMA EndWithAttemptKeeps ==
    ASSUME TypeOK, ClaimsAndAttempts, NEW w \in Workers,
           FailSent(w) \/ RequireReconciliation(w)
    PROVE  ClaimsAndAttempts'
<1> DEFINE r == worker[w].run
<1>1. /\ worker[w].pc = "reconcile" \/ (worker[w].pc = "fail" /\ worker[w].sent)
      /\ LetGo(w)
      /\ UNCHANGED <<calls, delivered>>
  BY DEF FailSent, RequireReconciliation
<1>2. /\ r \in Runs /\ worker[w] \in WorkerMemory /\ worker[w].pc # "idle"
      /\ attempt[r] \in AttemptRow
      /\ attempt[r].status = "dispatched" /\ attempt[r].id = worker[w].token
  BY <1>1, RunOfBusy DEF WorkerKnows, OwnsAttempt
<1>3. CASE UNCHANGED <<run, resv, attempt>>
  <2>1. \A q \in Runs : AttemptTellsCalls(q)' /\ UnclaimedIsUntouched(q)'
    BY <1>1, <1>3 DEF ClaimsAndAttempts, AttemptTellsCalls, UnclaimedIsUntouched
  <2> QED BY <1>1, <1>2, <1>3, <2>1, LetGoKnows DEF ClaimsAndAttempts
<1>4. ASSUME NEW status \in {"failed", "unknown"},
             attempt' = [attempt EXCEPT ![r] = [@ EXCEPT !.status = status]],
             \A q \in Runs \ {r} : resv'[q] = resv[q],
             \/ LeaveRunning(r, "failed", "run.failed")
             \/ LeaveRunning(r, "reconciliation_required", "run.reconciliation_required")
      PROVE  ClaimsAndAttempts'
  <2> DEFINE row == [attempt[r] EXCEPT !.status = status]
  <2>1. /\ row \in AttemptRow /\ row.id = worker[w].token /\ row.status = status
        /\ row.answer = attempt[r].answer /\ attempt' = [attempt EXCEPT ![r] = row]
    BY <1>2, <1>4 DEF AttemptRow, AttemptStatus
  <2> HIDE DEF row
  <2>2. attempt'[r] = row /\ \A q \in Runs \ {r} : attempt'[q] = attempt[q]
    BY <1>2, <2>1 DEF TypeOK
  <2>3. KeepsOrGivesUp(w) /\ worker'[w] = IdleWorker
    BY <1>1, LetGoShape
  <2>4. \A v \in Workers \ {w} : WorkerKnows(v)'
    BY <1>1, <1>2, <2>1, <2>3, AttemptWriteKeepsOthers
  <2>5. WorkerKnows(w)'
    BY <1>2, <2>3, IdleKnows
  <2>6. ASSUME NEW q \in Runs PROVE AttemptTellsCalls(q)'
    BY <1>1, <1>2, <2>1, <2>2 DEF ClaimsAndAttempts, AttemptTellsCalls
  <2>7. \A q \in Runs : UnclaimedIsUntouched(q)'
    BY <1>2, <1>4, <2>2, EndedIsNotUnclaimed
  <2> QED BY <2>4, <2>5, <2>6, <2>7 DEF ClaimsAndAttempts
<1>5. \A q \in Runs \ {r} : resv'[q] = resv[q]
  BY <1>2 DEF FailSent, RequireReconciliation, KeepExposure, Settle, TypeOK
<1> QED BY <1>2, <1>3, <1>4, <1>5 DEF FailSent, RequireReconciliation, KeepExposure

-----------------------------------------------------------------------------
(* The user, the lease and the claim.                                      *)

LEMMA UserStepsKeep ==
    ASSUME TypeOK, ClaimsAndAttempts, NEW r \in Runs,
           (\E q \in QuestionLengths : StartRun(r, q)) \/ ExpireLease(r)
    PROVE  ClaimsAndAttempts'
<1>1. UNCHANGED <<attempt, calls, delivered>>
  BY DEF StartRun, ExpireLease
<1>2. \A q \in Runs : AttemptTellsCalls(q)'
  BY <1>1 DEF ClaimsAndAttempts, AttemptTellsCalls
<1>3. \A q \in Runs : UnclaimedIsUntouched(q)'
  <2>1. ASSUME NEW n \in QuestionLengths, StartRun(r, n)
        PROVE  \A q \in Runs : UnclaimedIsUntouched(q)'
    <3>1. /\ run[r].status = "none" /\ run' = [run EXCEPT ![r].status = "queued"]
          /\ \A q \in Runs \ {r} : resv'[q] = resv[q]
      BY <2>1 DEF StartRun, TypeOK
    <3>2. run'[r].status = "queued" /\ \A q \in Runs \ {r} : run'[q] = run[q]
      BY <3>1 DEF TypeOK, RunRow
    <3> QED BY <1>1, <3>1, <3>2 DEF ClaimsAndAttempts, UnclaimedIsUntouched
  <2>2. CASE ExpireLease(r)
    <3>1. run' = [run EXCEPT ![r].live = FALSE] /\ UNCHANGED resv
      BY <2>2 DEF ExpireLease
    <3>2. \A q \in Runs : run'[q].status = run[q].status
      BY <3>1 DEF TypeOK, RunRow
    <3> QED BY <1>1, <3>1, <3>2 DEF ClaimsAndAttempts, UnclaimedIsUntouched
  <2> QED BY <2>1, <2>2
<1>4. \A w \in Workers : WorkerKnows(w)'
  <2> DEFINE Same(w) == /\ worker'[w].pc = worker[w].pc
                        /\ worker'[w].run = worker[w].run
                        /\ worker'[w].token = worker[w].token
                        /\ worker'[w].sent = worker[w].sent
                        /\ worker'[w].answer = worker[w].answer
  <2>1. \A w \in Workers : Same(w)
    <3>1. CASE UNCHANGED worker
      BY <3>1
    <3>2. ASSUME NEW v \in Workers, worker' = [worker EXCEPT ![v].early = TRUE]
          PROVE  \A w \in Workers : Same(w)
      BY <3>2 DEF TypeOK, WorkerMemory
    <3>3. UNCHANGED worker \/ \E v \in Workers : worker' = [worker EXCEPT ![v].early = TRUE]
      BY DEF StartRun, ExpireLease
    <3> QED BY <3>1, <3>2, <3>3
  <2>2. ASSUME NEW w \in Workers PROVE WorkerKnows(w)'
    <3>1. WorkerKnows(w)
      BY DEF ClaimsAndAttempts
    <3>2. TokenNames(w)'
      BY <2>1, <3>1 DEF WorkerKnows, TokenNames
    <3> QED BY <1>1, <2>1, <3>1, <3>2 DEF WorkerKnows, NotYetDispatched, OwnsAttempt,
            OutcomeIsDelivered, CarriesStoredResult
  <2> QED BY <2>2
<1> QED BY <1>2, <1>3, <1>4 DEF ClaimsAndAttempts

LEMMA ClaimRunKeeps ==
    ASSUME TypeOK, ClaimsAndAttempts, NEW w \in Workers, NEW r \in Runs, ClaimRun(w, r)
    PROVE  ClaimsAndAttempts'
<1> DEFINE m == [IdleWorker EXCEPT !.pc = "lookup", !.run = r, !.token = FreshToken]
<1>1. /\ worker[w].pc = "idle" /\ worker' = [worker EXCEPT ![w] = m]
      /\ UNCHANGED <<attempt, resv, calls, delivered>>
      /\ run' = [run EXCEPT ![r] = [status |-> "running", token |-> FreshToken,
                                    live |-> TRUE]]
  BY DEF ClaimRun
<1>2. /\ FreshToken \in Tokens
      /\ \A v \in Workers : worker[v].token # FreshToken
      /\ \A q \in Runs : attempt[q].id # FreshToken
  BY FreshTokenIsNew DEF ClaimRun, UsedTokens
<1>3. m.pc = "lookup" /\ m.run = r /\ m.token = FreshToken
  BY DEF IdleWorker
<1> HIDE DEF m
<1>4. worker'[w] = m /\ \A v \in Workers \ {w} : worker'[v] = worker[v]
  BY <1>1 DEF TypeOK
<1>5. ASSUME NEW v \in Workers PROVE WorkerKnows(v)'
  <2>1. WorkerKnows(v)
    BY DEF ClaimsAndAttempts
  <2>2. CASE v = w
    <3>1. TokenNames(w)'
      BY <1>2, <1>3, <1>4 DEF TokenNames
    <3> QED BY <1>1, <1>2, <1>3, <1>4, <2>2, <3>1 DEF WorkerKnows, NotYetDispatched,
            OwnsAttempt, OutcomeIsDelivered, CarriesStoredResult
  <2>3. CASE v # w
    <3>1. TokenNames(v)'
      BY <1>2, <1>3, <1>4, <2>1, <2>3 DEF WorkerKnows, TokenNames
    <3> QED BY <1>1, <1>4, <2>1, <2>3, <3>1 DEF WorkerKnows, NotYetDispatched,
            OwnsAttempt, OutcomeIsDelivered, CarriesStoredResult
  <2> QED BY <2>2, <2>3
<1>6. ASSUME NEW q \in Runs PROVE AttemptTellsCalls(q)' /\ UnclaimedIsUntouched(q)'
  <2>1. run'[q].status = "running" \/ run'[q] = run[q]
    BY <1>1 DEF TypeOK
  <2> QED BY <1>1, <2>1 DEF ClaimsAndAttempts, AttemptTellsCalls, UnclaimedIsUntouched
<1> QED BY <1>5, <1>6 DEF ClaimsAndAttempts

LEMMA InitClaims == Init => ClaimsAndAttempts
<1> SUFFICES ASSUME Init PROVE ClaimsAndAttempts
  OBVIOUS
<1>1. \A w \in Workers : worker[w].pc = "idle" /\ worker[w].token = NoToken
  BY DEF Init, IdleWorker
<1>2. \A w \in Workers : WorkerKnows(w)
  BY <1>1 DEF WorkerKnows, TokenNames, NotYetDispatched, OwnsAttempt, OutcomeIsDelivered,
     CarriesStoredResult
<1>3. \A r \in Runs : AttemptTellsCalls(r) /\ UnclaimedIsUntouched(r)
  BY DEF Init, NoAttempt, AttemptTellsCalls, UnclaimedIsUntouched
<1> QED BY <1>2, <1>3 DEF ClaimsAndAttempts

LEMMA StepClaims == TypeInv /\ ClaimsAndAttempts /\ [Next]_vars => ClaimsAndAttempts'
<1> SUFFICES ASSUME TypeOK, ClaimsAndAttempts, [Next]_vars PROVE ClaimsAndAttempts'
  BY DEF TypeInv
<1>1. CASE UNCHANGED vars
  BY <1>1 DEF vars, ClaimsAndAttempts, WorkerKnows, TokenNames, NotYetDispatched,
     OwnsAttempt, OutcomeIsDelivered, CarriesStoredResult, AttemptTellsCalls,
     UnclaimedIsUntouched
<1>2. CASE Next
  BY <1>2, UserStepsKeep, ClaimRunKeeps, ReadingStepsKeep, MarkDispatchedKeeps,
     RecordResultKeeps, EndWithoutAttemptKeeps, EndWithAttemptKeeps DEF Next, WorkerStep
<1> QED BY <1>1, <1>2

\* What every worker knows of its run is true, whatever crashes, reclaims and late
\* steps there are.
THEOREM ClaimsAreSound == Spec => []ClaimsAndAttempts
<1>1. Init => TypeInv /\ ClaimsAndAttempts
  BY InitTypeOK, InitClaims DEF TypeInv, BusyWorkersHaveRuns, Init, IdleWorker
<1> QED BY <1>1, StepType, StepClaims, PTL DEF Spec

\* However often a run is reclaimed, replayed or interrupted, the worker loop of
\* service.execute and replay calls provider.generate at most once for it.
THEOREM ProviderCalledAtMostOnce == Spec => []AtMostOneProviderCall
<1>1. ClaimsAndAttempts => AtMostOneProviderCall
  BY DEF ClaimsAndAttempts, AttemptTellsCalls, AtMostOneProviderCall
<1> QED BY <1>1, ClaimsAreSound, PTL

-----------------------------------------------------------------------------
(* Who writes a run, and when it is final.                                 *)

SameRows(q) ==
    run'[q] = run[q] /\ attempt'[q] = attempt[q] /\ resv'[q] = resv[q] /\ answer'[q] = answer[q]

\* A worker writes the rows of its own run only, and only while it holds the claim.
LEMMA WriterHoldsClaim ==
    ASSUME TypeOK, ClaimsAndAttempts, NEW w \in Workers,
           \/ MarkDispatched(w) \/ RecordResult(w) \/ FinishRun(w)
           \/ FailUnsent(w) \/ FailSent(w) \/ RequireReconciliation(w)
    PROVE  /\ worker[w].run \in Runs
           /\ \A q \in Runs \ {worker[w].run} : SameRows(q)
           /\ UNCHANGED <<run, attempt, resv, answer>> \/ HoldsClaim(w)
           /\ worker'[w] # worker[w]
           /\ UNCHANGED delivered
<1> DEFINE r == worker[w].run
<1>1. worker[w].pc # "idle"
  BY DEF MarkDispatched, RecordResult, FinishRun, FailUnsent, FailSent,
     RequireReconciliation
<1>2. r \in Runs
  BY <1>1, RunOfBusy
<1>3. \A q \in Runs \ {r} : SameRows(q)
  BY <1>2 DEF MarkDispatched, RecordResult, FinishRun, FailUnsent, FailSent,
     RequireReconciliation, Settle, KeepExposure, LeaveRunning, SameRows, TypeOK
<1>4. UNCHANGED <<run, attempt, resv, answer>> \/ HoldsClaim(w)
  BY DEF MarkDispatched, RecordResult, FinishRun, FailUnsent, FailSent,
     RequireReconciliation, Settle, KeepExposure, LeaveRunning, Fence
<1>5. worker'[w].pc # worker[w].pc
  <2>1. CASE LetGo(w)
    BY <1>1, <2>1, LetGoShape DEF IdleWorker
  <2>2. CASE Goto(w, "call") /\ worker[w].pc = "dispatch"
    BY <2>2, GotoShape DEF WorkerPc
  <2>3. CASE Goto(w, "validate") /\ worker[w].pc = "record"
    BY <2>3, GotoShape DEF WorkerPc
  <2> QED BY <2>1, <2>2, <2>3 DEF MarkDispatched, RecordResult, FinishRun, FailUnsent,
          FailSent, RequireReconciliation
<1>6. UNCHANGED delivered
  BY DEF MarkDispatched, RecordResult, FinishRun, FailUnsent, FailSent,
     RequireReconciliation
<1> QED BY <1>2, <1>3, <1>4, <1>5, <1>6

\* The steps that are not a worker's writing step leave attempts and answers alone;
\* of the others they change only what makes a run queued or running.
LEMMA OtherStepsKeepRows ==
    ASSUME TypeOK, ClaimsAndAttempts, NEW q \in Runs,
           \/ \E r \in Runs, n \in QuestionLengths : StartRun(r, n)
           \/ \E r \in Runs : ExpireLease(r)
           \/ \E w \in Workers, r \in Runs : ClaimRun(w, r)
           \/ \E w \in Workers :
                \/ FindStoredResult(w) \/ Replay(w) \/ BuildContext(w) \/ CallProvider(w)
                \/ ProviderReturns(w) \/ ValidateCitations(w) \/ Crash(w)
    PROVE  /\ attempt'[q] = attempt[q] /\ answer'[q] = answer[q]
           /\ delivered[q] => delivered'[q]
           /\ \/ run'[q].status = run[q].status /\ resv'[q] = resv[q]
              \/ /\ run[q].status = "none" /\ run'[q].status = "queued"
                 /\ resv'[q].state = "held"
              \/ /\ run[q].status \in {"queued", "running"} /\ run'[q].status = "running"
                 /\ resv'[q] = resv[q]
<1>1. ASSUME NEW r \in Runs, NEW n \in QuestionLengths, StartRun(r, n)
      PROVE  /\ UNCHANGED <<attempt, answer, delivered>>
             /\ \/ SameRows(q)
                \/ /\ run[q].status = "none" /\ run'[q].status = "queued"
                   /\ resv'[q].state = "held"
  BY <1>1 DEF StartRun, SameRows, TypeOK, RunRow
<1>2. ASSUME NEW r \in Runs, ExpireLease(r)
      PROVE  UNCHANGED <<attempt, answer, delivered, resv>> /\ run'[q].status = run[q].status
  <2>1. UNCHANGED run \/ run' = [run EXCEPT ![r].live = FALSE]
    BY <1>2 DEF ExpireLease
  <2>2. run \in [Runs -> RunRow]
    BY DEF TypeOK
  <2>3. run'[q].status = run[q].status
    <3>1. CASE UNCHANGED run
      BY <3>1
    <3>2. CASE run' = [run EXCEPT ![r].live = FALSE]
      BY <2>2, <3>2 DEF RunRow
    <3> QED BY <2>1, <3>1, <3>2
  <2> QED BY <1>2, <2>3 DEF ExpireLease
<1>3. ASSUME NEW w \in Workers, NEW r \in Runs, ClaimRun(w, r)
      PROVE  /\ UNCHANGED <<attempt, answer, delivered, resv>>
             /\ \/ run'[q] = run[q]
                \/ run[q].status \in {"queued", "running"} /\ run'[q].status = "running"
  <2>1. run[r].status \in {"queued", "running"}
    BY <1>3 DEF ClaimRun, Selected, Claimable, LeaseExpired
  <2>2. run' = [run EXCEPT ![r] = [status |-> "running", token |-> FreshToken, live |-> TRUE]]
    BY <1>3 DEF ClaimRun
  <2>3. run'[q] = run[q] \/ (q = r /\ run'[q].status = "running")
    BY <2>2 DEF TypeOK
  <2> QED BY <1>3, <2>1, <2>3 DEF ClaimRun
<1>4. ASSUME NEW w \in Workers, CallProvider(w)
      PROVE  /\ UNCHANGED <<attempt, answer, run, resv>>
             /\ delivered[q] => delivered'[q]
  BY <1>4 DEF CallProvider, TypeOK
<1>5. ASSUME NEW w \in Workers,
             \/ FindStoredResult(w) \/ Replay(w) \/ BuildContext(w)
             \/ ProviderReturns(w) \/ ValidateCitations(w) \/ Crash(w)
      PROVE  UNCHANGED <<attempt, answer, run, resv, delivered>>
  BY <1>5 DEF FindStoredResult, Replay, BuildContext, ProviderReturns, ValidateCitations,
     Crash
<1> QED BY <1>1, <1>2, <1>3, <1>4, <1>5 DEF SameRows

\* HolderOnlyWrites for one step: only the holder of the claim writes a run's rows.
LEMMA StepHolderOnlyWrites ==
    ASSUME TypeOK, ClaimsAndAttempts, Next, NEW r \in Runs,
           \/ attempt'[r] # attempt[r]
           \/ answer'[r] # answer[r]
           \/ resv[r].state # "none" /\ resv'[r] # resv[r]
           \/ run[r].status \notin {"none", "queued"} /\ run'[r].status # run[r].status
    PROVE  /\ run[r].status = "running"
           /\ \E w \in Workers : /\ worker[w].run = r
                                 /\ worker[w].token = run[r].token
                                 /\ worker'[w] # worker[w]
<1>1. PICK w \in Workers :
          \/ MarkDispatched(w) \/ RecordResult(w) \/ FinishRun(w)
          \/ FailUnsent(w) \/ FailSent(w) \/ RequireReconciliation(w)
  <2>1. run[r].status = "none" => resv[r].state = "none"
    BY DEF ClaimsAndAttempts, UnclaimedIsUntouched
  <2> QED BY <2>1, OtherStepsKeepRows DEF Next, WorkerStep
<1>2. ~SameRows(r) /\ ~UNCHANGED <<run, attempt, resv, answer>>
  BY DEF SameRows
<1>3. worker[w].run = r
  BY <1>1, <1>2, WriterHoldsClaim
<1> QED BY <1>1, <1>2, <1>3, WriterHoldsClaim DEF HoldsClaim

\* The attempt, the reservation, the answer and the outcome of a run are written by
\* the holder of its claim token only: the fence of _require_live_claim_row, checked
\* in the writing transaction, keeps out every late worker.
THEOREM OnlyTheHolderWrites == Spec => HolderOnlyWrites
<1>1. TypeInv /\ ClaimsAndAttempts /\ [Next]_vars =>
        [\A r \in Runs :
            \/ attempt'[r] # attempt[r]
            \/ answer'[r] # answer[r]
            \/ resv[r].state # "none" /\ resv'[r] # resv[r]
            \/ run[r].status \notin {"none", "queued"} /\ run'[r].status # run[r].status
            => /\ run[r].status = "running"
               /\ \E w \in Workers : /\ worker[w].run = r
                                     /\ worker[w].token = run[r].token
                                     /\ worker'[w] # worker[w]]_vars
  BY StepHolderOnlyWrites DEF TypeInv
<1>2. Init => TypeInv /\ ClaimsAndAttempts
  BY InitTypeOK, InitClaims DEF TypeInv, BusyWorkersHaveRuns, Init, IdleWorker
<1> QED BY <1>1, <1>2, StepType, StepClaims, PTL DEF Spec, HolderOnlyWrites

-----------------------------------------------------------------------------
(* The answer and the cost of a run.                                       *)

AnswerOf(q) ==
    /\ answer[q] # 0 <=> run[q].status = "succeeded"
    /\ answer[q] # 0 => /\ attempt[q].status = "completed"
                        /\ attempt[q].answer = answer[q]
                        /\ delivered[q]

CostOf(q) ==
    /\ run[q].status = "queued" => resv[q].state = "held"
    /\ run[q].status = "running" =>
         resv[q].state = IF attempt[q].status = "none" THEN "held" ELSE "in_flight"
    /\ run[q].status = "reconciliation_required" =>
         resv[q].state = "in_flight" /\ attempt[q].status = "unknown"
    /\ run[q].status = "succeeded" => resv[q].state \in {"in_flight", "settled"}
    /\ run[q].status = "failed" => resv[q].state \in {"released", "settled"}
    /\ resv[q].state = "settled" => delivered[q]

\* What the columns hold after the run has left "running".
LEMMA LeaveRunningColumns ==
    ASSUME TypeOK, NEW r \in Runs, NEW status, NEW type, LeaveRunning(r, status, type)
    PROVE  run'[r].status = status
  BY DEF LeaveRunning, TypeOK

LEMMA SettleColumns ==
    ASSUME TypeOK, NEW w \in Workers, worker[w].run \in Runs, Settle(w)
    PROVE  resv'[worker[w].run].state = "settled"
  BY DEF Settle, TypeOK, ReservationRow

\* What a worker's writing step makes of its own run: nothing, or one of the five
\* transitions of the run, the attempt, the reservation and the answer together.
LEMMA WritingStepOfRun ==
    ASSUME TypeOK, ClaimsAndAttempts, NEW w \in Workers, NEW q \in Runs, q = worker[w].run,
           CostOf(q), AnswerOf(q),
           \/ MarkDispatched(w) \/ RecordResult(w) \/ FinishRun(w)
           \/ FailUnsent(w) \/ FailSent(w) \/ RequireReconciliation(w)
    PROVE  CostOf(q)' /\ AnswerOf(q)'
<1>1. /\ worker[w].pc # "idle" /\ WorkerKnows(w) /\ AttemptTellsCalls(q)
      /\ attempt[q] \in AttemptRow /\ resv[q] \in ReservationRow
      /\ UNCHANGED delivered
  <2>1. worker[w].pc # "idle" /\ UNCHANGED delivered
    BY DEF MarkDispatched, RecordResult, FinishRun, FailUnsent, FailSent,
       RequireReconciliation
  <2> QED BY <2>1, RunOfBusy DEF TypeOK
<1>2. CASE UNCHANGED <<run, attempt, resv, answer>>
  BY <1>1, <1>2 DEF CostOf, AnswerOf
<1>3. CASE ~UNCHANGED <<run, attempt, resv, answer>>
  <2>1. run[q].status = "running" /\ answer[q] = 0
    BY <1>3, WriterHoldsClaim DEF HoldsClaim, AnswerOf
  <2>2. CASE MarkDispatched(w)
    <3>1. /\ UNCHANGED <<run, answer>>
          /\ resv' = [resv EXCEPT ![q].state = "in_flight"]
          /\ attempt' = [attempt EXCEPT ![q] =
               [NoAttempt EXCEPT !.status = "dispatched", !.id = worker[w].token]]
      BY <1>3, <2>2 DEF MarkDispatched
    <3>2. resv'[q].state = "in_flight"
      BY <1>1, <3>1 DEF TypeOK, ReservationRow
    <3>3. attempt'[q].status = "dispatched"
      BY <3>1 DEF TypeOK, NoAttempt
    <3> QED BY <2>1, <3>1, <3>2, <3>3 DEF CostOf, AnswerOf
  <2>3. CASE RecordResult(w)
    <3>1. /\ UNCHANGED <<run, answer, resv>> /\ attempt[q].status = "dispatched"
          /\ attempt' = [attempt EXCEPT ![q] =
               [@ EXCEPT !.status = "completed", !.answer = worker[w].answer,
                         !.usage = worker[w].usage]]
      BY <1>3, <2>3 DEF RecordResult
    <3>2. attempt'[q].status = "completed"
      BY <1>1, <3>1 DEF TypeOK, AttemptRow
    <3>3. resv[q].state = "in_flight"
      BY <2>1, <3>1 DEF CostOf
    <3> QED BY <1>1, <2>1, <3>1, <3>2, <3>3 DEF CostOf, AnswerOf
  <2>4. CASE FinishRun(w)
    <3>1. /\ UNCHANGED attempt
          /\ answer' = [answer EXCEPT ![q] = worker[w].answer]
          /\ UNCHANGED resv \/ Settle(w)
          /\ LeaveRunning(q, "succeeded", "run.succeeded")
      BY <1>3, <2>4 DEF FinishRun, KeepExposure
    <3>2. /\ attempt[q].status = "completed" /\ attempt[q].answer = worker[w].answer
          /\ attempt[q].answer # 0 /\ delivered[q]
      BY <1>1, <2>4 DEF FinishRun, WorkerKnows, CarriesStoredResult, AttemptTellsCalls
    <3>3. run'[q].status = "succeeded" /\ answer'[q] = attempt[q].answer
      BY <3>1, <3>2, LeaveRunningColumns DEF TypeOK
    <3>4. resv'[q].state \in {"in_flight", "settled"}
      BY <2>1, <3>1, <3>2, SettleColumns DEF CostOf
    <3> QED BY <1>1, <3>1, <3>2, <3>3, <3>4 DEF CostOf, AnswerOf
  <2>5. CASE FailUnsent(w)
    <3>1. /\ UNCHANGED <<attempt, answer>>
          /\ resv' = [resv EXCEPT ![q].state = "released"]
          /\ LeaveRunning(q, "failed", "run.failed")
      BY <1>3, <2>5 DEF FailUnsent
    <3>2. resv'[q].state = "released"
      BY <1>1, <3>1 DEF TypeOK, ReservationRow
    <3>3. run'[q].status = "failed"
      BY <3>1, LeaveRunningColumns
    <3> QED BY <2>1, <3>1, <3>2, <3>3 DEF CostOf, AnswerOf
  <2>6. CASE FailSent(w)
    <3>1. UNCHANGED answer /\ Settle(w) /\ LeaveRunning(q, "failed", "run.failed")
      BY <1>3, <2>6 DEF FailSent
    <3>2. delivered[q]
      BY <1>1, <2>6 DEF FailSent, WorkerKnows, OutcomeIsDelivered
    <3>3. run'[q].status = "failed" /\ resv'[q].state = "settled"
      BY <3>1, LeaveRunningColumns, SettleColumns
    <3> QED BY <1>1, <2>1, <3>1, <3>2, <3>3 DEF CostOf, AnswerOf
  <2>7. CASE RequireReconciliation(w)
    <3>1. /\ UNCHANGED <<answer, resv>>
          /\ attempt' = [attempt EXCEPT ![q].status =
                            IF @ = "dispatched" THEN "unknown" ELSE @]
          /\ LeaveRunning(q, "reconciliation_required", "run.reconciliation_required")
      BY <1>3, <2>7 DEF RequireReconciliation, KeepExposure
    <3>2. attempt[q].status = "dispatched" /\ resv[q].state = "in_flight"
      BY <1>1, <2>1, <2>7 DEF RequireReconciliation, WorkerKnows, OwnsAttempt, CostOf
    <3>3. run'[q].status = "reconciliation_required" /\ attempt'[q].status = "unknown"
      BY <1>1, <3>1, <3>2, LeaveRunningColumns DEF TypeOK, AttemptRow
    <3> QED BY <1>1, <2>1, <3>1, <3>2, <3>3 DEF CostOf, AnswerOf
  <2> QED BY <2>2, <2>3, <2>4, <2>5, <2>6, <2>7
<1> QED BY <1>2, <1>3

\* One step of the system keeps the answer and the cost of every run in order.
LEMMA StepOfRun ==
    ASSUME TypeOK, ClaimsAndAttempts, NEW q \in Runs, CostOf(q), AnswerOf(q), Next
    PROVE  CostOf(q)' /\ AnswerOf(q)'
<1>1. ASSUME NEW w \in Workers,
             \/ MarkDispatched(w) \/ RecordResult(w) \/ FinishRun(w)
             \/ FailUnsent(w) \/ FailSent(w) \/ RequireReconciliation(w)
      PROVE  CostOf(q)' /\ AnswerOf(q)'
  <2>1. CASE worker[w].run = q
    BY <1>1, <2>1, WritingStepOfRun
  <2>2. CASE worker[w].run # q
    BY <1>1, <2>2, WriterHoldsClaim DEF SameRows, CostOf, AnswerOf
  <2> QED BY <2>1, <2>2
<1>2. ASSUME /\ attempt'[q] = attempt[q] /\ answer'[q] = answer[q]
             /\ delivered[q] => delivered'[q]
             /\ \/ run'[q].status = run[q].status /\ resv'[q] = resv[q]
                \/ /\ run[q].status = "none" /\ run'[q].status = "queued"
                   /\ resv'[q].state = "held"
                \/ /\ run[q].status \in {"queued", "running"} /\ run'[q].status = "running"
                   /\ resv'[q] = resv[q]
      PROVE  CostOf(q)' /\ AnswerOf(q)'
  <2>1. run[q].status = "queued" => attempt[q].status = "none"
    BY DEF ClaimsAndAttempts, UnclaimedIsUntouched
  <2> QED BY <1>2, <2>1 DEF CostOf, AnswerOf
<1> QED BY <1>1, <1>2, OtherStepsKeepRows DEF Next, WorkerStep

RunsInOrder == \A q \in Runs : CostOf(q) /\ AnswerOf(q)

LEMMA RunsStayInOrder == Spec => []RunsInOrder
<1>1. Init => TypeInv /\ ClaimsAndAttempts /\ RunsInOrder
  <2>1. Init => RunsInOrder
    BY DEF Init, RunsInOrder, CostOf, AnswerOf
  <2> QED BY <2>1, InitTypeOK, InitClaims
          DEF TypeInv, BusyWorkersHaveRuns, Init, IdleWorker
<1>2. TypeInv /\ ClaimsAndAttempts /\ RunsInOrder /\ [Next]_vars => RunsInOrder'
  <2>1. ASSUME RunsInOrder, UNCHANGED vars PROVE RunsInOrder'
    BY <2>1 DEF vars, RunsInOrder, CostOf, AnswerOf
  <2> QED BY <2>1, StepOfRun DEF TypeInv, RunsInOrder
<1> QED BY <1>1, <1>2, StepType, StepClaims, PTL DEF Spec

\* A run has an answer message iff it succeeded, and the message is the provider's
\* answer that was persisted before it, by whichever worker finished the run.
THEOREM AnswerComesFromTheStore == Spec => []AnswerIsTheStoredResult
<1>1. RunsInOrder => AnswerIsTheStoredResult
  BY DEF RunsInOrder, AnswerOf, AnswerIsTheStoredResult
<1> QED BY <1>1, RunsStayInOrder, PTL

\* The reservation of a run is held, in flight, settled or released as its status and
\* its attempt say: nothing is settled for a request that never arrived, and nothing
\* is given back while the cost is unknown.
THEOREM CostIsFollowed == Spec => []CostFollowsOutcome
<1>1. RunsInOrder => CostFollowsOutcome
  BY DEF RunsInOrder, CostOf, CostFollowsOutcome
<1> QED BY <1>1, RunsStayInOrder, PTL

-----------------------------------------------------------------------------
(* The refinement of RunPromise: the control, run by run.                  *)

NothingIsLost ==
    /\ \A w \in Workers : NoResultToLose(w)
    /\ \A r \in Runs : SentIfDelivered(r)

\* Only a holder stores a result, and it is not one that may fail its run unsent.
LEMMA WriterLosesNothing ==
    ASSUME TypeOK, ClaimsAndAttempts, \A v \in Workers : NoResultToLose(v),
           NEW w \in Workers, NEW v \in Workers,
           \/ MarkDispatched(w) \/ RecordResult(w) \/ FinishRun(w)
           \/ FailUnsent(w) \/ FailSent(w) \/ RequireReconciliation(w)
    PROVE  NoResultToLose(v)'
<1>1. worker[w].pc # "idle" /\ worker[w].run \in Runs
  <2>1. worker[w].pc # "idle"
    BY DEF MarkDispatched, RecordResult, FinishRun, FailUnsent, FailSent,
       RequireReconciliation
  <2> QED BY <2>1, RunOfBusy
<1>2. \/ LetGo(w)
      \/ Goto(w, "call")
      \/ Goto(w, "validate")
  BY DEF MarkDispatched, RecordResult, FinishRun, FailUnsent, FailSent,
     RequireReconciliation
<1>3. KeepsOrGivesUp(w) /\ worker'[w].pc \in {"idle", "call", "validate"}
  BY <1>2, LetGoShape, GotoShape DEF IdleWorker, WorkerPc
<1>4. CASE v = w
  BY <1>3, <1>4 DEF NoResultToLose
<1>5. CASE v # w
  <2>1. worker'[v] = worker[v]
    BY <1>3, <1>5 DEF KeepsOrGivesUp
  <2>2. SUFFICES ASSUME worker[v].pc # "idle", HoldsClaim(v)',
                        \/ worker[v].pc \in {"context", "dispatch"}
                        \/ worker[v].pc = "fail" /\ ~worker[v].sent
                 PROVE  attempt'[worker[v].run].answer = 0
    BY <2>1 DEF NoResultToLose
  <2>3. worker[v].run \in Runs /\ worker[v].token # worker[w].token
    BY <1>1, <1>5, <2>2, RunOfBusy DEF ClaimsAndAttempts, WorkerKnows, TokenNames
  <2>4. /\ run[worker[v].run] = run'[worker[v].run]
        /\ attempt[worker[v].run] = attempt'[worker[v].run]
    <3>1. CASE worker[v].run = worker[w].run /\ HoldsClaim(w)
      <4>1. run'[worker[w].run].token # worker[w].token
        BY <2>1, <2>2, <2>3, <3>1 DEF HoldsClaim
      <4>2. run'[worker[w].run] # run[worker[w].run]
        BY <3>1, <4>1 DEF HoldsClaim
      <4>3. run'[worker[w].run].status # "running"
        BY <1>1, <4>2 DEF MarkDispatched, RecordResult, FinishRun, FailUnsent, FailSent,
           RequireReconciliation, LeaveRunning, TypeOK
      <4> QED BY <2>1, <2>2, <3>1, <4>3 DEF HoldsClaim
    <3>2. CASE worker[v].run # worker[w].run
      BY <2>3, <3>2, WriterHoldsClaim DEF SameRows
    <3>3. CASE UNCHANGED <<run, attempt, resv, answer>>
      BY <3>3
    <3> QED BY <3>1, <3>2, <3>3, WriterHoldsClaim
  <2>5. HoldsClaim(v)
    BY <2>1, <2>2, <2>4 DEF HoldsClaim
  <2> QED BY <2>2, <2>4, <2>5 DEF NoResultToLose
<1> QED BY <1>4, <1>5

\* What the provider returns is for the run that asked.
LEMMA ReturnsToItsRun ==
    ASSUME TypeOK, NEW w \in Workers, ProviderReturns(w)
    PROVE  worker'[w].run = worker[w].run
<1>1. worker[w] \in WorkerMemory /\ worker \in [Workers -> WorkerMemory]
  BY DEF TypeOK
<1>2. CASE Goto(w, "reconcile")
  BY <1>2, GotoShape DEF WorkerPc
<1>3. ASSUME NEW m, m.run = worker[w].run, worker' = [worker EXCEPT ![w] = m]
      PROVE  worker'[w].run = worker[w].run
  BY <1>1, <1>3
<1>4. ASSUME NEW u, NEW n, worker' = [worker EXCEPT ![w] =
                 [@ EXCEPT !.pc = "record", !.usage = u, !.answer = n]]
      PROVE  worker'[w].run = worker[w].run
  <2>1. [worker[w] EXCEPT !.pc = "record", !.usage = u, !.answer = n].run = worker[w].run
    BY <1>1 DEF WorkerMemory
  <2> QED BY <1>3, <1>4, <2>1
<1>5. ASSUME NEW u, worker' = [worker EXCEPT ![w] =
                 [@ EXCEPT !.pc = "fail", !.usage = u, !.sent = TRUE]]
      PROVE  worker'[w].run = worker[w].run
  <2>1. [worker[w] EXCEPT !.pc = "fail", !.usage = u, !.sent = TRUE].run = worker[w].run
    BY <1>1 DEF WorkerMemory
  <2> QED BY <1>3, <1>5, <2>1
<1>6. ASSUME worker' = [worker EXCEPT ![w] = [@ EXCEPT !.pc = "fail", !.sent = FALSE]]
      PROVE  worker'[w].run = worker[w].run
  <2>1. [worker[w] EXCEPT !.pc = "fail", !.sent = FALSE].run = worker[w].run
    BY <1>1 DEF WorkerMemory
  <2> QED BY <1>3, <1>6, <2>1
<1> QED BY <1>2, <1>4, <1>5, <1>6 DEF ProviderReturns

\* A worker that reads comes to such a position without a stored result only.
LEMMA ReaderLosesNothing ==
    ASSUME TypeOK, ClaimsAndAttempts, \A v \in Workers : NoResultToLose(v),
           NEW w \in Workers, NEW v \in Workers,
           \/ FindStoredResult(w) \/ Replay(w) \/ BuildContext(w) \/ CallProvider(w)
           \/ ProviderReturns(w) \/ ValidateCitations(w) \/ Crash(w)
    PROVE  NoResultToLose(v)'
<1>1. UNCHANGED <<run, attempt>> /\ worker[w].pc # "idle"
  BY DEF FindStoredResult, Replay, BuildContext, CallProvider, ProviderReturns,
     ValidateCitations, Crash
<1>2. /\ worker[w].run \in Runs /\ worker[w] \in WorkerMemory
      /\ worker \in [Workers -> WorkerMemory]
      /\ WorkerKnows(w) /\ AttemptTellsCalls(worker[w].run)
  BY <1>1, RunOfBusy DEF TypeOK
<1>3. \A u \in Workers \ {w} : worker'[u] = worker[u]
  BY DEF FindStoredResult, Replay, BuildContext, CallProvider, ProviderReturns,
     ValidateCitations, Crash, Goto, LetGo, TypeOK
<1>4. CASE v # w
  BY <1>1, <1>3, <1>4 DEF NoResultToLose, HoldsClaim
<1>5. CASE v = w
  <2> DEFINE r == worker[w].run
  <2>1. CASE LetGo(w)
    BY <1>5, <2>1, LetGoShape DEF NoResultToLose, IdleWorker
  <2>2. ASSUME NEW pc \in WorkerPc \ {"idle", "context", "dispatch", "fail"}, Goto(w, pc)
        PROVE  NoResultToLose(w)'
    BY <2>2, GotoShape DEF NoResultToLose
  <2>3. ASSUME attempt[r].answer = 0, worker'[w].run = r
        PROVE  NoResultToLose(w)'
    BY <1>1, <2>3 DEF NoResultToLose
  <2>4. CASE FindStoredResult(w)
    <3>1. CASE Goto(w, "context") /\ attempt[r].answer = 0
      BY <1>5, <2>3, <3>1, GotoShape DEF WorkerPc
    <3>2. CASE Goto(w, "reload")
      BY <1>5, <2>2, <3>2 DEF WorkerPc
    <3> QED BY <1>5, <2>1, <2>4, <3>1, <3>2 DEF FindStoredResult
  <2>5. CASE Replay(w)
    <3> DEFINE m == [worker[w] EXCEPT !.pc = "validate", !.early = FALSE,
                                      !.usage = attempt[r].usage,
                                      !.answer = attempt[r].answer]
    <3>1. LetGo(w) \/ worker'[w].pc = "validate"
      <4>1. LetGo(w) \/ worker' = [worker EXCEPT ![w] = m]
        BY <2>5 DEF Replay
      <4>2. m.pc = "validate"
        BY <1>2 DEF WorkerMemory
      <4> HIDE DEF m
      <4> QED BY <1>2, <4>1, <4>2
    <3> QED BY <1>5, <2>1, <3>1 DEF NoResultToLose
  <2>6. CASE BuildContext(w)
    <3>1. worker[w].pc = "context" /\ worker'[w].run = r /\ worker'[w].token = worker[w].token
      <4> DEFINE m == [worker[w] EXCEPT !.pc = "fail", !.sent = FALSE]
      <4>1. Goto(w, "dispatch") \/ worker' = [worker EXCEPT ![w] = m]
        BY <2>6 DEF BuildContext
      <4>2. m.run = r /\ m.token = worker[w].token
        BY <1>2 DEF WorkerMemory
      <4> HIDE DEF m
      <4>3. CASE worker' = [worker EXCEPT ![w] = m]
        BY <1>2, <2>6, <4>2, <4>3 DEF BuildContext
      <4>4. CASE Goto(w, "dispatch")
        BY <2>6, <4>4, GotoShape DEF BuildContext, WorkerPc
      <4> QED BY <4>1, <4>3, <4>4
    <3>2. CASE HoldsClaim(w)
      BY <1>5, <2>3, <3>1, <3>2 DEF NoResultToLose
    <3>3. CASE ~HoldsClaim(w)
      BY <1>1, <1>5, <3>1, <3>3 DEF NoResultToLose, HoldsClaim
    <3> QED BY <3>2, <3>3
  <2>7. CASE CallProvider(w)
    BY <1>5, <2>2, <2>7 DEF CallProvider, WorkerPc
  <2>8. CASE ProviderReturns(w)
    <3>1. attempt[r].answer = 0
      BY <1>2, <2>8 DEF ProviderReturns, WorkerKnows, OwnsAttempt, AttemptTellsCalls
    <3>2. worker'[w].run = r
      BY <2>8, ReturnsToItsRun
    <3> QED BY <1>5, <2>3, <3>1, <3>2
  <2>9. CASE ValidateCitations(w)
    BY <1>5, <2>2, <2>9 DEF ValidateCitations, WorkerPc
  <2>10. CASE Crash(w)
    BY <1>5, <2>1, <2>10 DEF Crash
  <2> QED BY <2>4, <2>5, <2>6, <2>7, <2>8, <2>9, <2>10
<1> QED BY <1>4, <1>5

\* A new run has no result, a lapsed lease gives none, a new claim is nobody else's.
LEMMA UserLosesNothing ==
    ASSUME TypeOK, ClaimsAndAttempts, \A v \in Workers : NoResultToLose(v),
           NEW v \in Workers,
           \/ \E r \in Runs, n \in QuestionLengths : StartRun(r, n)
           \/ \E r \in Runs : ExpireLease(r)
    PROVE  NoResultToLose(v)'
<1>1. UNCHANGED attempt
  BY DEF StartRun, ExpireLease
<1>2. /\ worker'[v].pc = worker[v].pc /\ worker'[v].run = worker[v].run
      /\ worker'[v].token = worker[v].token /\ worker'[v].sent = worker[v].sent
  <2>1. worker \in [Workers -> WorkerMemory]
    BY DEF TypeOK
  <2>2. UNCHANGED worker \/ \E u \in Workers : worker' = [worker EXCEPT ![u].early = TRUE]
    BY DEF StartRun, ExpireLease
  <2>3. ASSUME NEW u \in Workers, worker' = [worker EXCEPT ![u].early = TRUE]
        PROVE  /\ worker'[v].pc = worker[v].pc /\ worker'[v].run = worker[v].run
               /\ worker'[v].token = worker[v].token /\ worker'[v].sent = worker[v].sent
    BY <2>1, <2>3 DEF WorkerMemory
  <2> QED BY <2>2, <2>3
<1>3. SUFFICES ASSUME worker[v].pc # "idle", HoldsClaim(v)' PROVE HoldsClaim(v)
  BY <1>1, <1>2 DEF NoResultToLose
<1>4. worker[v].run \in Runs
  BY <1>3, RunOfBusy
<1>5. ASSUME NEW r \in Runs, NEW n \in QuestionLengths, StartRun(r, n)
      PROVE  HoldsClaim(v)
  <2>1. run'[worker[v].run] = run[worker[v].run] \/ run'[worker[v].run].status = "queued"
    BY <1>4, <1>5 DEF StartRun, TypeOK, RunRow
  <2> QED BY <1>2, <1>3, <2>1 DEF HoldsClaim
<1>6. ASSUME NEW r \in Runs, ExpireLease(r) PROVE HoldsClaim(v)
  <2>1. run' = [run EXCEPT ![r].live = FALSE]
    BY <1>6 DEF ExpireLease
  <2>2. /\ run'[worker[v].run].status = run[worker[v].run].status
        /\ run'[worker[v].run].token = run[worker[v].run].token
    BY <1>4, <2>1 DEF TypeOK, RunRow
  <2> QED BY <1>2, <1>3, <2>2 DEF HoldsClaim
<1> QED BY <1>5, <1>6

LEMMA ClaimLosesNothing ==
    ASSUME TypeOK, ClaimsAndAttempts, \A v \in Workers : NoResultToLose(v),
           NEW v \in Workers, NEW w \in Workers, NEW r \in Runs, ClaimRun(w, r)
    PROVE  NoResultToLose(v)'
<1> DEFINE m == [IdleWorker EXCEPT !.pc = "lookup", !.run = r, !.token = FreshToken]
           row == [status |-> "running", token |-> FreshToken, live |-> TRUE]
<1>1. /\ worker' = [worker EXCEPT ![w] = m] /\ UNCHANGED attempt
      /\ run' = [run EXCEPT ![r] = row]
  BY DEF ClaimRun
<1>2. \A u \in Workers : worker[u].token # FreshToken
  BY FreshTokenIsNew DEF ClaimRun, UsedTokens
<1>3. m.pc = "lookup" /\ row.token = FreshToken
  BY DEF IdleWorker
<1> HIDE DEF m, row
<1>4. CASE v = w
  <2>1. worker'[w].pc = "lookup"
    BY <1>1, <1>3 DEF TypeOK
  <2> QED BY <1>4, <2>1 DEF NoResultToLose
<1>5. CASE v # w
  <2>1. worker'[v] = worker[v]
    BY <1>1, <1>5 DEF TypeOK
  <2>2. run'[worker[v].run] = run[worker[v].run] \/ run'[worker[v].run].token = FreshToken
    BY <1>1, <1>3 DEF TypeOK
  <2>3. HoldsClaim(v)' => HoldsClaim(v)
    BY <1>2, <2>1, <2>2 DEF HoldsClaim
  <2> QED BY <1>1, <2>1, <2>3 DEF NoResultToLose
<1> QED BY <1>4, <1>5

LEMMA StepSends ==
    ASSUME TypeOK, ClaimsAndAttempts, NEW r \in Runs, SentIfDelivered(r), Next
    PROVE  SentIfDelivered(r)'
<1>1. ASSUME NEW w \in Workers, CallProvider(w) PROVE SentIfDelivered(r)'
  <2>1. worker[w].run \in Runs
    BY <1>1, RunOfBusy DEF CallProvider
  <2>2. r # worker[w].run => calls'[r] = calls[r] /\ delivered'[r] = delivered[r]
    BY <1>1, <2>1 DEF CallProvider, TypeOK
  <2>3. calls'[worker[w].run] > 0
    BY <1>1, <2>1 DEF CallProvider, TypeOK
  <2>4. CASE r = worker[w].run
    BY <2>3, <2>4 DEF SentIfDelivered
  <2>5. CASE r # worker[w].run
    BY <2>2, <2>5 DEF SentIfDelivered
  <2> QED BY <2>4, <2>5
<1>2. ASSUME UNCHANGED <<calls, delivered>> PROVE SentIfDelivered(r)'
  BY <1>2 DEF SentIfDelivered
<1>3. UNCHANGED <<calls, delivered>> \/ \E w \in Workers : CallProvider(w)
  BY DEF Next, WorkerStep, StartRun, ExpireLease, ClaimRun, FindStoredResult, Replay,
     BuildContext, MarkDispatched, ProviderReturns, RecordResult, ValidateCitations,
     FinishRun, FailUnsent, FailSent, RequireReconciliation, Crash, provider
<1> QED BY <1>1, <1>2, <1>3

LEMMA StepLosesNothing ==
    TypeInv /\ ClaimsAndAttempts /\ NothingIsLost /\ [Next]_vars => NothingIsLost'
<1> SUFFICES ASSUME TypeOK, ClaimsAndAttempts, NothingIsLost, [Next]_vars
             PROVE  NothingIsLost'
  BY DEF TypeInv
<1>1. CASE UNCHANGED vars
  BY <1>1 DEF vars, rows, provider, NothingIsLost, NoResultToLose, HoldsClaim,
     SentIfDelivered
<1>2. CASE Next
  <2>1. \A r \in Runs : SentIfDelivered(r)'
    BY <1>2, StepSends DEF NothingIsLost
  <2>2. ASSUME NEW v \in Workers PROVE NoResultToLose(v)'
    <3>1. \A u \in Workers : NoResultToLose(u)
      BY DEF NothingIsLost
    <3> QED BY <1>2, <3>1, WriterLosesNothing, ReaderLosesNothing, UserLosesNothing,
            ClaimLosesNothing DEF Next, WorkerStep
  <2> QED BY <2>1, <2>2 DEF NothingIsLost
<1> QED BY <1>1, <1>2

LEMMA NothingGetsLost == Spec => []NothingIsLost
<1>1. Init => TypeInv /\ ClaimsAndAttempts /\ NothingIsLost
  <2>1. Init => NothingIsLost
    BY DEF Init, IdleWorker, NothingIsLost, NoResultToLose, SentIfDelivered
  <2> QED BY <2>1, InitTypeOK, InitClaims
          DEF TypeInv, BusyWorkersHaveRuns, Init, IdleWorker
<1> QED BY <1>1, StepType, StepClaims, StepLosesNothing, PTL DEF Spec

\* What RunPromise sees of a run.
SameView(q) ==
    /\ Phase(q)' = Phase(q)
    /\ Request(q)' = Request(q)
    /\ attempt'[q].answer = attempt[q].answer
    /\ answer'[q] = answer[q]
    /\ resv'[q].state = resv[q].state

SameAnswers(q) == attempt'[q].answer = attempt[q].answer /\ answer'[q] = answer[q]

\* The moves of RunPromise, for the columns of one run.
Opens(q) ==
    /\ Phase(q) = "none" /\ Phase(q)' = "open" /\ resv'[q].state = "held"
    /\ Request(q)' = Request(q) /\ SameAnswers(q)

Announces(q) ==
    /\ Phase(q) = "open" /\ Request(q) = "unsent" /\ resv[q].state = "held"
    /\ Phase(q)' = "open" /\ Request(q)' = "dispatched" /\ resv'[q].state = "in_flight"
    /\ SameAnswers(q)

Asks(q) ==
    /\ Request(q) = "dispatched" /\ Request(q)' \in {"lost", "received"}
    /\ Phase(q)' = Phase(q) /\ resv'[q].state = resv[q].state /\ SameAnswers(q)

Stores(q) ==
    /\ Phase(q) = "open" /\ Request(q) = "received" /\ attempt[q].answer = 0
    /\ attempt'[q].answer = 1
    /\ Phase(q)' = Phase(q) /\ Request(q)' = Request(q) /\ answer'[q] = answer[q]
    /\ resv'[q].state = resv[q].state

Succeeds(q) ==
    /\ Phase(q) = "open" /\ attempt[q].answer # 0 /\ resv[q].state = "in_flight"
    /\ Phase(q)' = "succeeded" /\ answer'[q] = attempt[q].answer
    /\ resv'[q].state \in {"in_flight", "settled"}
    /\ Request(q)' = Request(q) /\ attempt'[q].answer = attempt[q].answer

Fails(q) ==
    /\ Phase(q) = "open" /\ attempt[q].answer = 0 /\ Phase(q)' = "failed"
    /\ \/ resv'[q].state = "released"
       \/ /\ Request(q) = "received" /\ resv[q].state = "in_flight"
          /\ resv'[q].state = "settled"
    /\ Request(q)' = Request(q) /\ SameAnswers(q)

HandsOver(q) ==
    /\ Phase(q) = "open" /\ attempt[q].answer = 0 /\ resv[q].state = "in_flight"
    /\ Request(q) \in {"lost", "received"} /\ Phase(q)' = "reconciliation_required"
    /\ Request(q)' = Request(q) /\ SameAnswers(q) /\ resv'[q].state = resv[q].state

MovesAsPromised(q) ==
    \/ Opens(q) \/ Announces(q) \/ Asks(q) \/ Stores(q) \/ Succeeds(q) \/ Fails(q)
    \/ HandsOver(q)

\* A worker's writing step is a move of its own run, or changes nothing.
LEMMA WriterMoves ==
    ASSUME TypeOK, ClaimsAndAttempts, NEW w \in Workers, NoResultToLose(w),
           NEW q \in Runs, q = worker[w].run, CostOf(q), AnswerOf(q),
           ~UNCHANGED <<run, attempt, resv, answer>>,
           \/ MarkDispatched(w) \/ RecordResult(w) \/ FinishRun(w)
           \/ FailUnsent(w) \/ FailSent(w) \/ RequireReconciliation(w)
    PROVE  MovesAsPromised(q)
<1>1. /\ worker[w].pc # "idle" /\ WorkerKnows(w) /\ AttemptTellsCalls(q)
      /\ attempt[q] \in AttemptRow /\ resv[q] \in ReservationRow
      /\ calls[q] \in Nat /\ delivered[q] \in BOOLEAN
      /\ UNCHANGED provider
  <2>1. worker[w].pc # "idle" /\ UNCHANGED provider
    BY DEF MarkDispatched, RecordResult, FinishRun, FailUnsent, FailSent,
       RequireReconciliation
  <2> QED BY <2>1, RunOfBusy DEF TypeOK
<1>2. run[q].status = "running" /\ answer[q] = 0 /\ Phase(q) = "open" /\ HoldsClaim(w)
  BY WriterHoldsClaim DEF HoldsClaim, AnswerOf, Phase
<1>3. CASE MarkDispatched(w)
  <2>1. /\ UNCHANGED <<run, answer>>
        /\ resv[q].state = "held" /\ attempt[q].status = "none"
        /\ resv' = [resv EXCEPT ![q].state = "in_flight"]
        /\ attempt' = [attempt EXCEPT ![q] =
             [NoAttempt EXCEPT !.status = "dispatched", !.id = worker[w].token]]
    BY <1>3 DEF MarkDispatched
  <2>2. resv'[q].state = "in_flight"
    BY <1>1, <2>1 DEF TypeOK, ReservationRow
  <2>3. attempt'[q].status = "dispatched" /\ attempt'[q].answer = 0
    BY <2>1 DEF TypeOK, NoAttempt
  <2>4. calls[q] = 0 /\ ~delivered[q] /\ attempt[q].answer = 0
    BY <1>1, <2>1 DEF AttemptTellsCalls
  <2>5. Request(q) = "unsent" /\ Request(q)' = "dispatched"
    BY <1>1, <2>1, <2>3, <2>4 DEF Request, provider
  <2>6. Phase(q)' = "open"
    BY <1>2, <2>1 DEF Phase
  <2> QED BY <1>2, <2>1, <2>2, <2>3, <2>4, <2>5, <2>6
          DEF MovesAsPromised, Announces, SameAnswers
<1>4. CASE RecordResult(w)
  <2>1. /\ UNCHANGED <<run, answer, resv>> /\ attempt[q].status = "dispatched"
        /\ attempt' = [attempt EXCEPT ![q] =
             [@ EXCEPT !.status = "completed", !.answer = worker[w].answer,
                       !.usage = worker[w].usage]]
    BY <1>4 DEF RecordResult
  <2>2. delivered[q] /\ worker[w].answer = 1 /\ attempt[q].answer = 0
    BY <1>1, <1>4, <2>1 DEF RecordResult, WorkerKnows, OutcomeIsDelivered, AttemptTellsCalls
  <2>3. attempt'[q].answer = 1
    BY <1>1, <2>1, <2>2 DEF TypeOK, AttemptRow
  <2>4. Request(q) = "received" /\ Request(q)' = "received"
    BY <1>1, <2>2 DEF Request, provider
  <2>5. Phase(q)' = Phase(q)
    BY <2>1 DEF Phase
  <2> QED BY <1>2, <2>1, <2>2, <2>3, <2>4, <2>5 DEF MovesAsPromised, Stores
<1>5. CASE FinishRun(w)
  <2>1. /\ UNCHANGED attempt
        /\ answer' = [answer EXCEPT ![q] = worker[w].answer]
        /\ UNCHANGED resv \/ Settle(w)
        /\ LeaveRunning(q, "succeeded", "run.succeeded")
    BY <1>5 DEF FinishRun, KeepExposure
  <2>2. /\ attempt[q].status = "completed" /\ attempt[q].answer = worker[w].answer
        /\ attempt[q].answer # 0
    BY <1>1, <1>5 DEF FinishRun, WorkerKnows, CarriesStoredResult, AttemptTellsCalls
  <2>3. resv[q].state = "in_flight"
    BY <1>2, <2>2 DEF CostOf
  <2>4. Phase(q)' = "succeeded" /\ answer'[q] = attempt[q].answer
    BY <2>1, <2>2, LeaveRunningColumns DEF TypeOK, Phase
  <2>5. resv'[q].state \in {"in_flight", "settled"}
    BY <2>1, <2>3, SettleColumns
  <2>6. Request(q)' = Request(q)
    BY <1>1, <2>1 DEF Request, provider
  <2> QED BY <1>2, <2>1, <2>2, <2>3, <2>4, <2>5, <2>6 DEF MovesAsPromised, Succeeds
<1>6. CASE FailUnsent(w)
  <2>1. /\ UNCHANGED <<attempt, answer>>
        /\ resv' = [resv EXCEPT ![q].state = "released"]
        /\ LeaveRunning(q, "failed", "run.failed")
    BY <1>6 DEF FailUnsent
  <2>2. resv'[q].state = "released"
    BY <1>1, <2>1 DEF TypeOK, ReservationRow
  <2>3. Phase(q)' = "failed"
    BY <2>1, LeaveRunningColumns DEF Phase
  <2>4. attempt[q].answer = 0
    BY <1>2, <1>6 DEF FailUnsent, NoResultToLose
  <2>5. Request(q)' = Request(q)
    BY <1>1, <2>1 DEF Request, provider
  <2> QED BY <1>2, <2>1, <2>2, <2>3, <2>4, <2>5 DEF MovesAsPromised, Fails, SameAnswers
<1>7. CASE FailSent(w)
  <2>1. /\ UNCHANGED answer /\ Settle(w) /\ LeaveRunning(q, "failed", "run.failed")
        /\ resv[q].state = "in_flight"
        /\ attempt' = [attempt EXCEPT ![q].status = "failed"]
    BY <1>7 DEF FailSent
  <2>2. delivered[q] /\ attempt[q].status = "dispatched" /\ attempt[q].answer = 0
    BY <1>1, <1>7 DEF FailSent, WorkerKnows, OwnsAttempt, OutcomeIsDelivered,
       AttemptTellsCalls
  <2>3. attempt'[q].answer = attempt[q].answer
    BY <1>1, <2>1 DEF TypeOK, AttemptRow
  <2>4. Phase(q)' = "failed" /\ resv'[q].state = "settled"
    BY <2>1, LeaveRunningColumns, SettleColumns DEF Phase
  <2>5. Request(q) = "received" /\ Request(q)' = "received"
    BY <1>1, <2>2 DEF Request, provider
  <2> QED BY <1>2, <2>1, <2>2, <2>3, <2>4, <2>5 DEF MovesAsPromised, Fails, SameAnswers
<1>8. CASE RequireReconciliation(w)
  <2>1. /\ UNCHANGED <<answer, resv>>
        /\ attempt' = [attempt EXCEPT ![q].status =
                          IF @ = "dispatched" THEN "unknown" ELSE @]
        /\ LeaveRunning(q, "reconciliation_required", "run.reconciliation_required")
    BY <1>8 DEF RequireReconciliation, KeepExposure
  <2>2. /\ attempt[q].status = "dispatched" /\ attempt[q].answer = 0 /\ calls[q] = 1
        /\ resv[q].state = "in_flight"
    BY <1>1, <1>2, <1>8 DEF RequireReconciliation, WorkerKnows, OwnsAttempt, CostOf,
       AttemptTellsCalls
  <2>3. attempt'[q].answer = attempt[q].answer
    BY <1>1, <2>1 DEF TypeOK, AttemptRow
  <2>4. Phase(q)' = "reconciliation_required"
    BY <2>1, LeaveRunningColumns DEF Phase
  <2>5. Request(q) \in {"lost", "received"} /\ Request(q)' = Request(q)
    BY <1>1, <2>2 DEF Request, provider
  <2> QED BY <1>2, <2>1, <2>2, <2>3, <2>4, <2>5 DEF MovesAsPromised, HandsOver, SameAnswers
<1> QED BY <1>3, <1>4, <1>5, <1>6, <1>7, <1>8

\* Every step leaves what is seen of all runs but one alone, and moves that one as
\* promised.
LEMMA StepMoves ==
    ASSUME TypeOK, ClaimsAndAttempts, NothingIsLost, RunsInOrder, Next
    PROVE  \/ \A p \in Runs : SameView(p)
           \/ \E q \in Runs : MovesAsPromised(q) /\ \A p \in Runs \ {q} : SameView(p)
<1>1. ASSUME NEW w \in Workers,
             \/ MarkDispatched(w) \/ RecordResult(w) \/ FinishRun(w)
             \/ FailUnsent(w) \/ FailSent(w) \/ RequireReconciliation(w)
      PROVE  \/ \A p \in Runs : SameView(p)
             \/ \E q \in Runs : MovesAsPromised(q) /\ \A p \in Runs \ {q} : SameView(p)
  <2>1. UNCHANGED <<calls, delivered>>
    BY <1>1 DEF MarkDispatched, RecordResult, FinishRun, FailUnsent, FailSent,
       RequireReconciliation, provider
  <2>2. worker[w].run \in Runs /\ \A p \in Runs \ {worker[w].run} : SameRows(p)
    BY <1>1, WriterHoldsClaim
  <2>3. \A p \in Runs : SameRows(p) => SameView(p)
    BY <2>1 DEF SameRows, SameView, Phase, Request
  <2>4. CASE UNCHANGED <<run, attempt, resv, answer>>
    BY <2>3, <2>4 DEF SameRows
  <2>5. CASE ~UNCHANGED <<run, attempt, resv, answer>>
    <3>1. PICK q \in Runs : q = worker[w].run
      BY <2>2
    <3>2. MovesAsPromised(q)
      BY <1>1, <2>5, <3>1, WriterMoves DEF NothingIsLost, RunsInOrder
    <3> QED BY <2>2, <2>3, <3>1, <3>2
  <2> QED BY <2>4, <2>5
<1>2. ASSUME NEW r \in Runs, NEW n \in QuestionLengths, StartRun(r, n)
      PROVE  Opens(r) /\ \A p \in Runs \ {r} : SameView(p)
  <2>1. /\ UNCHANGED <<attempt, answer, calls, delivered>> /\ run[r].status = "none"
        /\ run'[r].status = "queued" /\ resv'[r].state = "held"
        /\ \A p \in Runs \ {r} : run'[p] = run[p] /\ resv'[p] = resv[p]
    BY <1>2 DEF StartRun, TypeOK, RunRow, provider
  <2>2. \A p \in Runs : Request(p)' = Request(p)
    BY <2>1 DEF Request
  <2> QED BY <2>1, <2>2 DEF Opens, SameAnswers, SameView, Phase
<1>3. ASSUME NEW r \in Runs, ExpireLease(r), NEW p \in Runs PROVE SameView(p)
  <2>1. UNCHANGED <<attempt, answer, calls, delivered, resv>>
        /\ run' = [run EXCEPT ![r].live = FALSE]
    BY <1>3 DEF ExpireLease, provider
  <2>2. run'[p].status = run[p].status
    BY <2>1 DEF TypeOK, RunRow
  <2> QED BY <2>1, <2>2 DEF SameView, Phase, Request
<1>4. ASSUME NEW w \in Workers, NEW r \in Runs, ClaimRun(w, r), NEW p \in Runs
      PROVE  SameView(p)
  <2>1. /\ UNCHANGED <<attempt, answer, calls, delivered, resv>>
        /\ run[r].status \in {"queued", "running"}
        /\ run' = [run EXCEPT ![r] =
                     [status |-> "running", token |-> FreshToken, live |-> TRUE]]
    BY <1>4 DEF ClaimRun, Selected, Claimable, LeaseExpired, provider
  <2>2. run'[p] = run[p] \/ (p = r /\ run'[p].status = "running")
    BY <2>1 DEF TypeOK
  <2>3. Phase(p)' = Phase(p)
    BY <2>1, <2>2 DEF Phase
  <2> QED BY <2>1, <2>3 DEF SameView, Request
<1>5. ASSUME NEW w \in Workers, CallProvider(w), NEW r \in Runs, r = worker[w].run
      PROVE  Asks(r) /\ \A p \in Runs \ {r} : SameView(p)
  <2>1. /\ WorkerKnows(w) /\ SentIfDelivered(r) /\ calls[r] \in Nat
        /\ delivered[r] \in BOOLEAN
    BY <1>5, RunOfBusy DEF CallProvider, NothingIsLost, TypeOK
  <2>2. attempt[r].status = "dispatched" /\ calls[r] = 0 /\ ~delivered[r]
    BY <1>5, <2>1 DEF CallProvider, WorkerKnows, OwnsAttempt, SentIfDelivered
  <2>3. UNCHANGED rows
    BY <1>5 DEF CallProvider
  <2>4. UNCHANGED <<attempt, answer, run, resv>>
    BY <2>3 DEF rows
  <2>5. calls'[r] = 1 /\ delivered'[r] \in BOOLEAN
    BY <1>5, <2>1, <2>2 DEF CallProvider, TypeOK
  <2>6. \A p \in Runs \ {r} : calls'[p] = calls[p] /\ delivered'[p] = delivered[p]
    BY <1>5, <2>1 DEF CallProvider, TypeOK
  <2>7. Request(r) = "dispatched" /\ Request(r)' \in {"lost", "received"}
    <3>1. Request(r) = "dispatched"
      BY <2>2 DEF Request
    <3>2. Request(r)' \in {"lost", "received"}
      BY <2>5 DEF Request
    <3> QED BY <3>1, <3>2
  <2>8. \A p \in Runs : Phase(p)' = Phase(p)
    BY <2>4 DEF Phase
  <2>9. \A p \in Runs \ {r} : Request(p)' = Request(p)
    BY <2>4, <2>6 DEF Request
  <2> QED BY <2>4, <2>7, <2>8, <2>9 DEF Asks, SameAnswers, SameView
<1>6. ASSUME NEW w \in Workers,
             \/ FindStoredResult(w) \/ Replay(w) \/ BuildContext(w)
             \/ ProviderReturns(w) \/ ValidateCitations(w) \/ Crash(w),
             NEW p \in Runs
      PROVE  SameView(p)
  <2>1. UNCHANGED rows /\ UNCHANGED provider
    BY <1>6 DEF FindStoredResult, Replay, BuildContext, ProviderReturns,
       ValidateCitations, Crash
  <2> QED BY <2>1 DEF rows, provider, SameView, Phase, Request
<1>7. ASSUME NEW w \in Workers, CallProvider(w)
      PROVE  \E q \in Runs : MovesAsPromised(q) /\ \A p \in Runs \ {q} : SameView(p)
  <2>1. PICK r \in Runs : r = worker[w].run
    BY <1>7, RunOfBusy DEF CallProvider
  <2> QED BY <1>5, <1>7, <2>1 DEF MovesAsPromised
<1>8. ASSUME NEW r \in Runs, NEW n \in QuestionLengths, StartRun(r, n)
      PROVE  \E q \in Runs : MovesAsPromised(q) /\ \A p \in Runs \ {q} : SameView(p)
  BY <1>2, <1>8 DEF MovesAsPromised
<1> QED BY <1>1, <1>3, <1>4, <1>6, <1>7, <1>8 DEF Next, WorkerStep

\* Two functions that agree everywhere but at q.
LEMMA ChangedAt ==
    ASSUME NEW S, NEW q \in S, NEW f, NEW g,
           f = [p \in S |-> f[p]], g = [p \in S |-> g[p]],
           \A p \in S \ {q} : g[p] = f[p]
    PROVE  g = [f EXCEPT ![q] = g[q]]
  OBVIOUS

\* What RunPromise sees of all runs, in its own variables.
phaseBar == [r \in Runs |-> Phase(r)]
requestBar == [r \in Runs |-> Request(r)]
storedBar == [r \in Runs |-> attempt[r].answer]
moneyBar == [r \in Runs |-> resv[r].state]

LEMMA SameViewStutters ==
    ASSUME TypeOK, TypeOK', \A p \in Runs : SameView(p)
    PROVE  UNCHANGED <<phaseBar, requestBar, storedBar, answer, moneyBar>>
<1>1. answer = [p \in Runs |-> answer[p]] /\ answer' = [p \in Runs |-> answer'[p]]
  BY DEF TypeOK
<1>2. answer' = answer
  BY <1>1 DEF SameView
<1> QED BY <1>2 DEF SameView, phaseBar, requestBar, storedBar, moneyBar

\* A move of one run that leaves the others alone is a step of RunPromise.
LEMMA MoveIsPromised ==
    ASSUME TypeOK, TypeOK', NEW q \in Runs, MovesAsPromised(q),
           \A p \in Runs \ {q} : SameView(p)
    PROVE  Promise!PromiseNext
<1>1. /\ phaseBar' = [phaseBar EXCEPT ![q] = phaseBar'[q]]
      /\ requestBar' = [requestBar EXCEPT ![q] = requestBar'[q]]
      /\ storedBar' = [storedBar EXCEPT ![q] = storedBar'[q]]
      /\ moneyBar' = [moneyBar EXCEPT ![q] = moneyBar'[q]]
  <2>1. \A p \in Runs \ {q} :
          /\ phaseBar'[p] = phaseBar[p] /\ requestBar'[p] = requestBar[p]
          /\ storedBar'[p] = storedBar[p] /\ moneyBar'[p] = moneyBar[p]
    BY DEF SameView, phaseBar, requestBar, storedBar, moneyBar
  <2>2. /\ phaseBar = [p \in Runs |-> phaseBar[p]]
        /\ phaseBar' = [p \in Runs |-> phaseBar'[p]]
        /\ requestBar = [p \in Runs |-> requestBar[p]]
        /\ requestBar' = [p \in Runs |-> requestBar'[p]]
        /\ storedBar = [p \in Runs |-> storedBar[p]]
        /\ storedBar' = [p \in Runs |-> storedBar'[p]]
        /\ moneyBar = [p \in Runs |-> moneyBar[p]]
        /\ moneyBar' = [p \in Runs |-> moneyBar'[p]]
    BY DEF phaseBar, requestBar, storedBar, moneyBar
  <2> QED BY <2>1, <2>2, ChangedAt
<1>2. answer' = [answer EXCEPT ![q] = answer'[q]]
  <2>1. /\ answer = [p \in Runs |-> answer[p]] /\ answer' = [p \in Runs |-> answer'[p]]
        /\ \A p \in Runs \ {q} : answer'[p] = answer[p]
    BY DEF TypeOK, SameView
  <2> QED BY <2>1, ChangedAt
<1>3. /\ phaseBar[q] = Phase(q) /\ phaseBar'[q] = Phase(q)'
      /\ requestBar[q] = Request(q) /\ requestBar'[q] = Request(q)'
      /\ storedBar[q] = attempt[q].answer /\ storedBar'[q] = attempt'[q].answer
      /\ moneyBar[q] = resv[q].state /\ moneyBar'[q] = resv'[q].state
  BY DEF phaseBar, requestBar, storedBar, moneyBar
<1>4. /\ phaseBar'[q] = phaseBar[q] => phaseBar' = phaseBar
      /\ requestBar'[q] = requestBar[q] => requestBar' = requestBar
      /\ storedBar'[q] = storedBar[q] => storedBar' = storedBar
      /\ moneyBar'[q] = moneyBar[q] => moneyBar' = moneyBar
  BY <1>1 DEF phaseBar, requestBar, storedBar, moneyBar
<1>5. answer'[q] = answer[q] => answer' = answer
  BY <1>2 DEF TypeOK
<1>6. CASE Opens(q)
  <2>1. /\ phaseBar[q] = "none" /\ phaseBar' = [phaseBar EXCEPT ![q] = "open"]
        /\ moneyBar' = [moneyBar EXCEPT ![q] = "held"]
        /\ UNCHANGED <<requestBar, storedBar, answer>>
    BY <1>1, <1>3, <1>4, <1>5, <1>6 DEF Opens, SameAnswers
  <2>2. Promise!Open(q)
    BY <2>1 DEF Promise!Open, phaseBar, requestBar, storedBar, moneyBar
  <2> QED BY <2>2 DEF Promise!PromiseNext
<1>7. CASE Announces(q)
  <2>1. /\ phaseBar[q] = "open" /\ requestBar[q] = "unsent" /\ moneyBar[q] = "held"
        /\ requestBar' = [requestBar EXCEPT ![q] = "dispatched"]
        /\ moneyBar' = [moneyBar EXCEPT ![q] = "in_flight"]
        /\ UNCHANGED <<phaseBar, storedBar, answer>>
    BY <1>1, <1>3, <1>4, <1>5, <1>7 DEF Announces, SameAnswers
  <2>2. Promise!Announce(q)
    BY <2>1 DEF Promise!Announce, phaseBar, requestBar, storedBar, moneyBar
  <2> QED BY <2>2 DEF Promise!PromiseNext
<1>8. CASE Asks(q)
  <2>1. /\ requestBar[q] = "dispatched"
        /\ \E fate \in {"lost", "received"} :
             requestBar' = [requestBar EXCEPT ![q] = fate]
        /\ UNCHANGED <<phaseBar, storedBar, answer, moneyBar>>
    BY <1>1, <1>3, <1>4, <1>5, <1>8 DEF Asks, SameAnswers
  <2>2. Promise!Ask(q)
    BY <2>1 DEF Promise!Ask, phaseBar, requestBar, storedBar, moneyBar
  <2> QED BY <2>2 DEF Promise!PromiseNext
<1>9. CASE Stores(q)
  <2>1. /\ phaseBar[q] = "open" /\ requestBar[q] = "received" /\ storedBar[q] = 0
        /\ storedBar' = [storedBar EXCEPT ![q] = 1]
        /\ UNCHANGED <<phaseBar, requestBar, answer, moneyBar>>
    BY <1>1, <1>3, <1>4, <1>5, <1>9 DEF Stores
  <2>2. Promise!Store(q, 1)
    BY <2>1 DEF Promise!Store, phaseBar, requestBar, storedBar, moneyBar
  <2> QED BY <2>2 DEF Promise!PromiseNext
<1>10. CASE Succeeds(q)
  <2>1. /\ phaseBar[q] = "open" /\ storedBar[q] # 0 /\ moneyBar[q] = "in_flight"
        /\ phaseBar' = [phaseBar EXCEPT ![q] = "succeeded"]
        /\ answer' = [answer EXCEPT ![q] = storedBar[q]]
        /\ \E s \in {"in_flight", "settled"} : moneyBar' = [moneyBar EXCEPT ![q] = s]
        /\ UNCHANGED <<requestBar, storedBar>>
    BY <1>1, <1>2, <1>3, <1>4, <1>10 DEF Succeeds
  <2>2. Promise!Succeed(q)
    BY <2>1 DEF Promise!Succeed, phaseBar, requestBar, storedBar, moneyBar
  <2> QED BY <2>2 DEF Promise!PromiseNext
<1>11. CASE Fails(q)
  <2>1. /\ phaseBar[q] = "open" /\ storedBar[q] = 0
        /\ phaseBar' = [phaseBar EXCEPT ![q] = "failed"]
        /\ \/ moneyBar' = [moneyBar EXCEPT ![q] = "released"]
           \/ /\ requestBar[q] = "received" /\ moneyBar[q] = "in_flight"
              /\ moneyBar' = [moneyBar EXCEPT ![q] = "settled"]
        /\ UNCHANGED <<requestBar, storedBar, answer>>
    BY <1>1, <1>3, <1>4, <1>5, <1>11 DEF Fails, SameAnswers
  <2>2. Promise!Fail(q)
    BY <2>1 DEF Promise!Fail, phaseBar, requestBar, storedBar, moneyBar
  <2> QED BY <2>2 DEF Promise!PromiseNext
<1>12. CASE HandsOver(q)
  <2>1. /\ phaseBar[q] = "open" /\ storedBar[q] = 0 /\ moneyBar[q] = "in_flight"
        /\ requestBar[q] \in {"lost", "received"}
        /\ phaseBar' = [phaseBar EXCEPT ![q] = "reconciliation_required"]
        /\ UNCHANGED <<requestBar, storedBar, answer, moneyBar>>
    BY <1>1, <1>3, <1>4, <1>5, <1>12 DEF HandsOver, SameAnswers
  <2>2. Promise!HandOver(q)
    BY <2>1 DEF Promise!HandOver, phaseBar, requestBar, storedBar, moneyBar
  <2> QED BY <2>2 DEF Promise!PromiseNext
<1> QED BY <1>6, <1>7, <1>8, <1>9, <1>10, <1>11, <1>12 DEF MovesAsPromised

LEMMA PromiseBegins == Init => Promise!PromiseInit
  BY DEF Init, NoAttempt, Promise!PromiseInit, Phase, Request

LEMMA StutterIsNotSeen ==
    ASSUME TypeOK, TypeOK', \A p \in Runs : SameView(p)
    PROVE  UNCHANGED Promise!promiseVars
  BY SameViewStutters DEF Promise!promiseVars, phaseBar, requestBar, storedBar, moneyBar

LEMMA StepIsPromised ==
    TypeInv /\ TypeInv' /\ ClaimsAndAttempts /\ NothingIsLost /\ RunsInOrder /\ [Next]_vars
      => [Promise!PromiseNext]_(Promise!promiseVars)
<1> SUFFICES ASSUME TypeOK, TypeOK', ClaimsAndAttempts, NothingIsLost, RunsInOrder,
                    [Next]_vars
             PROVE  [Promise!PromiseNext]_(Promise!promiseVars)
  BY DEF TypeInv
<1>1. CASE UNCHANGED vars
  <2>1. \A p \in Runs : SameView(p)
    BY <1>1 DEF vars, rows, provider, SameView, Phase, Request
  <2> QED BY <2>1, StutterIsNotSeen
<1>2. CASE Next
  BY <1>2, StepMoves, StutterIsNotSeen, MoveIsPromised
<1> QED BY <1>1, <1>2

\* Teaching runs implement RunPromise: with every crash, lapsed lease, reclaim, replay
\* and late worker, each step of the store and of the workers is one of its seven moves
\* for one run, or is not seen at all.
THEOREM TeachingKeepsItsPromise == Spec => KeepsPromise
<1>1. Init => TypeInv
  BY InitTypeOK DEF TypeInv, BusyWorkersHaveRuns, Init, IdleWorker
<1> QED BY <1>1, StepType, PromiseBegins, StepIsPromised, ClaimsAreSound, NothingGetsLost,
        RunsStayInOrder, PTL DEF Spec, KeepsPromise, Promise!PromiseSpec

AllOfIt == TypeInv /\ ClaimsAndAttempts /\ NothingIsLost /\ RunsInOrder

LEMMA FairStep == AllOfIt /\ [Next \/ Stabilise]_vars => AllOfIt'
<1> SUFFICES ASSUME AllOfIt, [Next \/ Stabilise]_vars PROVE AllOfIt'
  OBVIOUS
<1>1. CASE [Next]_vars
  <2>1. RunsInOrder'
    <3>1. CASE Next
      BY <3>1, StepOfRun DEF AllOfIt, TypeInv, RunsInOrder
    <3>2. CASE UNCHANGED vars
      BY <3>2 DEF AllOfIt, vars, rows, provider, RunsInOrder, CostOf, AnswerOf
    <3> QED BY <1>1, <3>1, <3>2
  <2> QED BY <1>1, <2>1, StepType, StepClaims, StepLosesNothing DEF AllOfIt
<1>2. CASE Stabilise
  <2>1. UNCHANGED <<created, run, attempt, resv, ledger, answer, events, worker, calls,
                    delivered>>
        /\ stable' = TRUE
    BY <1>2 DEF Stabilise, rows, provider
  <2>2. TypeInv'
    BY <2>1 DEF AllOfIt, TypeInv, TypeOK, BusyWorkersHaveRuns
  <2>3. ClaimsAndAttempts'
    BY <2>1 DEF AllOfIt, ClaimsAndAttempts, WorkerKnows, TokenNames, NotYetDispatched,
       OwnsAttempt, OutcomeIsDelivered, CarriesStoredResult, AttemptTellsCalls,
       UnclaimedIsUntouched
  <2>4. NothingIsLost'
    BY <2>1 DEF AllOfIt, NothingIsLost, NoResultToLose, HoldsClaim, SentIfDelivered
  <2>5. RunsInOrder'
    BY <2>1 DEF AllOfIt, RunsInOrder, CostOf, AnswerOf
  <2> QED BY <2>2, <2>3, <2>4, <2>5 DEF AllOfIt
<1> QED BY <1>1, <1>2

\* The behaviours of the liveness run, in which the faults stop at some time, are no
\* others: under FairSpec too a run keeps its promise, and its one request.
THEOREM FairRunsKeepTheirPromise == FairSpec => KeepsPromise /\ []AtMostOneProviderCall
<1>1. Init => AllOfIt /\ Promise!PromiseInit
  <2>1. Init => NothingIsLost
    BY DEF Init, IdleWorker, NothingIsLost, NoResultToLose, SentIfDelivered
  <2>2. Init => RunsInOrder
    BY DEF Init, RunsInOrder, CostOf, AnswerOf
  <2>3. Init => TypeInv
    BY InitTypeOK DEF TypeInv, BusyWorkersHaveRuns, Init, IdleWorker
  <2> QED BY <2>1, <2>2, <2>3, InitClaims, PromiseBegins DEF AllOfIt
<1>2. AllOfIt /\ AllOfIt' /\ [Next \/ Stabilise]_vars
        => [Promise!PromiseNext]_(Promise!promiseVars)
  <2> SUFFICES ASSUME AllOfIt, AllOfIt', [Next \/ Stabilise]_vars
               PROVE  [Promise!PromiseNext]_(Promise!promiseVars)
    OBVIOUS
  <2>1. CASE [Next]_vars
    BY <2>1, StepIsPromised DEF AllOfIt
  <2>2. CASE Stabilise
    <3>1. UNCHANGED <<run, attempt, resv, answer, calls, delivered>>
      BY <2>2 DEF Stabilise, rows, provider
    <3>2. \A p \in Runs : SameView(p)
      BY <3>1 DEF SameView, Phase, Request
    <3> QED BY <3>2, StutterIsNotSeen DEF AllOfIt, TypeInv
  <2> QED BY <2>1, <2>2
<1>3. AllOfIt => AtMostOneProviderCall
  BY DEF AllOfIt, ClaimsAndAttempts, AttemptTellsCalls, AtMostOneProviderCall
<1>4. FairSpec => Init /\ [][Next \/ Stabilise]_vars
  BY PTL DEF FairSpec
<1> QED BY <1>1, <1>2, <1>3, <1>4, FairStep, PTL DEF KeepsPromise, Promise!PromiseSpec

-----------------------------------------------------------------------------
(* The events of a run.                                                    *)

SentEvents(q) == IF attempt[q].status = "none" THEN <<>> ELSE <<"run.dispatched">>

StoryOf(q) ==
    /\ run[q].status = "none" => events[q] = <<>>
    /\ run[q].status \in {"queued", "running"} =>
         events[q] = <<"run.created">> \o SentEvents(q)
    /\ run[q].status = "succeeded" =>
         events[q] = <<"run.created">> \o SentEvents(q) \o <<"run.succeeded">>
    /\ run[q].status = "failed" =>
         events[q] = <<"run.created">> \o SentEvents(q) \o <<"run.failed">>
    /\ run[q].status = "reconciliation_required" =>
         events[q] = <<"run.created">> \o SentEvents(q) \o <<"run.reconciliation_required">>

\* Appending an event to one of the two beginnings of a story.
LEMMA Chapters ==
    ASSUME NEW e \in EventTypes
    PROVE  /\ Append(<<>>, e) = <<e>> \o <<>>
           /\ Append(<<"run.created">> \o <<>>, e) = <<"run.created">> \o <<e>>
           /\ \A s \in {<<>>, <<"run.dispatched">>} :
                Append(<<"run.created">> \o s, e) = <<"run.created">> \o s \o <<e>>
<1>1. \A s \in Seq(EventTypes) : Append(s, e) = s \o <<e>>
  BY AppendIsConcat
<1>2. <<>> \in Seq(EventTypes) /\ <<"run.created">> \in Seq(EventTypes)
      /\ <<"run.dispatched">> \in Seq(EventTypes) /\ <<e>> \in Seq(EventTypes)
  BY DEF EventTypes
<1>3. \A s \in {<<>>, <<"run.dispatched">>} : <<"run.created">> \o s \in Seq(EventTypes)
  BY <1>2, ConcatProperties
<1>4. <<"run.created">> \o <<>> = <<"run.created">> /\ <<e>> \o <<>> = <<e>>
      /\ <<>> \o <<e>> = <<e>>
  BY <1>2, ConcatEmptySeq
<1> QED BY <1>1, <1>2, <1>3, <1>4

\* The row and the event of an end are written together, so they name the same end.
LEMMA LeaveRunningStory ==
    ASSUME TypeOK, NEW r \in Runs, StoryOf(r), run[r].status = "running",
           NEW status, NEW type \in EventTypes,
           \/ status = "succeeded" /\ type = "run.succeeded"
           \/ status = "failed" /\ type = "run.failed"
           \/ status = "reconciliation_required" /\ type = "run.reconciliation_required",
           LeaveRunning(r, status, type),
           attempt'[r].status = "none" <=> attempt[r].status = "none"
    PROVE  StoryOf(r)'
<1>1. run'[r].status = status
  BY LeaveRunningColumns
<1>2. events'[r] = Append(events[r], type)
  BY DEF LeaveRunning, InsertEvent, TypeOK
<1>3. SentEvents(r)' = SentEvents(r) /\ SentEvents(r) \in {<<>>, <<"run.dispatched">>}
  BY DEF SentEvents
<1>4. events[r] = <<"run.created">> \o SentEvents(r)
  BY DEF StoryOf
<1>5. events'[r] = <<"run.created">> \o SentEvents(r)' \o <<type>>
  BY <1>2, <1>3, <1>4, Chapters
<1> QED BY <1>1, <1>5 DEF StoryOf

LEMMA StepOfStory ==
    ASSUME TypeOK, ClaimsAndAttempts, [Next]_vars, NEW q \in Runs, StoryOf(q)
    PROVE  StoryOf(q)'
<1>1. CASE /\ events'[q] = events[q]
           /\ run'[q].status = run[q].status
           /\ attempt'[q].status = "none" <=> attempt[q].status = "none"
  BY <1>1 DEF StoryOf, SentEvents
<1>2. ASSUME NEW r \in Runs, NEW n \in QuestionLengths, StartRun(r, n)
      PROVE  StoryOf(q)'
  <2>1. UNCHANGED attempt /\ run' = [run EXCEPT ![r].status = "queued"]
        /\ events' = [events EXCEPT ![r] = Append(@, "run.created")]
        /\ run[r].status = "none"
    BY <1>2 DEF StartRun, InsertEvent
  <2>2. CASE q # r
    <3>1. run'[q] = run[q] /\ events'[q] = events[q]
      BY <2>1, <2>2 DEF TypeOK
    <3> QED BY <1>1, <2>1, <3>1
  <2>3. CASE q = r
    <3>1. run'[q].status = "queued" /\ events'[q] = Append(events[q], "run.created")
      BY <2>1, <2>3 DEF TypeOK, RunRow
    <3>2. events[q] = <<>> /\ attempt'[q].status = "none"
      BY <2>1, <2>3 DEF StoryOf, ClaimsAndAttempts, UnclaimedIsUntouched
    <3>3. SentEvents(q)' = <<>>
      BY <3>2 DEF SentEvents
    <3>4. events'[q] = <<"run.created">> \o SentEvents(q)'
      BY <3>1, <3>2, <3>3, Chapters DEF EventTypes
    <3> QED BY <3>1, <3>4 DEF StoryOf
  <2> QED BY <2>2, <2>3
<1>3. ASSUME NEW r \in Runs, ExpireLease(r) PROVE StoryOf(q)'
  <2>1. run'[q].status = run[q].status
    BY <1>3 DEF ExpireLease, TypeOK, RunRow
  <2> QED BY <1>1, <1>3, <2>1 DEF ExpireLease
<1>4. ASSUME NEW w \in Workers, NEW r \in Runs, ClaimRun(w, r) PROVE StoryOf(q)'
  <2>1. /\ run[r].status \in {"queued", "running"}
        /\ UNCHANGED <<attempt, events>>
        /\ run' = [run EXCEPT ![r] = [status |-> "running", token |-> FreshToken,
                                      live |-> TRUE]]
    BY <1>4 DEF ClaimRun, Selected, Claimable, LeaseExpired
  <2>2. run'[q] = run[q] \/ (run[q].status \in {"queued", "running"}
                             /\ run'[q].status = "running")
    BY <2>1 DEF TypeOK
  <2> QED BY <2>1, <2>2 DEF StoryOf, SentEvents
<1>5. ASSUME NEW w \in Workers,
             \/ FindStoredResult(w) \/ Replay(w) \/ BuildContext(w) \/ CallProvider(w)
             \/ ProviderReturns(w) \/ ValidateCitations(w) \/ Crash(w)
      PROVE  StoryOf(q)'
  <2>1. UNCHANGED <<run, attempt, events>>
    BY <1>5 DEF FindStoredResult, Replay, BuildContext, CallProvider, ProviderReturns,
       ValidateCitations, Crash
  <2> QED BY <1>1, <2>1
<1>6. ASSUME NEW w \in Workers,
             \/ MarkDispatched(w) \/ RecordResult(w) \/ FinishRun(w)
             \/ FailUnsent(w) \/ FailSent(w) \/ RequireReconciliation(w)
      PROVE  StoryOf(q)'
  <2> DEFINE r == worker[w].run
  <2>1. r \in Runs /\ (q # r => SameRows(q))
    BY <1>6, WriterHoldsClaim
  <2>2. \/ UNCHANGED events
        \/ events' = [events EXCEPT ![r] = Append(@, "run.dispatched")]
        \/ \E type : events' = [events EXCEPT ![r] = Append(@, type)]
    BY <1>6 DEF MarkDispatched, RecordResult, FinishRun, FailUnsent, FailSent,
       RequireReconciliation, LeaveRunning, InsertEvent
  <2>3. CASE q # r
    <3>1. events'[q] = events[q]
      BY <2>1, <2>2, <2>3 DEF TypeOK
    <3> QED BY <1>1, <2>1, <2>3, <3>1 DEF SameRows
  <2>4. CASE q = r /\ MarkDispatched(w)
    <3>1. CASE UNCHANGED <<run, attempt, events>>
      BY <1>1, <3>1
    <3>2. CASE ~UNCHANGED <<run, attempt, events>>
      <4>1. /\ run[q].status = "running" /\ attempt[q].status = "none" /\ UNCHANGED run
            /\ attempt' = [attempt EXCEPT ![q] = [NoAttempt EXCEPT !.status = "dispatched",
                                                                   !.id = worker[w].token]]
            /\ events' = [events EXCEPT ![q] = Append(@, "run.dispatched")]
        BY <2>4, <3>2 DEF MarkDispatched, Fence, HoldsClaim, InsertEvent
      <4>2. events'[q] = Append(events[q], "run.dispatched")
        BY <4>1 DEF TypeOK
      <4>3. attempt'[q].status = "dispatched"
        BY <4>1 DEF TypeOK, NoAttempt
      <4>4. events[q] = <<"run.created">> \o <<>> /\ SentEvents(q)' = <<"run.dispatched">>
        BY <4>1, <4>3 DEF StoryOf, SentEvents
      <4>5. events'[q] = <<"run.created">> \o SentEvents(q)'
        BY <4>2, <4>4, Chapters DEF EventTypes
      <4> QED BY <4>1, <4>5 DEF StoryOf
    <3> QED BY <3>1, <3>2
  <2>5. CASE q = r /\ RecordResult(w)
    <3>1. CASE UNCHANGED attempt
      BY <1>1, <2>5, <3>1 DEF RecordResult
    <3>2. CASE ~UNCHANGED attempt
      <4>1. /\ attempt[q].status = "dispatched" /\ UNCHANGED <<run, events>>
            /\ attempt' = [attempt EXCEPT ![q] =
                            [@ EXCEPT !.status = "completed", !.answer = worker[w].answer,
                                      !.usage = worker[w].usage]]
        BY <2>5, <3>2 DEF RecordResult
      <4>2. attempt'[q].status = "completed"
        BY <4>1 DEF TypeOK, AttemptRow
      <4> QED BY <1>1, <4>1, <4>2
    <3> QED BY <3>1, <3>2
  <2>6. CASE q = r /\ (FinishRun(w) \/ FailUnsent(w))
    <3>1. UNCHANGED attempt
      BY <2>6 DEF FinishRun, FailUnsent
    <3>2. CASE UNCHANGED <<run, events>>
      BY <1>1, <3>1, <3>2
    <3>3. CASE /\ run[q].status = "running"
               /\ \/ LeaveRunning(q, "succeeded", "run.succeeded")
                  \/ LeaveRunning(q, "failed", "run.failed")
      BY <3>1, <3>3, LeaveRunningStory DEF EventTypes
    <3> QED BY <2>6, <3>2, <3>3 DEF FinishRun, FailUnsent, Fence, HoldsClaim
  <2>7. CASE q = r /\ (FailSent(w) \/ RequireReconciliation(w))
    <3>1. CASE UNCHANGED <<run, attempt, events>>
      BY <1>1, <3>1
    <3>2. CASE /\ run[q].status = "running" /\ attempt[q].status # "none"
               /\ \E status \in {"failed", "unknown", attempt[q].status} :
                    attempt' = [attempt EXCEPT ![q].status = status]
               /\ \/ LeaveRunning(q, "failed", "run.failed")
                  \/ LeaveRunning(q, "reconciliation_required", "run.reconciliation_required")
      <4>1. attempt'[q].status # "none"
        BY <3>2 DEF TypeOK, AttemptRow
      <4> QED BY <3>2, <4>1, LeaveRunningStory DEF EventTypes
    <3>3. CASE FailSent(w)
      BY <2>7, <3>1, <3>2, <3>3 DEF FailSent, Fence, HoldsClaim
    <3>4. CASE RequireReconciliation(w)
      <4>1. CASE UNCHANGED <<run, attempt, events>>
        BY <3>1, <4>1
      <4>2. CASE ~UNCHANGED <<run, attempt, events>>
        BY <2>7, <3>2, <3>4, <4>2 DEF RequireReconciliation, Fence, HoldsClaim
      <4> QED BY <4>1, <4>2
    <3> QED BY <2>7, <3>3, <3>4
  <2> QED BY <1>6, <2>3, <2>4, <2>5, <2>6, <2>7
<1>7. CASE UNCHANGED vars
  BY <1>1, <1>7 DEF vars
<1> QED BY <1>2, <1>3, <1>4, <1>5, <1>6, <1>7 DEF Next, WorkerStep

\* The stored events of a run are its history: created once, dispatched at most once,
\* ended at most once and with the event of the status the row has, whichever workers
\* took part.  A client that replays them from any position sees no other story.
THEOREM EventsAreTheHistory == Spec => []EventsTellTheRun
<1> DEFINE Stories == \A q \in Runs : StoryOf(q)
<1>1. Init => Stories
  BY DEF Init, StoryOf
<1>2. TypeInv /\ ClaimsAndAttempts /\ Stories /\ [Next]_vars => Stories'
  BY StepOfStory DEF TypeInv
<1>3. TypeInv /\ Stories => EventsTellTheRun
  <2> SUFFICES ASSUME TypeOK, Stories, NEW r \in Runs
               PROVE  LET s == run[r].status
                          sent == IF attempt[r].status = "none" THEN <<>>
                                  ELSE <<"run.dispatched">>
                      IN events[r] =
                           CASE s = "none" -> <<>>
                             [] s \in {"queued", "running"} -> <<"run.created">> \o sent
                             [] s = "succeeded" ->
                                  <<"run.created">> \o sent \o <<"run.succeeded">>
                             [] s = "failed" -> <<"run.created">> \o sent \o <<"run.failed">>
                             [] s = "reconciliation_required" ->
                                  <<"run.created">> \o sent
                                    \o <<"run.reconciliation_required">>
    BY DEF TypeInv, EventsTellTheRun
  <2>1. StoryOf(r) /\ run[r].status \in RunStatus
    BY DEF TypeOK, RunRow
  <2> QED BY <2>1 DEF StoryOf, SentEvents, RunStatus
<1>4. Init => TypeInv
  BY InitTypeOK DEF TypeInv, BusyWorkersHaveRuns, Init, IdleWorker
<1> QED BY <1>1, <1>2, <1>3, <1>4, InitClaims, StepType, StepClaims, PTL DEF Spec

-----------------------------------------------------------------------------
(* The two accounts.                                                       *)

\* A row of the ledger with its columns moved by i, j and k.
MovedBy(row, i, j, k) ==
    [reserved |-> row.reserved + i, inFlight |-> row.inFlight + j, spent |-> row.spent + k]

LEMMA MoveTwice ==
    ASSUME NEW row \in Account, NEW m \in Int, NEW n \in Int
    PROVE  /\ MovedBy(MovedBy(row, m, 0, 0), 0, n, 0) = MovedBy(row, m, n, 0)
           /\ MovedBy(MovedBy(row, 0, m, 0), 0, 0, n) = MovedBy(row, 0, m, n)
<1>1. row.reserved \in Int /\ row.inFlight \in Int /\ row.spent \in Int
  BY DEF Account
<1> QED BY <1>1 DEF MovedBy

\* What Post makes of an account.
LEMMA PostColumns ==
    ASSUME NEW l \in [Accounts -> Account], NEW p, NEW n \in Int, NEW a \in Accounts
    PROVE  /\ Post(l, p, "reserved", n)[a] =
                IF a \in {TenantAccount, p} THEN MovedBy(l[a], n, 0, 0) ELSE l[a]
           /\ Post(l, p, "inFlight", n)[a] =
                IF a \in {TenantAccount, p} THEN MovedBy(l[a], 0, n, 0) ELSE l[a]
           /\ Post(l, p, "spent", n)[a] =
                IF a \in {TenantAccount, p} THEN MovedBy(l[a], 0, 0, n) ELSE l[a]
<1>1. l[a] \in Account
  OBVIOUS
<1>2. /\ [l[a] EXCEPT !.reserved = @ + n] = MovedBy(l[a], n, 0, 0)
      /\ [l[a] EXCEPT !.inFlight = @ + n] = MovedBy(l[a], 0, n, 0)
      /\ [l[a] EXCEPT !.spent = @ + n] = MovedBy(l[a], 0, 0, n)
  BY <1>1 DEF Account, MovedBy
<1>3. /\ Post(l, p, "reserved", n)[a] =
           IF a \in {TenantAccount, p} THEN [l[a] EXCEPT !["reserved"] = @ + n] ELSE l[a]
      /\ Post(l, p, "inFlight", n)[a] =
           IF a \in {TenantAccount, p} THEN [l[a] EXCEPT !["inFlight"] = @ + n] ELSE l[a]
      /\ Post(l, p, "spent", n)[a] =
           IF a \in {TenantAccount, p} THEN [l[a] EXCEPT !["spent"] = @ + n] ELSE l[a]
  BY DEF Post
<1> QED BY <1>2, <1>3

\* What two postings in a row make of it.
LEMMA PostTwice ==
    ASSUME NEW l \in [Accounts -> Account], NEW p, NEW m \in Int, NEW n \in Int,
           NEW a \in Accounts
    PROVE  /\ Post(Post(l, p, "reserved", m), p, "inFlight", n)[a] =
                IF a \in {TenantAccount, p} THEN MovedBy(l[a], m, n, 0) ELSE l[a]
           /\ Post(Post(l, p, "inFlight", m), p, "spent", n)[a] =
                IF a \in {TenantAccount, p} THEN MovedBy(l[a], 0, m, n) ELSE l[a]
<1> DEFINE l1 == Post(l, p, "reserved", m)
           l2 == Post(l, p, "inFlight", m)
<1>1. l1 \in [Accounts -> Account] /\ l2 \in [Accounts -> Account] /\ l[a] \in Account
  BY PostType
<1>2. /\ l1[a] = IF a \in {TenantAccount, p} THEN MovedBy(l[a], m, 0, 0) ELSE l[a]
      /\ l2[a] = IF a \in {TenantAccount, p} THEN MovedBy(l[a], 0, m, 0) ELSE l[a]
  BY PostColumns
<1> HIDE DEF l1, l2
<1>3. /\ Post(l1, p, "inFlight", n)[a] =
           IF a \in {TenantAccount, p} THEN MovedBy(l1[a], 0, n, 0) ELSE l1[a]
      /\ Post(l2, p, "spent", n)[a] =
           IF a \in {TenantAccount, p} THEN MovedBy(l2[a], 0, 0, n) ELSE l2[a]
  BY <1>1, PostColumns
<1> QED BY <1>1, <1>2, <1>3, MoveTwice DEF l1, l2

\* What a reservation counts for in the sum of the reservations in a state.
Part(row, state) == IF row.state = state THEN row.estimate ELSE 0
Cost(row) == IF row.state = "settled" THEN row.actual ELSE 0

\* An account holds the sums of its reservations.
Holds(a) ==
    /\ ledger[a].reserved = SumFunctionOnSet(Estimates, InState(a, "held"))
    /\ ledger[a].inFlight = SumFunctionOnSet(Estimates, InState(a, "in_flight"))
    /\ ledger[a].spent = SumFunctionOnSet(Actuals, InState(a, "settled"))

\* When one reservation changes, the sums over the accounts it lies on move by the
\* difference, and the other sums stay.
LEMMA SumsMove ==
    ASSUME TypeOK, resv' \in [Runs -> ReservationRow], NEW r \in Runs,
           \A q \in Runs \ {r} : resv'[q] = resv[q], NEW a \in Accounts, NEW state
    PROVE  /\ SumFunctionOnSet(Estimates', InState(a, state)') =
                SumFunctionOnSet(Estimates, InState(a, state))
                  + IF a \in {TenantAccount, ProjectOf[r]}
                    THEN Part(resv'[r], state) - Part(resv[r], state) ELSE 0
           /\ SumFunctionOnSet(Actuals', InState(a, "settled")') =
                SumFunctionOnSet(Actuals, InState(a, "settled"))
                  + IF a \in {TenantAccount, ProjectOf[r]} THEN Cost(resv'[r]) - Cost(resv[r]) ELSE 0
<1>1. \A q \in Runs : /\ resv[q].estimate \in Nat /\ resv[q].actual \in Nat
                      /\ resv'[q].estimate \in Nat /\ resv'[q].actual \in Nat
  BY DEF TypeOK, ReservationRow
<1>2. \A q \in Runs : /\ Estimates[q] = resv[q].estimate /\ Estimates'[q] = resv'[q].estimate
                      /\ Actuals[q] = resv[q].actual /\ Actuals'[q] = resv'[q].actual
  BY DEF Estimates, Actuals
<1>3. ASSUME NEW s
      PROVE  /\ InState(a, s) \in SUBSET Runs /\ InState(a, s)' \in SUBSET Runs
             /\ InState(a, s) \ {r} = InState(a, s)' \ {r}
             /\ r \in InState(a, s) <=>
                  resv[r].state = s /\ a \in {TenantAccount, ProjectOf[r]}
             /\ r \in InState(a, s)' <=>
                  resv'[r].state = s /\ a \in {TenantAccount, ProjectOf[r]}
  BY DEF InState
<1>4. SumFunctionOnSet(Estimates, InState(a, state)) \in Int
  <2>1. IsFiniteSet(InState(a, state))
    BY <1>3, RunsAreFinite, FS_Subset
  <2> QED BY <1>1, <1>2, <1>3, <2>1, SumType
<1>5. SumFunctionOnSet(Actuals, InState(a, "settled")) \in Int
  <2>1. IsFiniteSet(InState(a, "settled"))
    BY <1>3, RunsAreFinite, FS_Subset
  <2> QED BY <1>1, <1>2, <1>3, <2>1, SumType
<1>6. SumFunctionOnSet(Estimates', InState(a, state)') =
        SumFunctionOnSet(Estimates, InState(a, state))
          + (IF r \in InState(a, state)' THEN Estimates'[r] ELSE 0)
          - (IF r \in InState(a, state) THEN Estimates[r] ELSE 0)
  <2> DEFINE A == InState(a, state)
             B == InState(a, state)'
             f == Estimates
             g == Estimates'
  <2>1. /\ A \in SUBSET Runs /\ B \in SUBSET Runs /\ A \ {r} = B \ {r}
        /\ \A x \in A : f[x] \in Int
        /\ \A x \in B : g[x] \in Int
        /\ \A x \in A \ {r} : f[x] = g[x]
    BY <1>1, <1>2, <1>3
  <2> HIDE DEF A, B, f, g
  <2>2. SumFunctionOnSet(g, B) = SumFunctionOnSet(f, A) + (IF r \in B THEN g[r] ELSE 0)
                                    - (IF r \in A THEN f[r] ELSE 0)
    BY <2>1, RunsAreFinite, SumPosted
  <2> QED BY <2>2 DEF A, B, f, g
<1>7. SumFunctionOnSet(Actuals', InState(a, "settled")') =
        SumFunctionOnSet(Actuals, InState(a, "settled"))
          + (IF r \in InState(a, "settled")' THEN Actuals'[r] ELSE 0)
          - (IF r \in InState(a, "settled") THEN Actuals[r] ELSE 0)
  <2> DEFINE A == InState(a, "settled")
             B == InState(a, "settled")'
             f == Actuals
             g == Actuals'
  <2>1. /\ A \in SUBSET Runs /\ B \in SUBSET Runs /\ A \ {r} = B \ {r}
        /\ \A x \in A : f[x] \in Int
        /\ \A x \in B : g[x] \in Int
        /\ \A x \in A \ {r} : f[x] = g[x]
    BY <1>1, <1>2, <1>3
  <2> HIDE DEF A, B, f, g
  <2>2. SumFunctionOnSet(g, B) = SumFunctionOnSet(f, A) + (IF r \in B THEN g[r] ELSE 0)
                                    - (IF r \in A THEN f[r] ELSE 0)
    BY <2>1, RunsAreFinite, SumPosted
  <2> QED BY <2>2 DEF A, B, f, g
<1> QED BY <1>1, <1>2, <1>3, <1>4, <1>5, <1>6, <1>7 DEF Part, Cost

\* The columns of the accounts r lies on move by i, j and k.
Moves(r, i, j, k) ==
    \A a \in Accounts :
        ledger'[a] = IF a \in {TenantAccount, ProjectOf[r]}
                     THEN MovedBy(ledger[a], i, j, k) ELSE ledger[a]

\* A step that changes one reservation, and moves the columns of its accounts by what
\* it counts for, leaves every account holding its sums.
LEMMA PostedHolds ==
    ASSUME TypeOK, TypeOK', AccountsReconcile, NEW r \in Runs,
           \A q \in Runs \ {r} : resv'[q] = resv[q],
           NEW i \in Int, NEW j \in Int, NEW k \in Int, Moves(r, i, j, k),
           Part(resv'[r], "held") = Part(resv[r], "held") + i,
           Part(resv'[r], "in_flight") = Part(resv[r], "in_flight") + j,
           Cost(resv'[r]) = Cost(resv[r]) + k
    PROVE  AccountsReconcile'
<1> SUFFICES ASSUME NEW a \in Accounts PROVE Holds(a)'
  BY DEF AccountsReconcile, Holds
<1> DEFINE held == SumFunctionOnSet(Estimates, InState(a, "held"))
           sent == SumFunctionOnSet(Estimates, InState(a, "in_flight"))
           paid == SumFunctionOnSet(Actuals, InState(a, "settled"))
           heldNow == SumFunctionOnSet(Estimates', InState(a, "held")')
           sentNow == SumFunctionOnSet(Estimates', InState(a, "in_flight")')
           paidNow == SumFunctionOnSet(Actuals', InState(a, "settled")')
<1>1. ledger[a].reserved = held /\ ledger[a].inFlight = sent /\ ledger[a].spent = paid
  BY DEF AccountsReconcile
<1>2. resv' \in [Runs -> ReservationRow] /\ ledger[a] \in Account
  BY DEF TypeOK
<1>3. /\ Part(resv[r], "held") \in Int /\ Part(resv[r], "in_flight") \in Int
      /\ Cost(resv[r]) \in Int
  BY DEF TypeOK, ReservationRow, Part, Cost
<1>4. /\ heldNow = held + IF a \in {TenantAccount, ProjectOf[r]}
                          THEN Part(resv'[r], "held") - Part(resv[r], "held") ELSE 0
      /\ sentNow = sent + IF a \in {TenantAccount, ProjectOf[r]}
                          THEN Part(resv'[r], "in_flight") - Part(resv[r], "in_flight") ELSE 0
      /\ paidNow = paid + IF a \in {TenantAccount, ProjectOf[r]}
                          THEN Cost(resv'[r]) - Cost(resv[r]) ELSE 0
  BY <1>2, SumsMove
<1>5. held \in Int /\ sent \in Int /\ paid \in Int
  BY <1>1, <1>2 DEF Account
<1> HIDE DEF held, sent, paid, heldNow, sentNow, paidNow
<1>6. /\ ledger'[a].reserved = heldNow
      /\ ledger'[a].inFlight = sentNow
      /\ ledger'[a].spent = paidNow
  <2>1. CASE a \in {TenantAccount, ProjectOf[r]}
    <3>1. ledger'[a] = [reserved |-> held + i, inFlight |-> sent + j, spent |-> paid + k]
      BY <1>1, <2>1 DEF Moves, MovedBy
    <3>2. heldNow = held + i /\ sentNow = sent + j /\ paidNow = paid + k
      BY <1>3, <1>4, <1>5, <2>1
    <3> QED BY <3>1, <3>2
  <2>2. CASE a \notin {TenantAccount, ProjectOf[r]}
    <3>1. ledger'[a] = ledger[a]
      BY <2>2 DEF Moves
    <3>2. heldNow = held /\ sentNow = sent /\ paidNow = paid
      BY <1>4, <1>5, <2>2
    <3> QED BY <1>1, <3>1, <3>2
  <2> QED BY <2>1, <2>2
<1> QED BY <1>6 DEF Holds, heldNow, sentNow, paidNow

LEMMA StepReconciles ==
    ASSUME TypeOK, TypeOK', ClaimsAndAttempts, AccountsReconcile, [Next]_vars
    PROVE  AccountsReconcile'
<1>1. CASE UNCHANGED <<resv, ledger>>
  BY <1>1 DEF AccountsReconcile, Estimates, Actuals, InState
<1>2. ASSUME NEW r \in Runs, NEW q \in QuestionLengths, StartRun(r, q)
      PROVE  AccountsReconcile'
  <2> DEFINE estimate == EstimateMicro(q, MaxOutput)
  <2>1. estimate \in Int
    BY RunsAssumption, BudgetAssumption DEF EstimateMicro
  <2>2. /\ ledger' = Post(ledger, ProjectOf[r], "reserved", estimate)
        /\ resv' = [resv EXCEPT ![r] = [state |-> "held", estimate |-> estimate, actual |-> 0]]
    BY <1>2 DEF StartRun, ReserveMicro
  <2>3. resv[r].state = "none"
    BY <1>2 DEF StartRun, ClaimsAndAttempts, UnclaimedIsUntouched
  <2> HIDE DEF estimate
  <2>4. resv'[r].state = "held" /\ resv'[r].estimate = estimate
    BY <2>2 DEF TypeOK
  <2>5. /\ Part(resv'[r], "held") = Part(resv[r], "held") + estimate
        /\ Part(resv'[r], "in_flight") = Part(resv[r], "in_flight") + 0
        /\ Cost(resv'[r]) = Cost(resv[r]) + 0
    BY <2>1, <2>3, <2>4 DEF Part, Cost
  <2>6. Moves(r, estimate, 0, 0)
    <3>1. ledger \in [Accounts -> Account]
      BY DEF TypeOK
    <3> QED BY <2>1, <2>2, <3>1, PostColumns DEF Moves
  <2>7. \A p \in Runs \ {r} : resv'[p] = resv[p]
    BY <2>2 DEF TypeOK
  <2> QED BY <2>1, <2>5, <2>6, <2>7, PostedHolds
<1>3. ASSUME NEW w \in Workers, worker[w].pc # "idle",
             \/ /\ resv[worker[w].run].state = "held"
                /\ resv' = [resv EXCEPT ![worker[w].run].state = "in_flight"]
                /\ ledger' = HoldToInFlight(ledger, ProjectOf[worker[w].run],
                                            resv[worker[w].run].estimate)
             \/ /\ resv[worker[w].run].state = "in_flight"
                /\ SettledUsage(w) # NoUsage
                /\ Settle(w)
             \/ /\ resv[worker[w].run].state \in {"held", "in_flight"}
                /\ resv' = [resv EXCEPT ![worker[w].run].state = "released"]
                /\ ledger' = ReleaseMicro(ledger, ProjectOf[worker[w].run],
                                          resv[worker[w].run].state,
                                          resv[worker[w].run].estimate)
      PROVE  AccountsReconcile'
  <2> DEFINE r == worker[w].run
             p == ProjectOf[r]
             est == resv[r].estimate
  <2>1. r \in Runs
    BY <1>3, RunOfBusy
  <2>2. resv \in [Runs -> ReservationRow] /\ resv[r] \in ReservationRow
        /\ est \in Nat /\ ledger \in [Accounts -> Account]
    BY <2>1 DEF TypeOK, ReservationRow
  <2>3. \A a \in Accounts : /\ ledger[a].reserved \in Int /\ ledger[a].inFlight \in Int
                            /\ ledger[a].spent \in Int /\ ledger[a] \in Account
    BY <2>2 DEF Account
  <2>4. \A q \in Runs \ {r} : resv'[q] = resv[q]
    BY <1>3, <2>1, <2>2 DEF Settle
  <2>5. CASE /\ resv[r].state = "held"
             /\ resv' = [resv EXCEPT ![r].state = "in_flight"]
             /\ ledger' = HoldToInFlight(ledger, p, est)
    <3>1. resv'[r].state = "in_flight" /\ resv'[r].estimate = est
      BY <2>1, <2>2, <2>5 DEF ReservationRow
    <3>2. /\ Part(resv'[r], "held") = Part(resv[r], "held") + (0 - est)
          /\ Part(resv'[r], "in_flight") = Part(resv[r], "in_flight") + est
          /\ Cost(resv'[r]) = Cost(resv[r]) + 0
      BY <2>2, <2>5, <3>1 DEF Part, Cost
    <3>3. 0 - est \in Int /\ est \in Int
      BY <2>2
    <3>4. ledger' = Post(Post(ledger, p, "reserved", 0 - est), p, "inFlight", est)
      BY <2>5 DEF HoldToInFlight, Transfer
    <3> HIDE DEF est, p
    <3>5. Moves(r, 0 - est, est, 0)
      BY <2>2, <3>3, <3>4, PostTwice DEF Moves, p
    <3> QED BY <2>1, <2>4, <3>2, <3>3, <3>5, PostedHolds
  <2>6. CASE resv[r].state = "in_flight" /\ SettledUsage(w) # NoUsage /\ Settle(w)
    <3> DEFINE cost == ActualMicro(w)
    <3>1. resv'[r].state = "settled" /\ resv'[r].actual = cost
      BY <2>1, <2>2, <2>6 DEF ReservationRow, Settle
    <3>2. cost \in Int
      <4>1. cost \in Nat
        BY <2>6, ActualType
      <4> QED BY <4>1
    <3>3. ledger' = Post(Post(ledger, p, "inFlight", 0 - est), p, "spent", cost)
      BY <2>6 DEF Settle, SettleMicro
    <3> HIDE DEF cost
    <3>4. /\ Part(resv'[r], "held") = Part(resv[r], "held") + 0
          /\ Part(resv'[r], "in_flight") = Part(resv[r], "in_flight") + (0 - est)
          /\ Cost(resv'[r]) = Cost(resv[r]) + cost
      BY <2>2, <2>6, <3>1, <3>2 DEF Part, Cost
    <3>5. 0 - est \in Int
      BY <2>2
    <3> HIDE DEF est, p
    <3>6. Moves(r, 0, 0 - est, cost)
      BY <2>2, <3>2, <3>3, <3>5, PostTwice DEF Moves, p
    <3> QED BY <2>1, <2>4, <3>2, <3>4, <3>5, <3>6, PostedHolds
  <2>7. CASE /\ resv[r].state \in {"held", "in_flight"}
             /\ resv' = [resv EXCEPT ![r].state = "released"]
             /\ ledger' = ReleaseMicro(ledger, p, resv[r].state, est)
    <3>1. resv'[r].state = "released"
      BY <2>1, <2>2, <2>7 DEF ReservationRow
    <3>2. /\ Part(resv'[r], "held") = Part(resv[r], "held")
               + (IF resv[r].state = "held" THEN 0 - est ELSE 0)
          /\ Part(resv'[r], "in_flight") = Part(resv[r], "in_flight")
               + (IF resv[r].state = "in_flight" THEN 0 - est ELSE 0)
          /\ Cost(resv'[r]) = Cost(resv[r]) + 0
      BY <2>2, <2>7, <3>1 DEF Part, Cost
    <3>3. 0 - est \in Int
      BY <2>2
    <3>4. CASE resv[r].state = "held"
      <4>1. ledger' = Post(ledger, p, "reserved", 0 - est)
        BY <2>7, <3>4 DEF ReleaseMicro
      <4>2. /\ Part(resv'[r], "held") = Part(resv[r], "held") + (0 - est)
            /\ Part(resv'[r], "in_flight") = Part(resv[r], "in_flight") + 0
        BY <3>2, <3>4
      <4> HIDE DEF est, p
      <4>3. Moves(r, 0 - est, 0, 0)
        BY <2>2, <3>3, <4>1, PostColumns DEF Moves, p
      <4> QED BY <2>1, <2>4, <3>2, <3>3, <4>2, <4>3, PostedHolds
    <3>5. CASE resv[r].state = "in_flight"
      <4>1. ledger' = Post(ledger, p, "inFlight", 0 - est)
        BY <2>7, <3>5 DEF ReleaseMicro
      <4>2. /\ Part(resv'[r], "held") = Part(resv[r], "held") + 0
            /\ Part(resv'[r], "in_flight") = Part(resv[r], "in_flight") + (0 - est)
        BY <3>2, <3>5
      <4> HIDE DEF est, p
      <4>3. Moves(r, 0, 0 - est, 0)
        BY <2>2, <3>3, <4>1, PostColumns DEF Moves, p
      <4> QED BY <2>1, <2>4, <3>2, <3>3, <4>2, <4>3, PostedHolds
    <3> QED BY <2>7, <3>4, <3>5
  <2> QED BY <1>3, <2>5, <2>6, <2>7
<1>4. ASSUME NEW w \in Workers, WorkerStep(w) PROVE AccountsReconcile'
  <2>1. CASE UNCHANGED <<resv, ledger>>
    BY <1>1, <2>1
  <2>2. CASE MarkDispatched(w)
    BY <1>1, <1>3, <2>2 DEF MarkDispatched
  <2>3. CASE FinishRun(w)
    BY <1>1, <1>3, <2>3 DEF FinishRun, KeepExposure
  <2>4. CASE FailUnsent(w)
    BY <1>1, <1>3, <2>4 DEF FailUnsent
  <2>5. CASE FailSent(w)
    BY <1>1, <1>3, <2>5 DEF FailSent
  <2>6. CASE RequireReconciliation(w)
    BY <1>1, <2>6 DEF RequireReconciliation, KeepExposure
  <2>7. CASE \/ FindStoredResult(w) \/ Replay(w) \/ BuildContext(w) \/ CallProvider(w)
             \/ ProviderReturns(w) \/ RecordResult(w) \/ ValidateCitations(w)
    BY <1>1, <2>7 DEF FindStoredResult, Replay, BuildContext, CallProvider,
       ProviderReturns, RecordResult, ValidateCitations
  <2> QED BY <1>4, <2>2, <2>3, <2>4, <2>5, <2>6, <2>7 DEF WorkerStep
<1>5. ASSUME \/ \E r \in Runs : ExpireLease(r)
             \/ \E w \in Workers, r \in Runs : ClaimRun(w, r)
             \/ \E w \in Workers : Crash(w)
             \/ UNCHANGED vars
      PROVE  AccountsReconcile'
  <2>1. ASSUME NEW r \in Runs, ExpireLease(r) PROVE UNCHANGED <<resv, ledger>>
    BY <2>1 DEF ExpireLease
  <2>2. ASSUME NEW w \in Workers, NEW r \in Runs, ClaimRun(w, r)
        PROVE  UNCHANGED <<resv, ledger>>
    BY <2>2 DEF ClaimRun
  <2>3. ASSUME NEW w \in Workers, Crash(w) PROVE UNCHANGED <<resv, ledger>>
    BY <2>3 DEF Crash
  <2>4. ASSUME UNCHANGED vars PROVE UNCHANGED <<resv, ledger>>
    BY <2>4 DEF vars
  <2> QED BY <1>1, <1>5, <2>1, <2>2, <2>3, <2>4
<1> QED BY <1>2, <1>4, <1>5 DEF Next

\* The two rows of the ledger never drift from the reservations: whatever crashes,
\* reclaims and late workers there are, each column is the sum of the reservations that
\* are in its state, for any number of runs and projects.
THEOREM AccountsAddUp == Spec => []AccountsReconcile
<1>1. Init => AccountsReconcile
  <2> SUFFICES ASSUME Init, NEW a \in Accounts PROVE Holds(a)
    BY DEF AccountsReconcile, Holds
  <2>1. \A state \in {"held", "in_flight", "settled"} : InState(a, state) = {}
    BY DEF Init, InState
  <2>2. ledger[a] = [reserved |-> 0, inFlight |-> 0, spent |-> 0]
    BY DEF Init, EmptyLedger
  <2> QED BY <2>1, <2>2, SumOfNothing DEF Holds
<1>2. TypeInv => TypeOK
  BY DEF TypeInv
<1>3. Init => TypeInv
  BY InitTypeOK DEF TypeInv, BusyWorkersHaveRuns, Init, IdleWorker
<1>4. TypeInv /\ TypeInv' /\ ClaimsAndAttempts /\ AccountsReconcile /\ [Next]_vars
        => AccountsReconcile'
  BY StepReconciles DEF TypeInv
<1> QED BY <1>1, <1>3, <1>4, InitClaims, StepType, StepClaims, PTL DEF Spec

\* What an account shows is never negative, though every posting subtracts blindly (the
\* CHECKs of migration 0010 on the columns of both tables never fail), and no
\* reservation is larger than the column it lies in.
THEOREM ColumnsAreNeverNegative ==
    Spec => []\A a \in Accounts :
                /\ ledger[a] \in [reserved : Nat, inFlight : Nat, spent : Nat]
                /\ \A r \in InState(a, "held") : resv[r].estimate <= ledger[a].reserved
                /\ \A r \in InState(a, "in_flight") : resv[r].estimate <= ledger[a].inFlight
<1>1. ASSUME TypeOK, AccountsReconcile, NEW a \in Accounts
      PROVE  /\ ledger[a] \in [reserved : Nat, inFlight : Nat, spent : Nat]
             /\ \A r \in InState(a, "held") : resv[r].estimate <= ledger[a].reserved
             /\ \A r \in InState(a, "in_flight") : resv[r].estimate <= ledger[a].inFlight
  <2>1. ASSUME NEW state
        PROVE  /\ SumFunctionOnSet(Estimates, InState(a, state)) \in Nat
               /\ SumFunctionOnSet(Actuals, InState(a, state)) \in Nat
               /\ \A r \in InState(a, state) :
                    resv[r].estimate <= SumFunctionOnSet(Estimates, InState(a, state))
    <3> DEFINE S == InState(a, state)
    <3>1. S \in SUBSET Runs
      BY DEF InState
    <3>2. \A r \in S : /\ Estimates[r] \in Nat /\ Actuals[r] \in Nat
                       /\ Estimates[r] = resv[r].estimate
      BY <1>1, <3>1 DEF TypeOK, ReservationRow, Estimates, Actuals
    <3> HIDE DEF S
    <3>3. IsFiniteSet(S)
      BY <3>1, RunsAreFinite, FS_Subset
    <3>4. /\ SumFunctionOnSet(Estimates, S) \in Nat
          /\ \A r \in S : Estimates[r] <= SumFunctionOnSet(Estimates, S)
      BY <3>2, <3>3, SumBounds
    <3>5. SumFunctionOnSet(Actuals, S) \in Nat
      BY <3>2, <3>3, SumBounds
    <3> QED BY <3>2, <3>4, <3>5 DEF S
  <2>2. /\ ledger[a].reserved = SumFunctionOnSet(Estimates, InState(a, "held"))
        /\ ledger[a].inFlight = SumFunctionOnSet(Estimates, InState(a, "in_flight"))
        /\ ledger[a].spent = SumFunctionOnSet(Actuals, InState(a, "settled"))
    BY <1>1 DEF AccountsReconcile
  <2>3. ledger[a] \in Account
    BY <1>1 DEF TypeOK
  <2>4. /\ ledger[a].reserved \in Nat /\ ledger[a].inFlight \in Nat /\ ledger[a].spent \in Nat
        /\ \A r \in InState(a, "held") : resv[r].estimate <= ledger[a].reserved
        /\ \A r \in InState(a, "in_flight") : resv[r].estimate <= ledger[a].inFlight
    BY <2>1, <2>2
  <2> QED BY <2>3, <2>4 DEF Account
<1>2. TypeOK /\ AccountsReconcile =>
        \A a \in Accounts :
          /\ ledger[a] \in [reserved : Nat, inFlight : Nat, spent : Nat]
          /\ \A r \in InState(a, "held") : resv[r].estimate <= ledger[a].reserved
          /\ \A r \in InState(a, "in_flight") : resv[r].estimate <= ledger[a].inFlight
  BY <1>1
<1> QED BY <1>2, TypeCorrect, AccountsAddUp, PTL
=============================================================================
