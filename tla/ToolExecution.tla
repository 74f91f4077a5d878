---------------------------- MODULE ToolExecution ----------------------------
(***************************************************************************)
(* One interaction, from the idempotency key to the closing of its budget: *)
(*                                                                         *)
(*   workflow/runtime.py       the key table with its condition variable,  *)
(*                             the order of the steps of a tool call       *)
(*   execution/outbox.py       dispatch: intent, effect, outcome; reconcile*)
(*   execution/state_machine.py  logical actions                           *)
(*   execution/confirmation.py, db/confirmation_store.py                   *)
(*   policy/gateway.py, policy/token.py   the decisions the steps consult  *)
(*   budget/ledger.py          see BudgetTree                              *)
(*                                                                         *)
(* Requests run in threads of one process.  An action is a step under a    *)
(* lock, a statement of the confirmation store, an append to the audit     *)
(* sink or a call of a tool.  All of this but the confirmations and the    *)
(* audit file lives in memory, so a crash of the process ends a behaviour. *)
(*                                                                         *)
(* A request is a run: the run id is the hash of the request's own id.  A  *)
(* node is the list of tools its handler calls.  The sink is reduced to    *)
(* what a caller can see of it: an append is accepted, is refused (sink    *)
(* down: high risk always, low risk when the buffer is full) or breaks on  *)
(* the disk.                                                               *)
(***************************************************************************)
EXTENDS BudgetTree, Sequences

CONSTANTS
    Keys, KeyOf, NoKey,      \* the client's idempotency key of a request, if any
    ContentOf,               \* its fingerprint
    ParamsOf,                \* the parameters among it, which a logical action is named by
    Loads,                   \* bound: the sets of requests that come together
    Tools, Script,           \* the tools the handler of a request calls, in order
    HighImpact,              \* tools of authority A2
    Unsupported,             \* tools whose policy decision carries an obligation nobody supports
    Optional,                \* tools whose failure the handler catches
    MayStopAfter,            \* tools after which the handler may be satisfied
    NodeGrant,               \* [Runs -> [Dims -> Nat]]: the limits of the node
    CallCost,                \* [Tools -> [Dims -> Nat]]: upper bounds of a call
    Spends,                  \* [Tools -> SUBSET Nat]: what the calls may turn out to cost
    Counter, Cost,           \* the two dimensions of a call
    Confirmations, NoConfirmation, ConfirmationOf,
    Covers,                  \* the pairs of request and tool a confirmation was shown for
    Ceiling,                 \* the cost it was shown with
    BufferCapacity,
    MaxFaults                \* bound, for each load: outages of the sink, errors of disk or
                             \* database, outcomes nobody knows, revocations

Calls == {c \in Runs \X (1..MaxCalls) : c[2] <= Len(Script[c[1]])}
ToolOf(c) == Script[c[1]][c[2]]

\* Tool and parameters, not the run.
LogicalId(c) == <<ToolOf(c), ParamsOf[c[1]]>>
LogicalIds == {LogicalId(c) : c \in Calls}

ASSUME ToolExecutionAssumption ==
    /\ NoKey \notin Keys /\ KeyOf \in [Runs -> Keys \cup {NoKey}]
    /\ \A q, r \in Runs : ContentOf[q] = ContentOf[r] =>
         /\ Script[q] = Script[r]
         /\ ParamsOf[q] = ParamsOf[r]
         /\ ConfirmationOf[q] = ConfirmationOf[r]
    /\ Loads \subseteq SUBSET Runs
    /\ Script \in [Runs -> Seq(Tools)]
    /\ \A r \in Runs : Len(Script[r]) <= MaxCalls
    /\ HighImpact \subseteq Tools /\ Unsupported \subseteq Tools
    /\ Optional \subseteq Tools /\ MayStopAfter \subseteq Tools
    /\ Dims = {Counter, Cost} /\ Counter # Cost
    /\ NodeGrant \in [Runs -> [Dims -> Nat]]
    /\ CallCost \in [Tools -> [Dims -> Nat]]
    /\ \A t \in Tools : CallCost[t][Counter] = 1 /\ Spends[t] \subseteq 0..CallCost[t][Cost]
    /\ NoConfirmation \notin Confirmations
    /\ ConfirmationOf \in [Runs -> Confirmations \cup {NoConfirmation}]
    /\ \A c \in Confirmations : Covers[c] \subseteq Runs \X Tools /\ Ceiling[c] \in Nat
    /\ BufferCapacity \in Nat /\ MaxFaults \in [Loads -> Nat]

VARIABLES
    req,      \* the thread of a request: where it is, its call, token and result
    entry,    \* the idempotency table
    conf,     \* confirmations: status, is it before expires_at
    action,   \* the state of the logical action of each call
    listed,   \* the state machine's index: the last action planned for a logical id
    ledger,   \* see BudgetTree
    sink,     \* is it up, how much is buffered
    epoch,    \* revocation epoch
    faults,   \* bound: how many so far
    intents,  \* history: calls whose intent is in the trail
    ran       \* history: calls whose tool was called

vars == <<req, entry, conf, action, listed, ledger, sink, epoch, faults, intents, ran>>

RequestPc == {"never", "new", "waiting", "awake", "late", "admission", "authorise", "reserve",
              "consume", "dispatch", "tool", "report", "reject", "finish", "settle", "done"}
Results == {"none", "ok", "denied", "failed", "reconciliation_required", "raised"}
ActionState == {"none", "planned", "dispatched", "acknowledged", "failed", "unknown"}

\* Who holds the table's lock never keeps it over a step.
Executing == {"admission", "authorise", "reserve", "consume", "dispatch", "tool", "report",
              "reject", "finish", "settle"}

NoEntry == [state |-> "none", content |-> NoKey, owner |-> NoAccount]

Init ==
    /\ \E load \in Loads :
         req = [r \in Runs |-> [pc |-> IF r \in load THEN "new" ELSE "never", k |-> 0,
                                epoch |-> 0, result |-> "none", code |-> "other", of |-> r]]
    /\ entry = [x \in Keys |-> NoEntry]
    /\ conf = [c \in Confirmations |-> [status |-> "none", live |-> FALSE]]
    /\ action = [c \in Calls |-> "none"]
    /\ listed = [i \in LogicalIds |-> <<>>]
    /\ ledger = EmptyLedger
    /\ sink = [up |-> TRUE, buffered |-> 0]
    /\ epoch = 0
    /\ faults = 0
    /\ intents = {}
    /\ ran = {}

Fault ==
    /\ faults < MaxFaults[{r \in Runs : req[r].pc # "never"}]
    /\ faults' = faults + 1

Current(r) == <<r, req[r].k>>
Tool(r) == ToolOf(Current(r))
At(r, pc) == req[r].pc = pc
Goto(r, pc) == req' = [req EXCEPT ![r].pc = pc]

-----------------------------------------------------------------------------
(* The idempotency table.                                                  *)

\* notify_all: one condition variable for every key.
Awake(threads) ==
    [r \in Runs |-> IF threads[r].pc = "waiting" THEN [threads[r] EXCEPT !.pc = "awake"]
                    ELSE threads[r]]

Answered(r, result, of) ==
    req' = [req EXCEPT ![r] = [@ EXCEPT !.pc = "done", !.result = result, !.of = of]]

\* Mutant: look first, register when the work is done.
TakeWhenPending(r) ==
    /\ entry[KeyOf[r]].state \in {"none", "released", "pending"}
    /\ entry' = [entry EXCEPT ![KeyOf[r]] =
                   [state |-> "pending", content |-> ContentOf[r], owner |-> r]]
    /\ Goto(r, "admission")

\* Nobody has the key, or its owner gave it back.
Take(r) ==
    /\ entry[KeyOf[r]].state \in {"none", "released"}
    /\ entry' = [entry EXCEPT ![KeyOf[r]] =
                   [state |-> "pending", content |-> ContentOf[r], owner |-> r]]
    /\ Goto(r, "admission")

\* One turn of the loop of _claim_idempotency, under the lock.  The fingerprint is
\* compared in every state of the entry.
ClaimKey(r) ==
    LET e == entry[KeyOf[r]]
        violated == e.state # "none" /\ e.content # ContentOf[r] IN
    /\ req[r].pc \in {"new", "awake", "late"}
    /\ KeyOf[r] # NoKey
    /\ \/ violated /\ Answered(r, "denied", r) /\ UNCHANGED entry
       \/ ~violated /\ Take(r)
       \/ /\ ~violated /\ e.state = "completed"
          /\ Answered(r, "ok", e.owner) /\ UNCHANGED entry
       \/ /\ ~violated /\ e.state = "pending" /\ UNCHANGED entry
          /\ IF At(r, "late") THEN Answered(r, "failed", r) ELSE Goto(r, "waiting")
    /\ UNCHANGED <<conf, action, listed, ledger, sink, epoch, faults, intents, ran>>

WithoutKey(r) ==
    /\ At(r, "new") /\ KeyOf[r] = NoKey
    /\ Goto(r, "admission")
    /\ UNCHANGED <<entry, conf, action, listed, ledger, sink, epoch, faults, intents, ran>>

\* IDEMPOTENCY_WAIT_SECONDS pass: the loop runs once more.
WaitTooLong(r) ==
    /\ At(r, "waiting")
    /\ Goto(r, "late")
    /\ UNCHANGED <<entry, conf, action, listed, ledger, sink, epoch, faults, intents, ran>>

\* Mutant: the owner gives the key back and wakes nobody.
SettleSilently(r) ==
    /\ At(r, "settle")
    /\ entry' = IF KeyOf[r] = NoKey THEN entry
                ELSE [entry EXCEPT ![KeyOf[r]].state =
                        IF req[r].result = "ok" THEN "completed" ELSE "released"]
    /\ req' = [req EXCEPT ![r].pc = "done"]
    /\ UNCHANGED <<conf, action, listed, ledger, sink, epoch, faults, intents, ran>>

\* Only a success is kept; anything else gives the key back.
SettleKey(r) ==
    /\ At(r, "settle")
    /\ entry' = IF KeyOf[r] = NoKey THEN entry
                ELSE [entry EXCEPT ![KeyOf[r]].state =
                        IF req[r].result = "ok" THEN "completed" ELSE "released"]
    /\ req' = LET ended == [req EXCEPT ![r].pc = "done"] IN
              IF KeyOf[r] = NoKey THEN ended ELSE Awake(ended)
    /\ UNCHANGED <<conf, action, listed, ledger, sink, epoch, faults, intents, ran>>

-----------------------------------------------------------------------------
(* Audit, as its callers see it.                                           *)

Accepts(risk) == sink.up \/ (risk = "low" /\ sink.buffered < BufferCapacity)

Record(risk) ==
    /\ Accepts(risk)
    /\ UNCHANGED faults
    /\ sink' = IF sink.up THEN sink ELSE [sink EXCEPT !.buffered = @ + 1]

\* AUDIT_SINK_UNAVAILABLE
Refused(risk) == ~Accepts(risk) /\ UNCHANGED <<sink, faults>>

\* OSError of the file: not an error of the platform, nobody on the way catches it.
Breaks == sink.up /\ UNCHANGED sink /\ Fault

-----------------------------------------------------------------------------
(* One call.                                                               *)

\* A PlatformError in the handler: caught, if the step was optional.
CallFails(r, result, code) ==
    IF Tool(r) \in Optional
    THEN req' = [req EXCEPT ![r].pc = IF req[r].k < Len(Script[r]) THEN "authorise" ELSE "finish",
                            ![r].k = IF req[r].k < Len(Script[r]) THEN @ + 1 ELSE @]
    ELSE req' = [req EXCEPT ![r].pc = "reject", ![r].result = result, ![r].code = code]

\* Any other exception: it leaves _execute, past the rejection and the closing.
Raises(r) == req' = [req EXCEPT ![r].pc = "settle", ![r].result = "raised"]

\* Mutant: the next step is not limited by what the node declares.
CallSucceedsUnbounded(r) == req' = [req EXCEPT ![r].pc = "authorise", ![r].k = @ + 1]

CallSucceeds(r) ==
    IF req[r].k < Len(Script[r])
    THEN \/ req' = [req EXCEPT ![r].pc = "authorise", ![r].k = @ + 1]
         \/ Tool(r) \in MayStopAfter /\ Goto(r, "finish")
    ELSE Goto(r, "finish")

OpenedTenant ==
    IF ledger.account[Tenant].open THEN ledger
    ELSE OpenAccount(ledger, Tenant, TenantLimit, CompletionReserve)

\* _ensure_budget_tree in one critical section, without a rollback: what was opened
\* stays open when the next grant does not fit.  The input checks before it and the
\* token after it touch nothing shared.
Admit(r) ==
    LET p == ProjectOf[r]
        l1 == OpenedTenant
        grantable == l1.account[p].open \/ Fits(l1, Tenant, ProjectGrant)
        l2 == IF l1.account[p].open \/ ~grantable THEN l1 ELSE GrantToChild(l1, p, ProjectGrant) IN
    /\ At(r, "admission")
    /\ IF grantable /\ Fits(l2, p, NodeGrant[r])
       THEN /\ ledger' = GrantToChild(l2, r, NodeGrant[r])
            /\ req' = [req EXCEPT ![r] =
                 [@ EXCEPT !.epoch = epoch,
                           !.pc = IF Script[r] = <<>> THEN "finish" ELSE "authorise",
                           !.k = IF Script[r] = <<>> THEN 0 ELSE 1]]
       ELSE ledger' = l2 /\ Raises(r)
    /\ UNCHANGED <<entry, conf, action, listed, sink, epoch, faults, intents, ran>>

\* validate_binding: not consumed, not expired, for this request and tool.
Valid(c, r) ==
    /\ conf[c].status = "issued"
    /\ <<r, Tool(r)>> \in Covers[c]

\* peek and decide.  "now" is read once: consume takes the same instant.  The database
\* may fail under peek.
Authorise(r) ==
    LET c == ConfirmationOf[r]
        confirmed == c # NoConfirmation /\ Valid(c, r) /\ conf[c].live IN
    /\ At(r, "authorise")
    /\ \/ /\ UNCHANGED faults
          /\ IF Tool(r) \in HighImpact /\ (~confirmed \/ ~sink.up)
             THEN CallFails(r, "denied", "policy")
             ELSE Goto(r, "reserve")
       \/ Tool(r) \in HighImpact /\ c # NoConfirmation /\ Fault /\ Raises(r)
    /\ UNCHANGED <<entry, conf, action, listed, ledger, sink, epoch, intents, ran>>

\* batch_reserve, then plan: the action replaces that of an earlier run in the index.
Reserve(r) ==
    LET amounts == CallCost[Tool(r)] IN
    /\ At(r, "reserve")
    /\ IF Fits(ledger, r, amounts)
       THEN /\ ledger' = BatchReserve(ledger, r, r, req[r].k, amounts)
            /\ action' = [action EXCEPT ![Current(r)] = "planned"]
            /\ listed' = [listed EXCEPT ![LogicalId(Current(r))] = Current(r)]
            /\ Goto(r, IF Tool(r) \in HighImpact THEN "consume" ELSE "dispatch")
       ELSE /\ CallFails(r, "denied", "other")
            /\ UNCHANGED <<ledger, action, listed>>
    /\ UNCHANGED <<entry, conf, sink, epoch, faults, intents, ran>>

\* Mutant: what was peeked is taken to be still so.
SpendPeeked(r) ==
    /\ CallCost[Tool(r)][Cost] <= Ceiling[ConfirmationOf[r]]
    /\ conf' = [conf EXCEPT ![ConfirmationOf[r]].status = "consumed"]

\* The conditional update: checks and consumption are one step.
Spend(r) ==
    /\ Valid(ConfirmationOf[r], r)
    /\ CallCost[Tool(r)][Cost] <= Ceiling[ConfirmationOf[r]]
    /\ conf' = [conf EXCEPT ![ConfirmationOf[r]].status = "consumed"]

\* A refusal gives the reservations back; an error of the database does not, whether
\* the update was committed or not.
Consume(r) ==
    LET c == ConfirmationOf[r]
        spendable == Valid(c, r) /\ CallCost[Tool(r)][Cost] <= Ceiling[c] IN
    /\ At(r, "consume")
    /\ \/ Spend(r) /\ Goto(r, "dispatch") /\ UNCHANGED <<ledger, faults>>
       \/ /\ ~spendable /\ UNCHANGED <<conf, faults>>
          /\ CallFails(r, "denied", IF Valid(c, r) THEN "other" ELSE "policy")
          /\ ledger' = ReleaseQuietly(ledger, r, req[r].k)
       \/ (Spend(r) \/ UNCHANGED conf) /\ Fault /\ Raises(r) /\ UNCHANGED ledger
    /\ UNCHANGED <<entry, action, listed, sink, epoch, intents, ran>>

\* Token and obligations are verified; then the intent is appended, always as a high
\* risk, before anything happens.  Whatever fails here gives the reservations back.
Dispatch(r) ==
    LET allowed == Tool(r) \notin Unsupported /\ req[r].epoch = epoch
        giveUp == /\ ledger' = ReleaseQuietly(ledger, r, req[r].k)
                  /\ UNCHANGED <<action, intents>> IN
    /\ At(r, "dispatch")
    /\ \/ ~allowed /\ CallFails(r, "denied", "other") /\ giveUp /\ UNCHANGED <<sink, faults>>
       \/ allowed /\ Refused("high") /\ CallFails(r, "denied", "other") /\ giveUp
       \/ allowed /\ Breaks /\ Raises(r) /\ giveUp
       \/ /\ allowed /\ Record("high")
          /\ intents' = intents \cup {Current(r)}
          /\ action' = [action EXCEPT ![Current(r)] = "dispatched"]
          /\ ledger' = MarkInFlight(ledger, CallOf(r, req[r].k, Cost))
          /\ Goto(r, "tool")
    /\ UNCHANGED <<entry, conf, listed, epoch, ran>>

\* The tool is called.  What it did is settled at what it cost, a failure at nothing,
\* an outcome nobody knows stays in flight.
CallTool(r) ==
    LET cost == CallOf(r, req[r].k, Cost) IN
    /\ At(r, "tool")
    /\ ran' = ran \cup {Current(r)}
    /\ \/ /\ action' = [action EXCEPT ![Current(r)] = "acknowledged"]
          /\ \E actual \in Spends[Tool(r)] : ledger' = Settle(ledger, cost, actual)
          /\ UNCHANGED faults
       \/ /\ action' = [action EXCEPT ![Current(r)] = "failed"]
          /\ ledger' = Settle(ledger, cost, 0)
          /\ UNCHANGED faults
       \/ /\ action' = [action EXCEPT ![Current(r)] = "unknown"]
          /\ Fault
          /\ UNCHANGED ledger
    /\ Goto(r, "report")
    /\ UNCHANGED <<entry, conf, listed, sink, epoch, intents>>

\* The outcome is appended, then the call is counted.  If the append fails, the caller
\* gives back what it can: the counter, never the cost.
Report(r) ==
    LET state == action[Current(r)]
        risk == IF state = "unknown" THEN "high" ELSE "low"
        counter == CallOf(r, req[r].k, Counter) IN
    /\ At(r, "report")
    /\ \/ /\ Record(risk)
          /\ ledger' = Settle(MarkInFlight(ledger, counter), counter, 1)
          /\ \/ state = "acknowledged" /\ CallSucceeds(r)
             \/ state = "failed" /\ CallFails(r, "denied", "other")
             \/ state = "unknown" /\ CallFails(r, "reconciliation_required", "other")
       \/ Refused(risk) /\ CallFails(r, "denied", "other")
          /\ ledger' = ReleaseQuietly(ledger, r, req[r].k)
       \/ Breaks /\ Raises(r) /\ ledger' = ReleaseQuietly(ledger, r, req[r].k)
    /\ UNCHANGED <<entry, conf, action, listed, epoch, intents, ran>>

-----------------------------------------------------------------------------
(* The end of an interaction.                                              *)

\* Mutant: a rejected interaction is answered as soon as it is recorded.
RejectAndLeave(r) ==
    LET risk == IF req[r].code = "policy" THEN "high" ELSE "low" IN
    /\ At(r, "reject")
    /\ \/ Record(risk) /\ Goto(r, "settle")
       \/ (Refused(risk) \/ Breaks) /\ Raises(r)
    /\ UNCHANGED <<entry, conf, action, listed, ledger, epoch, intents, ran>>

\* The rejection is recorded before the account is closed: if that fails, it is not.
Reject(r) ==
    LET risk == IF req[r].code = "policy" THEN "high" ELSE "low" IN
    /\ At(r, "reject")
    /\ \/ Record(risk) /\ Goto(r, "finish")
       \/ (Refused(risk) \/ Breaks) /\ Raises(r)
    /\ UNCHANGED <<entry, conf, action, listed, ledger, epoch, intents, ran>>

\* _close_run_quietly: an account with open reservations stays, which is recorded.
Finish(r) ==
    LET result == IF req[r].result = "none" THEN "ok" ELSE req[r].result
        answer == req' = [req EXCEPT ![r].pc = "settle", ![r].result = result] IN
    /\ At(r, "finish")
    /\ \/ ~Outstanding(ledger, r) /\ ledger' = CloseAccount(ledger, r) /\ answer /\ UNCHANGED <<sink, faults>>
       \/ Outstanding(ledger, r) /\ Record("low") /\ answer /\ UNCHANGED ledger
       \/ Outstanding(ledger, r) /\ (Refused("low") \/ Breaks) /\ Raises(r) /\ UNCHANGED ledger
    /\ UNCHANGED <<entry, conf, action, listed, epoch, intents, ran>>

-----------------------------------------------------------------------------
(* Around the interactions.                                                *)

Confirm(c) ==
    /\ conf[c].status = "none"
    /\ conf' = [conf EXCEPT ![c] = [status |-> "issued", live |-> TRUE]]
    /\ UNCHANGED <<req, entry, action, listed, ledger, sink, epoch, faults, intents, ran>>

Expire(c) ==
    /\ conf[c].status = "issued" /\ conf[c].live
    /\ conf' = [conf EXCEPT ![c].live = FALSE]
    /\ UNCHANGED <<req, entry, action, listed, ledger, sink, epoch, faults, intents, ran>>

\* reconcile of a listed action settles the cost, and then raises: the table of
\* transitions has no way from unknown to acknowledged or failed.
Reconcile(i) ==
    /\ listed[i] # <<>>
    /\ action[listed[i]] = "unknown"
    /\ LET cost == CallOf(listed[i][1], listed[i][2], Cost) IN
         /\ ledger.reservation[cost].state = "in_flight"
         /\ \E actual \in Spends[i[1]] : ledger' = Settle(ledger, cost, actual)
    /\ UNCHANGED <<req, entry, conf, action, listed, sink, epoch, faults, intents, ran>>

RevokeAll ==
    /\ Fault
    /\ epoch' = epoch + 1
    /\ UNCHANGED <<req, entry, conf, action, listed, ledger, sink, intents, ran>>

\* set_available: coming back, the buffer is written to the file.
SetAvailable(up) ==
    /\ sink.up # up
    /\ IF up THEN UNCHANGED faults ELSE Fault
    /\ sink' = IF up THEN [sink EXCEPT !.up = TRUE, !.buffered = 0]
               ELSE [sink EXCEPT !.up = FALSE]
    /\ UNCHANGED <<req, entry, conf, action, listed, ledger, epoch, intents, ran>>

RequestStep(r) ==
    \/ ClaimKey(r) \/ WithoutKey(r) \/ Admit(r) \/ Authorise(r) \/ Reserve(r) \/ Consume(r)
    \/ Dispatch(r) \/ CallTool(r) \/ Report(r) \/ Reject(r) \/ Finish(r) \/ SettleKey(r)

Next ==
    \/ \E r \in Runs : RequestStep(r) \/ WaitTooLong(r)
    \/ \E c \in Confirmations : Confirm(c) \/ Expire(c)
    \/ \E i \in LogicalIds : Reconcile(i)
    \/ \E up \in BOOLEAN : SetAvailable(up)
    \/ RevokeAll

Spec == Init /\ [][Next]_vars

\* A thread goes on; nothing else is promised, not even that a wait times out.
FairSpec == Spec /\ \A r \in Runs : WF_vars(RequestStep(r))

-----------------------------------------------------------------------------
(* Properties.                                                             *)

TypeOK ==
    /\ req \in [Runs -> [pc : RequestPc, k : 0..MaxCalls, epoch : Nat, result : Results,
                         code : {"policy", "other"}, of : Runs \cup {NoAccount}]]
    /\ \A r \in Runs : req[r].k <= Len(Script[r])
    /\ entry \in [Keys -> [state : {"none", "pending", "completed", "released"},
                           content : {ContentOf[r] : r \in Runs} \cup {NoKey},
                           owner : Runs \cup {NoAccount}]]
    /\ conf \in [Confirmations -> [status : {"none", "issued", "consumed"}, live : BOOLEAN]]
    /\ action \in [Calls -> ActionState]
    /\ listed \in [LogicalIds -> Calls \cup {<<>>}]
    /\ ledger \in [account : [Accounts -> Account],
                   reservation : [Reservations -> Reservation]]
    /\ sink \in [up : BOOLEAN, buffered : 0..BufferCapacity]
    /\ epoch \in Nat /\ faults \in Nat
    /\ intents \subseteq Calls /\ ran \subseteq Calls

\* What an account shows as reserved is what its open reservations hold, what it shows
\* as consumed is what its settled ones cost, and neither goes past what it may spend:
\* through reservations, releases, settlements, grants and closings in any order
\* (budget/ledger.py).
LedgerReconciles ==
    \A a \in Accounts, d \in Dims :
        /\ ledger.account[a].reserved[d] =
             SumFunctionOnSet(Amounts(ledger), OnAccount(ledger, a, d, Unsettled))
        /\ ledger.account[a].consumed[d] =
             SumFunctionOnSet(Costs(ledger), OnAccount(ledger, a, d, {"settled"}))
        /\ Available(ledger, a, d) >= 0

\* A high-impact tool only ever runs on a confirmation shown for that very call, at no
\* higher cost than shown, and no confirmation carries two calls, however the requests
\* that refer to it interleave between peek and consume (workflow/runtime.py,
\* execution/confirmation.py).
ConfirmedOnce ==
    \A c \in ran : ToolOf(c) \in HighImpact =>
        LET shown == ConfirmationOf[c[1]] IN
        /\ shown # NoConfirmation
        /\ <<c[1], ToolOf(c)>> \in Covers[shown]
        /\ CallCost[ToolOf(c)][Cost] <= Ceiling[shown]
        /\ conf[shown].status = "consumed"
        /\ \A other \in ran :
             ToolOf(other) \in HighImpact /\ ConfirmationOf[other[1]] = shown => other = c

\* A tool that was called has its intent in the trail and its cost on the books: in
\* flight or settled, never given back, also when what follows the call fails.  Only an
\* unknown outcome stays in flight, and the grant of the run stays with it
\* (execution/outbox.py, budget/ledger.py).
WhatRanIsNotForgotten ==
    \A c \in ran :
        LET cost == ledger.reservation[CallOf(c[1], c[2], Cost)] IN
        /\ c \in intents
        /\ cost.state \in {"in_flight", "settled"}
        /\ cost.state = "in_flight" =>
             /\ action[c] = "unknown"
             /\ ledger.reservation[Grant(c[1], Cost)].state = "held"

\* Of the requests with one key at most one executes at any time, and all that succeed
\* carry the result of one execution, with the content they asked for
\* (workflow/runtime.py, _claim_idempotency).
OneExecutionPerKey ==
    \A q, r \in Runs : q # r /\ KeyOf[q] = KeyOf[r] /\ KeyOf[q] # NoKey =>
        /\ ~(req[q].pc \in Executing /\ req[r].pc \in Executing)
        /\ At(q, "done") /\ At(r, "done") /\ req[q].result = "ok" /\ req[r].result = "ok" =>
             /\ req[q].of = req[r].of
             /\ ContentOf[q] = ContentOf[r]

\* An interaction that is answered has given its grant back to the project, unless the
\* outcome of one of its calls is unknown (workflow/runtime.py, _close_run_quietly).  An
\* exception that leaves _execute keeps the grant: it is excluded here.
GrantsComeBack ==
    \A r \in Runs : At(r, "done") /\ req[r].result # "raised" =>
        \/ \A d \in Dims : ledger.reservation[Grant(r, d)].state \in {"none", "settled"}
        \/ \E c \in Calls : c[1] = r /\ action[c] = "unknown"

\* A call whose outcome is unknown is not made again under the same key before it is
\* reconciled (execution/outbox.py, reconcile).  The code does: the key is given back,
\* and the retry, a run of its own, plans an action of its own.
NoRerunBeforeReconciled ==
    [][\A c \in ran, d \in ran' \ ran :
        LogicalId(c) = LogicalId(d) /\ KeyOf[c[1]] = KeyOf[d[1]] /\ KeyOf[c[1]] # NoKey
        => ~(action[c] = "unknown" /\ ledger.reservation[CallOf(c[1], c[2], Cost)].state = "in_flight")
      ]_vars

\* Whoever waits for a key is woken: every request that came ends, without counting on
\* the 30 s limit (workflow/runtime.py, notify_all).
EveryRequestEnds == \A r \in Runs : At(r, "new") ~> At(r, "done")
=============================================================================
