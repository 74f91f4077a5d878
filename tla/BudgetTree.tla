----------------------------- MODULE BudgetTree -----------------------------
(***************************************************************************)
(* The tree of budget accounts behind tool calls (budget/ledger.py):       *)
(* tenant, project, run.  An account is opened with what its parent grants *)
(* it; a call reserves its upper bound, is marked in flight when the tool  *)
(* is called and is settled with what it cost; closing a run gives back    *)
(* what it did not spend.                                                  *)
(*                                                                         *)
(* A ledger is a value: one record per account, one per reservation.  The  *)
(* operators are the methods of BudgetLedger, each atomic under its lock;  *)
(* a method that raises changes nothing, so its test is a guard of the     *)
(* caller.  ToolExecution says when each is called.                        *)
(***************************************************************************)
EXTENDS Integers, FiniteSets, Functions

CONSTANTS
    Tenant, Projects, Runs,  \* the accounts: a root, its children, theirs
    ProjectOf,               \* the project each run belongs to
    NoAccount,
    Dims,                    \* dimensions, accounted for separately
    MaxCalls,                \* bound: tool calls of a run
    TenantLimit,             \* [Dims -> Nat]
    CompletionReserve,       \* [Dims -> Nat]: what the tenant never lends
    ProjectGrant             \* [Dims -> Nat]

ASSUME BudgetTreeAssumption ==
    /\ Tenant \notin Projects /\ Tenant \notin Runs /\ Projects \cap Runs = {}
    /\ NoAccount \notin {Tenant} \cup Projects \cup Runs
    /\ ProjectOf \in [Runs -> Projects]
    /\ MaxCalls \in Nat
    /\ TenantLimit \in [Dims -> Nat]
    /\ CompletionReserve \in [Dims -> Nat]
    /\ ProjectGrant \in [Dims -> Nat]

ASSUME AccountsAreFinite == IsFiniteSet(Projects) /\ IsFiniteSet(Runs)

\* 1 000 000 000 and 10 000 000 micro units for the one dimension that has a reserve.
ASSUME ReserveIsWithinLimit == \A d \in Dims : CompletionReserve[d] <= TenantLimit[d]

Accounts == {Tenant} \cup Projects \cup Runs

Parent(a) ==
    IF a \in Runs THEN ProjectOf[a] ELSE IF a \in Projects THEN Tenant ELSE NoAccount

\* A reservation is named by whom it is for: number 0 is the grant an account was
\* opened with and lies on its parent, number k is the k-th call of a run.
Reservations ==
    [to : Projects \cup Runs, call : {0}, dim : Dims]
        \cup [to : Runs, call : 1..MaxCalls, dim : Dims]
Grant(a, d) == [to |-> a, call |-> 0, dim |-> d]
CallOf(r, k, d) == [to |-> r, call |-> k, dim |-> d]
AccountOf(id) == IF id.call = 0 THEN Parent(id.to) ELSE id.to

ReservationState == {"none", "held", "in_flight", "settled", "released"}
Unsettled == {"held", "in_flight"}

Nothing == [d \in Dims |-> 0]

Account ==
    [open : BOOLEAN, limits : [Dims -> Nat], kept : [Dims -> Nat],
     reserved : [Dims -> Int], consumed : [Dims -> Nat]]
Reservation == [state : ReservationState, amount : Nat, consumed : Nat]

EmptyLedger ==
    [account |-> [a \in Accounts |->
        [open |-> FALSE, limits |-> Nothing, kept |-> Nothing,
         reserved |-> Nothing, consumed |-> Nothing]],
     reservation |-> [id \in Reservations |-> [state |-> "none", amount |-> 0, consumed |-> 0]]]

\* limit - reserved - consumed - completion reserve
Available(ledger, a, d) ==
    ledger.account[a].limits[d] - ledger.account[a].reserved[d]
        - ledger.account[a].consumed[d] - ledger.account[a].kept[d]

Fits(ledger, a, amounts) ==
    ledger.account[a].open /\ \A d \in Dims : amounts[d] <= Available(ledger, a, d)

\* The reservations on account a in dimension d that are in one of these states, what
\* each of them holds and what each has cost.
OnAccount(ledger, a, d, states) ==
    {id \in Reservations : /\ ledger.reservation[id].state \in states
                           /\ id.dim = d /\ AccountOf(id) = a}
Amounts(ledger) == [id \in Reservations |-> ledger.reservation[id].amount]
Costs(ledger) == [id \in Reservations |-> ledger.reservation[id].consumed]

\* What an account shows and what the reservations are, after an operation on both.
Book(ledger, a, reserved, consumed, reservation) ==
    [account |-> [ledger.account EXCEPT ![a] =
                    [@ EXCEPT !.reserved = reserved, !.consumed = consumed]],
     reservation |-> reservation]

HeldFor(ledger, to, k, amounts) ==
    [id \in Reservations |->
        IF id.to = to /\ id.call = k
        THEN [state |-> "held", amount |-> amounts[id.dim], consumed |-> 0]
        ELSE ledger.reservation[id]]

\* All dimensions or none: the caller tests Fits.
BatchReserve(ledger, a, to, k, amounts) ==
    Book(ledger, a,
         [d \in Dims |-> ledger.account[a].reserved[d] + amounts[d]],
         ledger.account[a].consumed,
         HeldFor(ledger, to, k, amounts))

OpenAccount(ledger, a, limits, kept) ==
    [ledger EXCEPT !.account[a] = [open |-> TRUE, limits |-> limits, kept |-> kept,
                                   reserved |-> Nothing, consumed |-> Nothing]]

GrantToChild(ledger, child, amounts) ==
    OpenAccount(BatchReserve(ledger, Parent(child), child, 0, amounts), child, amounts, Nothing)

MarkInFlight(ledger, id) == [ledger EXCEPT !.reservation[id].state = "in_flight"]

\* The caller tests that the reservation is in flight and covers the actual cost.
Settle(ledger, id, actual) ==
    LET a == ledger.account[AccountOf(id)] IN
    Book(ledger, AccountOf(id),
         [a.reserved EXCEPT ![id.dim] = @ - ledger.reservation[id].amount],
         [a.consumed EXCEPT ![id.dim] = @ + actual],
         [ledger.reservation EXCEPT ![id] = [@ EXCEPT !.state = "settled", !.consumed = actual]])

\* Mutant: whatever is not settled is given back.
ReleasableUnlessSettled(ledger, id) == ledger.reservation[id].state \in Unsettled

\* What has been dispatched is not given back.
Releasable(ledger, id) == ledger.reservation[id].state = "held"

\* _release_quietly: both reservations of a call, each if it still may be released.
ReleaseQuietly(ledger, r, k) ==
    Book(ledger, r,
         [d \in Dims |->
            ledger.account[r].reserved[d]
              - IF Releasable(ledger, CallOf(r, k, d))
                THEN ledger.reservation[CallOf(r, k, d)].amount ELSE 0],
         ledger.account[r].consumed,
         [id \in Reservations |->
            IF id.to = r /\ id.call = k /\ Releasable(ledger, id)
            THEN [ledger.reservation[id] EXCEPT !.state = "released"]
            ELSE ledger.reservation[id]])

\* Reservations on the account that are neither settled nor released.
Outstanding(ledger, a) ==
    \E id \in Reservations :
        AccountOf(id) = a /\ ledger.reservation[id].state \in Unsettled

GrantSettled(ledger, a) ==
    [id \in Reservations |->
        IF id.to = a /\ id.call = 0
        THEN [ledger.reservation[id] EXCEPT
                !.state = "settled", !.consumed = ledger.account[a].consumed[id.dim]]
        ELSE ledger.reservation[id]]

\* Mutant: the whole grant is charged to the parent.
CloseChargesGrant(ledger, a) ==
    LET p == ledger.account[Parent(a)] IN
    Book(ledger, Parent(a),
         [d \in Dims |-> p.reserved[d] - ledger.reservation[Grant(a, d)].amount],
         [d \in Dims |-> p.consumed[d] + ledger.reservation[Grant(a, d)].amount],
         GrantSettled(ledger, a))

\* The grant is settled with what the account consumed.  The caller tests Outstanding.
CloseAccount(ledger, a) ==
    LET p == ledger.account[Parent(a)] IN
    Book(ledger, Parent(a),
         [d \in Dims |-> p.reserved[d] - ledger.reservation[Grant(a, d)].amount],
         [d \in Dims |-> p.consumed[d] + ledger.account[a].consumed[d]],
         GrantSettled(ledger, a))
=============================================================================
