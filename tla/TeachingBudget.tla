--------------------------- MODULE TeachingBudget ---------------------------
(***************************************************************************)
(* The integer money accounts behind teaching runs (budget/ports.py and    *)
(* db/budget_store.py).  Every run reserves its worst case in two          *)
(* materialised rows at once, the tenant's and the project's; the three    *)
(* columns of a row are moved by the operators below, always inside the    *)
(* transaction of the caller, with both rows locked tenant first.          *)
(*                                                                         *)
(* A ledger is a function from accounts to rows.  The operators are pure:  *)
(* the callers in TeachingRuns say when a row changes.                     *)
(***************************************************************************)
EXTENDS Integers

CONSTANTS
    Projects,       \* the projects of the one tenant modelled
    TenantAccount,  \* the tenant's own aggregate row
    TotalMicro,     \* budget_total_micro, the same for both levels
    MaxInput,       \* budget_max_input_tokens
    MaxOutput       \* budget_max_output_tokens

ASSUME BudgetAssumption ==
    /\ TenantAccount \notin Projects
    /\ TotalMicro \in Nat
    /\ MaxInput \in Nat \ {0}
    /\ MaxOutput \in Nat \ {0}

Accounts == {TenantAccount} \cup Projects

Account == [reserved : Int, inFlight : Int, spent : Int]

EmptyLedger == [a \in Accounts |-> [reserved |-> 0, inFlight |-> 0, spent |-> 0]]

\* One micro unit per input token, two per output token.
EstimateMicro(input, output) == input + 2 * output

\* total - (reserved + in flight) - spent
Available(account) ==
    TotalMicro - (account.reserved + account.inFlight) - account.spent

\* The four gates a reservation has to pass.
AssertCapacity(ledger, project, input, output) ==
    /\ input <= MaxInput
    /\ output <= MaxOutput
    /\ EstimateMicro(input, output) <= Available(ledger[project])
    /\ EstimateMicro(input, output) <= Available(ledger[TenantAccount])

\* Add an amount (possibly negative) to one column of both rows of a project.
Post(ledger, project, column, amount) ==
    [a \in Accounts |->
        IF a \in {TenantAccount, project}
        THEN [ledger[a] EXCEPT ![column] = @ + amount]
        ELSE ledger[a]]

\* Move an amount from one column to another, in both rows.
Transfer(ledger, project, from, to, amount) ==
    Post(Post(ledger, project, from, 0 - amount), project, to, amount)

ReserveMicro(ledger, project, estimate) ==
    Post(ledger, project, "reserved", estimate)

HoldToInFlight(ledger, project, estimate) ==
    Transfer(ledger, project, "reserved", "inFlight", estimate)

\* Mutant: only the actual cost leaves the in-flight column, the rest of the
\* estimate stays there for ever.
SettleKeepsDifference(ledger, project, estimate, actual) ==
    Post(Post(ledger, project, "inFlight", 0 - actual), project, "spent", actual)

\* The whole estimate leaves the in-flight column, the actual cost is spent.
SettleMicro(ledger, project, estimate, actual) ==
    Post(Post(ledger, project, "inFlight", 0 - estimate), project, "spent", actual)

ReleaseMicro(ledger, project, state, estimate) ==
    Post(ledger, project,
         IF state = "in_flight" THEN "inFlight" ELSE "reserved", 0 - estimate)
=============================================================================
