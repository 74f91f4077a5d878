----------------------------- MODULE RunPromise -----------------------------
(***************************************************************************)
(* What a teaching run promises to the learner who asked and to the tenant *)
(* who pays, without leases, tokens, workers or crashes: the provider is   *)
(* asked at most once, a result that was stored is the answer that is      *)
(* shown and is never thrown away, a run ends once, and the money moves    *)
(* only one way.                                                           *)
(*                                                                         *)
(* TeachingRuns implements it: RunStatus and the attempt and reservation   *)
(* states of teaching/models.py and budget/ports.py, and the statements of *)
(* db/teaching_store.py that change them.                                  *)
(***************************************************************************)
CONSTANTS Runs, Results, NoResult

VARIABLES
    phase,   \* where the run is, for the one who asked
    request, \* how far the one request to the provider has come
    stored,  \* the result on record
    shown,   \* the answer in the conversation
    money    \* where the estimate of the run is

promiseVars == <<phase, request, stored, shown, money>>

Phases == {"none", "open", "succeeded", "failed", "reconciliation_required"}
Requests == {"unsent", "dispatched", "lost", "received"}

PromiseInit ==
    /\ phase = [r \in Runs |-> "none"]
    /\ request = [r \in Runs |-> "unsent"]
    /\ stored = [r \in Runs |-> NoResult]
    /\ shown = [r \in Runs |-> NoResult]
    /\ money = [r \in Runs |-> "none"]

Open(r) ==
    /\ phase[r] = "none"
    /\ phase' = [phase EXCEPT ![r] = "open"]
    /\ money' = [money EXCEPT ![r] = "held"]
    /\ UNCHANGED <<request, stored, shown>>

\* The request is announced before it is sent, and from then on may cost.
Announce(r) ==
    /\ phase[r] = "open" /\ request[r] = "unsent" /\ money[r] = "held"
    /\ request' = [request EXCEPT ![r] = "dispatched"]
    /\ money' = [money EXCEPT ![r] = "in_flight"]
    /\ UNCHANGED <<phase, stored, shown>>

\* The request leaves, once, even if its run has ended meanwhile.
Ask(r) ==
    /\ request[r] = "dispatched"
    /\ \E fate \in {"lost", "received"} : request' = [request EXCEPT ![r] = fate]
    /\ UNCHANGED <<phase, stored, shown, money>>

Store(r, result) ==
    /\ phase[r] = "open" /\ request[r] = "received" /\ stored[r] = NoResult
    /\ stored' = [stored EXCEPT ![r] = result]
    /\ UNCHANGED <<phase, request, shown, money>>

\* The cost of a request is settled if it is known, or stays in flight.
Succeed(r) ==
    /\ phase[r] = "open" /\ stored[r] # NoResult /\ money[r] = "in_flight"
    /\ phase' = [phase EXCEPT ![r] = "succeeded"]
    /\ shown' = [shown EXCEPT ![r] = stored[r]]
    /\ \E s \in {"in_flight", "settled"} : money' = [money EXCEPT ![r] = s]
    /\ UNCHANGED <<request, stored>>

\* Never after a result was stored; charged only for a request that was received.
Fail(r) ==
    /\ phase[r] = "open" /\ stored[r] = NoResult
    /\ phase' = [phase EXCEPT ![r] = "failed"]
    /\ \/ money' = [money EXCEPT ![r] = "released"]
       \/ /\ request[r] = "received" /\ money[r] = "in_flight"
          /\ money' = [money EXCEPT ![r] = "settled"]
    /\ UNCHANGED <<request, stored, shown>>

\* Only what was sent has to be reconciled, and it stays in flight.
HandOver(r) ==
    /\ phase[r] = "open" /\ stored[r] = NoResult /\ money[r] = "in_flight"
    /\ request[r] \in {"lost", "received"}
    /\ phase' = [phase EXCEPT ![r] = "reconciliation_required"]
    /\ UNCHANGED <<request, stored, shown, money>>

PromiseNext ==
    \E r \in Runs :
        \/ Open(r) \/ Announce(r) \/ Ask(r) \/ Succeed(r) \/ Fail(r) \/ HandOver(r)
        \/ \E result \in Results : Store(r, result)

PromiseSpec == PromiseInit /\ [][PromiseNext]_promiseVars
=============================================================================
