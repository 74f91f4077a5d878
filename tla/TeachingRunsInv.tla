-------------------------- MODULE TeachingRunsInv --------------------------
(***************************************************************************)
(* Why a teaching run is safe: the inductive invariant behind the safety   *)
(* properties of TeachingRuns.  The token of a claim names its worker, the *)
(* attempt row names the token that may send, record and reconcile, and    *)
(* the position of a worker tells what its attempt row holds.              *)
(***************************************************************************)
EXTENDS TeachingRuns

Busy(w) == worker[w].pc # "idle"

Attempt(w) == attempt[worker[w].run]

\* A busy worker works for a run, under a token no other worker has.
TokenNames(w) ==
    /\ Busy(w) => worker[w].run \in Runs /\ worker[w].token \in Tokens
    /\ ~Busy(w) => worker[w].token = NoToken
    /\ \A v \in Workers : Busy(w) /\ v # w => worker[v].token # worker[w].token

\* Before the dispatch no attempt row has the worker's id.
NotYetDispatched(w) ==
    worker[w].pc \in {"lookup", "context", "dispatch"} =>
        \A r \in Runs : attempt[r].id # worker[w].token

Refused(w) == worker[w].pc = "fail" /\ worker[w].sent

\* Between the dispatch and the recorded outcome the attempt is the worker's own,
\* and nobody else has called the provider.
OwnsAttempt(w) ==
    worker[w].pc \in {"call", "waiting", "record", "reconcile"} \/ Refused(w) =>
        /\ Attempt(w).status = "dispatched"
        /\ Attempt(w).id = worker[w].token
        /\ calls[worker[w].run] = IF worker[w].pc = "call" THEN 0 ELSE 1

\* A worker that knows an outcome knows it from the provider.
OutcomeIsDelivered(w) ==
    /\ worker[w].pc = "record" => delivered[worker[w].run] /\ worker[w].answer = 1
    /\ Refused(w) => delivered[worker[w].run]

\* A worker that finishes carries the answer of the completed attempt.
CarriesStoredResult(w) ==
    worker[w].pc \in {"validate", "finish"} =>
        /\ Attempt(w).status = "completed"
        /\ worker[w].answer = Attempt(w).answer

WorkerKnows(w) ==
    /\ TokenNames(w)
    /\ NotYetDispatched(w)
    /\ OwnsAttempt(w)
    /\ OutcomeIsDelivered(w)
    /\ CarriesStoredResult(w)

\* What an attempt row says of the calls made for its run.
AttemptTellsCalls(r) ==
    /\ calls[r] <= 1
    /\ attempt[r].status = "none" =>
         calls[r] = 0 /\ ~delivered[r] /\ attempt[r].id = NoToken
    /\ attempt[r].answer # 0 <=> attempt[r].status = "completed"
    /\ attempt[r].status = "completed" => delivered[r]

\* A run that has not been claimed has no attempt, one not started no reservation.
UnclaimedIsUntouched(r) ==
    /\ run[r].status \in {"none", "queued"} => attempt[r].status = "none"
    /\ run[r].status = "none" => resv[r].state = "none"

\* What every worker knows of its run is true, and every attempt row tells what was
\* sent.  With TypeOK this implies AtMostOneProviderCall and is inductive; it is what
\* makes AnswerIsTheStoredResult and CostFollowsOutcome inductive.
ClaimsAndAttempts ==
    /\ \A w \in Workers : WorkerKnows(w)
    /\ \A r \in Runs : AttemptTellsCalls(r) /\ UnclaimedIsUntouched(r)

-----------------------------------------------------------------------------
(* The refinement of RunPromise.                                           *)

\* A holder that may still fail its run as unsent has no stored result to lose: it
\* looked for one under its claim, and only the holder stores.
NoResultToLose(w) ==
    /\ worker[w].pc \in {"context", "dispatch"} \/ (worker[w].pc = "fail" /\ ~worker[w].sent)
    /\ HoldsClaim(w)
    => Attempt(w).answer = 0

\* What was delivered was sent.
SentIfDelivered(r) == delivered[r] => calls[r] > 0

Phase(r) == IF run[r].status \in {"queued", "running"} THEN "open" ELSE run[r].status

Request(r) ==
    CASE delivered[r] -> "received"
      [] ~delivered[r] /\ calls[r] > 0 -> "lost"
      [] ~delivered[r] /\ calls[r] = 0 ->
           IF attempt[r].status = "none" THEN "unsent" ELSE "dispatched"

\* The answer of a run is that of its first call.
Promise ==
    INSTANCE RunPromise WITH
        Results <- {1}, NoResult <- 0,
        phase <- [r \in Runs |-> Phase(r)],
        request <- [r \in Runs |-> Request(r)],
        stored <- [r \in Runs |-> attempt[r].answer],
        shown <- answer,
        money <- [r \in Runs |-> resv[r].state]

\* With leases that pass, reclaims, replays and crashes, a run still does what was
\* promised: one request, no stored result thrown away or replaced, one end, and money
\* that moves with them (db/teaching_store.py, teaching/service.py).
KeepsPromise == Promise!PromiseSpec
=============================================================================
