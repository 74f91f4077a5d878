-------------------------- MODULE HttpIdempotency --------------------------
(***************************************************************************)
(* Idempotent write commands of the HTTP API.                              *)
(*                                                                         *)
(*   api/http_idempotency.py   claim, complete, release, and the guard     *)
(*                             idempotent_write around an endpoint         *)
(*   api/*_routes.py           what an endpoint does under the guard       *)
(*                                                                         *)
(* A client repeats a request under the same Idempotency-Key while the     *)
(* first one may still be running, may have failed half way, or may have   *)
(* died with its process.  The row of the key decides who executes.  Every *)
(* SQL statement of claim is a step of its own: INSERT and SELECT are one, *)
(* because rows are never deleted, and the conditional UPDATE that may     *)
(* follow acts on a row that has moved on since.  The business transaction *)
(* and the completion of the key are two transactions.                     *)
(*                                                                         *)
(* A request claims at most once, so its owner token is the request.  Keys *)
(* stand for (tenant, principal, command, client key), contents for the    *)
(* fingerprint of a command.                                               *)
(***************************************************************************)
EXTENDS Naturals, FiniteSets

CONSTANTS
    Keys,          \* idempotency keys
    Contents,      \* fingerprints; request_hash is the set of one, or of none
    Requests,      \* HTTP requests, each sent once
    NoRequest,
    TooLarge,      \* the marker cached in place of a response above 64 KiB
    Interactions   \* the keys of the interact endpoint, which answers 200 to
                   \* an interaction that was refused

\* A response tells who executed the command, and whether it was refused.
Response == [by : Requests, refused : BOOLEAN, large : BOOLEAN]
NoBody == [by |-> NoRequest, refused |-> FALSE, large |-> FALSE]
Bodies == Response \cup {NoBody, TooLarge}
CachedBodies == {body \in Response : ~body.large} \cup {NoBody, TooLarge}

ASSUME HttpAssumption ==
    /\ NoRequest \notin Requests
    /\ TooLarge \notin Response \cup {NoBody}
    /\ Interactions \subseteq Keys

VARIABLES
    row,      \* http_idempotency: state, request_hash, owner_token, is the lease
              \* running, response_body
    req,      \* each request: its key and content, where it is, its answer
    effects,  \* history: committed business transactions of the command
    doubts    \* history: how many of them the endpoint then raised for

vars == <<row, req, effects, doubts>>

\* Mutant: a response is cached whatever its size.
Unbounded(body) == body

Bounded(body) == IF body # TooLarge /\ body.large THEN TooLarge ELSE body

NoRow ==
    [state |-> "absent", hash |-> {}, owner |-> NoRequest, live |-> FALSE, body |-> NoBody]

\* "claim" to "release" are the steps of the guard; "answered" and "lost" the end.
RequestPc == {"unsent", "claim", "retake", "expire", "execute", "complete", "release",
              "answered", "lost"}

Status == {"none", "ok", "replay", "in_progress", "violation", "reconcile", "error"}

Init ==
    /\ row = [k \in Keys |-> NoRow]
    /\ req \in [Requests -> {[pc |-> "unsent", key |-> k, content |-> c,
                              status |-> "none", body |-> NoBody] :
                                k \in Keys, c \in Contents}]
    /\ effects = [k \in Keys |-> 0]
    /\ doubts = [k \in Keys |-> 0]

Row(q) == row[req[q].key]

Goto(q, pc) == req' = [req EXCEPT ![q].pc = pc]

Answer(q, status, body) ==
    req' = [req EXCEPT ![q] = [@ EXCEPT !.pc = "answered", !.status = status, !.body = body]]

-----------------------------------------------------------------------------
(* claim                                                                   *)

\* An authenticated request with its key reaches the guard.
Arrive(q) ==
    /\ req[q].pc = "unsent"
    /\ Goto(q, "claim")
    /\ UNCHANGED <<row, effects, doubts>>

\* The row of the key is taken for the request, and its lease starts.
Take(q) ==
    /\ row' = [row EXCEPT ![req[q].key] =
                 [@ EXCEPT !.state = "pending", !.owner = q, !.live = TRUE]]
    /\ Goto(q, "execute")

\* INSERT ... ON CONFLICT DO NOTHING
Insert(q) ==
    /\ req[q].pc = "claim"
    /\ Row(q).state = "absent"
    /\ row' = [row EXCEPT ![req[q].key] =
                 [NoRow EXCEPT !.state = "pending", !.hash = {req[q].content},
                               !.owner = q, !.live = TRUE]]
    /\ Goto(q, "execute")
    /\ UNCHANGED <<effects, doubts>>

\* Mutant: the fingerprint is not compared.
NeverConflicts(q) == FALSE

OtherContent(q) == Row(q).hash # {req[q].content}

\* The row exists: what the SELECT found decides.
Read(q) ==
    /\ req[q].pc = "claim"
    /\ Row(q).state # "absent"
    /\ \/ OtherContent(q) /\ Answer(q, "violation", NoBody)
       \/ /\ ~OtherContent(q)
          /\ \/ Row(q).state = "completed" /\ Answer(q, "replay", Row(q).body)
             \/ Row(q).state = "indeterminate" /\ Answer(q, "reconcile", NoBody)
             \/ Row(q).state = "released" /\ Goto(q, "retake")
             \/ Row(q).state = "pending" /\ Goto(q, "expire")
    /\ UNCHANGED <<row, effects, doubts>>

\* Mutant: what the SELECT found is taken for what the row still is.
RetakeBlindly(q) ==
    /\ req[q].pc = "retake"
    /\ Take(q)
    /\ UNCHANGED <<effects, doubts>>

\* UPDATE ... SET state = 'pending' ... WHERE state = 'released'
Retake(q) ==
    /\ req[q].pc = "retake"
    /\ IF Row(q).state = "released"
       THEN Take(q)
       ELSE Answer(q, "in_progress", NoBody) /\ UNCHANGED row
    /\ UNCHANGED <<effects, doubts>>

\* UPDATE ... SET state = 'indeterminate' ... WHERE state = 'pending' AND the lease
\* has passed: it is not known whether the owner has committed.
MarkIndeterminate(q) ==
    /\ req[q].pc = "expire"
    /\ IF Row(q).state = "pending" /\ ~Row(q).live
       THEN /\ row' = [row EXCEPT ![req[q].key] =
                         [@ EXCEPT !.state = "indeterminate", !.owner = NoRequest]]
            /\ Answer(q, "reconcile", NoBody)
       ELSE Answer(q, "in_progress", NoBody) /\ UNCHANGED row
    /\ UNCHANGED <<effects, doubts>>

-----------------------------------------------------------------------------
(* The endpoint, then complete or release.                                 *)

Commit(q) == effects' = [effects EXCEPT ![req[q].key] = @ + 1]

Returns(q, refused) ==
    \E large \in BOOLEAN :
        req' = [req EXCEPT ![q] = [@ EXCEPT !.pc = "complete",
                    !.body = [by |-> q, refused |-> refused, large |-> large]]]

CommandReturns(q) ==
    /\ req[q].pc = "execute"
    /\ Commit(q)
    /\ Returns(q, FALSE)
    /\ UNCHANGED <<row, doubts>>

\* Denied, invalid, in conflict: the transaction was rolled back.
CommandRaises(q) ==
    /\ req[q].pc = "execute"
    /\ Goto(q, "release")
    /\ UNCHANGED <<row, effects, doubts>>

\* The transaction has committed and the endpoint raises all the same: the
\* connection breaks at COMMIT, or a read that follows it fails (transition_task).
CommandRaisesAfterCommit(q) ==
    /\ req[q].pc = "execute"
    /\ Commit(q)
    /\ doubts' = [doubts EXCEPT ![req[q].key] = @ + 1]
    /\ Goto(q, "release")
    /\ UNCHANGED row

\* interact: the runtime turns a refusal into a result, and nothing is raised.
InteractionRefused(q) ==
    /\ req[q].pc = "execute"
    /\ req[q].key \in Interactions
    /\ Returns(q, TRUE)
    /\ UNCHANGED <<row, effects, doubts>>

\* Mutant: the owner token alone does not matter, nor does the state.
AnyOwner(q) == TRUE

\* state = 'pending' AND owner_token = mine
StillOwner(q) == Row(q).state = "pending" /\ Row(q).owner = q

\* UPDATE ... SET state = 'completed': nothing for an owner that has lost the key.
CacheResponse(q) ==
    row' = IF StillOwner(q)
           THEN [row EXCEPT ![req[q].key] =
                    [@ EXCEPT !.state = "completed", !.body = Bounded(req[q].body)]]
           ELSE row

\* Mutant: a completion that cannot be written gives the key back.
CompleteOrRelease(q) ==
    /\ req[q].pc = "complete"
    /\ \/ CacheResponse(q) /\ Answer(q, "ok", req[q].body)
       \/ UNCHANGED row /\ Goto(q, "release")
    /\ UNCHANGED <<effects, doubts>>

\* guard.complete: the response is cached and returned, also when the key has
\* become indeterminate meanwhile.  When that raises, before or after its commit, the
\* request fails and the key stays as it is.
Complete(q) ==
    /\ req[q].pc = "complete"
    /\ \/ CacheResponse(q) /\ Answer(q, "ok", req[q].body)
       \/ (CacheResponse(q) \/ UNCHANGED row) /\ Answer(q, "error", NoBody)
    /\ UNCHANGED <<effects, doubts>>

\* guard._release, which may fail itself.
Release(q) ==
    /\ req[q].pc = "release"
    /\ \/ row' = IF StillOwner(q)
                 THEN [row EXCEPT ![req[q].key].state = "released"]
                 ELSE row
       \/ UNCHANGED row
    /\ Answer(q, "error", NoBody)
    /\ UNCHANGED <<effects, doubts>>

-----------------------------------------------------------------------------
(* Time and faults.                                                        *)

\* 120 s after the claim, whatever the owner is doing.
ExpireLease(k) ==
    /\ row[k].state = "pending"
    /\ row[k].live
    /\ row' = [row EXCEPT ![k].live = FALSE]
    /\ UNCHANGED <<req, effects, doubts>>

\* The server process dies, or a statement of claim fails after its commit.
Crash(q) ==
    /\ req[q].pc \notin {"unsent", "answered", "lost"}
    /\ Goto(q, "lost")
    /\ UNCHANGED <<row, effects, doubts>>

Next ==
    \/ \E q \in Requests :
        \/ Arrive(q) \/ Insert(q) \/ Read(q) \/ Retake(q) \/ MarkIndeterminate(q)
        \/ CommandReturns(q) \/ CommandRaises(q) \/ CommandRaisesAfterCommit(q)
        \/ InteractionRefused(q) \/ Complete(q) \/ Release(q) \/ Crash(q)
    \/ \E k \in Keys : ExpireLease(k)

Spec == Init /\ [][Next]_vars

-----------------------------------------------------------------------------
(* Properties.                                                             *)

RowState == {"absent", "pending", "completed", "released", "indeterminate"}

RowType ==
    [state : RowState, hash : SUBSET Contents, owner : Requests \cup {NoRequest},
     live : BOOLEAN, body : CachedBodies]

RequestType ==
    [pc : RequestPc, key : Keys, content : Contents, status : Status, body : Bodies]

\* Rows and requests have their shapes; no response above the limit is cached.
TypeOK ==
    /\ row \in [Keys -> RowType]
    /\ req \in [Requests -> RequestType]
    /\ effects \in [Keys -> Nat]
    /\ doubts \in [Keys -> Nat]

\* A request that has claimed its key and has not finished with it.
Busy(q) == req[q].pc \in {"execute", "complete", "release"}

\* Never do two requests execute the command of one key at the same time, however
\* late the owner is and however often the client retries.
OneExecutor ==
    \A p, q \in Requests : Busy(p) /\ Busy(q) /\ req[p].key = req[q].key => p = q

\* A retry repeats the effect of the command only where an endpoint raised although
\* it had committed: no crash, late owner, failed completion or race of retries does.
RepeatsAreAccounted == \A k \in Keys : effects[k] <= 1 + doubts[k]

Succeeded(q) == req[q].status \in {"ok", "replay"}

\* All successful answers under one key are the answer of one execution, given to one
\* content, and what they report has happened.
AnswersAgree ==
    \A p, q \in Requests :
        Succeeded(p) /\ Succeeded(q) /\ req[p].key = req[q].key =>
            /\ req[p].content = req[q].content
            /\ Bounded(req[p].body) = Bounded(req[q].body)
            /\ req[p].body \in Response /\ ~req[p].body.refused => effects[req[p].key] > 0

\* A key whose outcome is known, or known to be unknown, stays as it is: an owner that
\* wakes up late changes nothing.
SettledRowsStay ==
    [][\A k \in Keys :
        row[k].state \in {"completed", "indeterminate"} => row'[k] = row[k]]_vars

\* A refusal is not cached: the retry is executed again.
RefusalIsNotCached ==
    \A k \in Keys : row[k].state = "completed" /\ row[k].body # TooLarge => ~row[k].body.refused

-----------------------------------------------------------------------------
(* Why: the inductive invariant.                                           *)

Settled(k) == row[k].state \in {"completed", "indeterminate"}

\* Whoever is busy holds the pending row of its key, or has lost it to indeterminacy.
BusyOwns(q) ==
    Busy(q) => /\ StillOwner(q) \/ Row(q).state = "indeterminate"
               /\ Row(q).hash = {req[q].content}

\* A request past the SELECT has the content of the row.
ReadSameContent(q) ==
    req[q].pc \in {"retake", "expire"} =>
        Row(q).state # "absent" /\ Row(q).hash = {req[q].content}

\* Until the endpoint of the owner returns, every effect so far was doubtful.
OnlyDoubts(k) == effects[k] = doubts[k]

EffectsTell ==
    /\ RepeatsAreAccounted
    /\ \A k \in Keys : row[k].state \in {"absent", "released"} => OnlyDoubts(k)
    /\ \A q \in Requests : req[q].pc \in {"execute", "release"} => OnlyDoubts(req[q].key)

\* What a response reports has happened.
Happened(body, k) == body \in Response /\ ~body.refused => effects[k] > 0

\* A success ends the key: nobody is busy any more, and either the row keeps the
\* response for everybody or its owner is the only one who ever knew it.
SuccessEnds(q) ==
    Succeeded(q) =>
        /\ Settled(req[q].key)
        /\ Row(q).hash = {req[q].content}
        /\ Happened(req[q].body, req[q].key)
        /\ Row(q).state = "completed" => Row(q).body = Bounded(req[q].body)
        /\ \A p \in Requests : req[p].key = req[q].key =>
              /\ ~Busy(p)
              /\ Row(q).state = "indeterminate" /\ Succeeded(p) => p = q

\* What the row of a key says of its requests.  With TypeOK it is inductive, and it
\* implies OneExecutor, RepeatsAreAccounted and AnswersAgree.
KeyTellsRequests ==
    /\ OneExecutor
    /\ EffectsTell
    /\ \A q \in Requests :
         /\ BusyOwns(q) /\ ReadSameContent(q) /\ SuccessEnds(q)
         /\ req[q].pc = "complete" =>
              req[q].body \in Response /\ Happened(req[q].body, req[q].key)
    /\ \A k \in Keys :
         row[k].state = "completed" => Happened(row[k].body, k)

-----------------------------------------------------------------------------
(* The refinement of KeyPromise.                                           *)

\* An answer about to be given tells of the only effect that was noticed; a refusal
\* there is of an interaction only.
AnswerIsTrue(q) ==
    req[q].pc = "complete" =>
        \/ effects[req[q].key] = doubts[req[q].key] + 1
        \/ req[q].body.refused /\ req[q].key \in Interactions

Refusals == {TooLarge} \cup {body \in Response : body.refused}

Phase(k) ==
    CASE row[k].state \in {"absent", "released"} -> "free"
      [] row[k].state = "pending" -> "taken"
      [] row[k].state = "completed" -> "done"
      [] row[k].state = "indeterminate" -> "unknown"

Acting(k) == \E q \in Requests : req[q].key = k /\ req[q].pc = "execute"

Kept(k) == IF row[k].state = "completed" THEN {row[k].body} ELSE {}

\* A client that got the large response itself was told as much as the marker says.
Told(k) ==
    {<<req[q].content, Bounded(req[q].body)>> :
        q \in {p \in Requests : req[p].key = k /\ Succeeded(p)}}

Promise ==
    INSTANCE KeyPromise WITH
        Answers <- Response \cup {TooLarge}, Refusing <- Interactions,
        phase <- [k \in Keys |-> Phase(k)],
        bound <- [k \in Keys |-> row[k].hash],
        acting <- [k \in Keys |-> Acting(k)],
        kept <- [k \in Keys |-> Kept(k)],
        told <- [k \in Keys |-> Told(k)]

\* With retries, races between the statements of claim, late owners and crashes, a key
\* is what was promised: for one content, one at a time, acting once each time it is
\* taken, given back only if nothing is known to have happened, and settled for good.
KeepsPromise == Promise!PromiseSpec
=============================================================================
