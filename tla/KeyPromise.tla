----------------------------- MODULE KeyPromise -----------------------------
(***************************************************************************)
(* What an idempotency key promises to a client that repeats its request,  *)
(* without owners, leases, retries or processes that die: a key is for one *)
(* command; while it may still act nobody else does, and it acts once for  *)
(* each time it is taken; it is given back only if nothing is known to     *)
(* have happened; and what has been answered under it stays the answer.    *)
(*                                                                         *)
(* HttpIdempotency implements it: the four states of a row and their       *)
(* meaning are those of api/http_idempotency.py, whose in-memory store is  *)
(* the shortest account of them.                                           *)
(***************************************************************************)
EXTENDS Naturals

CONSTANTS
    Keys,
    Contents,    \* what a command asks for
    Answers,
    Refusals,    \* the answers that may report that nothing was done
    Refusing     \* the keys of a command that answers a refusal like a result

VARIABLES
    phase,    \* free, taken, done, or unknown: nobody may take it any more
    bound,    \* the content the key is for: the set of one, or of none
    acting,   \* somebody's command may still take effect
    effects,  \* how often it has
    doubts,   \* and how often that was not noticed
    kept,     \* the answer for whoever asks again: the set of one, or of none
    told      \* what clients were answered, and for which content

promiseVars == <<phase, bound, acting, effects, doubts, kept, told>>

PromiseInit ==
    /\ phase = [k \in Keys |-> "free"]
    /\ bound = [k \in Keys |-> {}]
    /\ acting = [k \in Keys |-> FALSE]
    /\ effects = [k \in Keys |-> 0]
    /\ doubts = [k \in Keys |-> 0]
    /\ kept = [k \in Keys |-> {}]
    /\ told = [k \in Keys |-> {}]

\* An answer tells of the one effect that was noticed, or reports a refusal.
IsTrue(k, a) == effects[k] = doubts[k] + 1 \/ (k \in Refusing /\ a \in Refusals)

Take(k, c) ==
    /\ phase[k] = "free" /\ ~acting[k] /\ effects[k] = doubts[k]
    /\ bound[k] \subseteq {c}
    /\ phase' = [phase EXCEPT ![k] = "taken"]
    /\ bound' = [bound EXCEPT ![k] = {c}]
    /\ acting' = [acting EXCEPT ![k] = TRUE]
    /\ UNCHANGED <<effects, doubts, kept, told>>

\* Whoever has taken the key acts, noticed or not, also when it was given up since.
Act(k) ==
    /\ acting[k] /\ effects[k] = doubts[k] /\ told[k] = {}
    /\ acting' = [acting EXCEPT ![k] = FALSE]
    /\ effects' = [effects EXCEPT ![k] = @ + 1]
    /\ \/ UNCHANGED doubts
       \/ doubts' = [doubts EXCEPT ![k] = @ + 1]
    /\ UNCHANGED <<phase, bound, kept, told>>

\* It is refused, fails or dies, and does not act.
Stop(k) ==
    /\ acting[k]
    /\ acting' = [acting EXCEPT ![k] = FALSE]
    /\ UNCHANGED <<phase, bound, effects, doubts, kept, told>>

\* The answer is kept, and given, unless it is lost on its way.
Finish(k, a) ==
    /\ phase[k] = "taken" /\ ~acting[k] /\ told[k] = {} /\ IsTrue(k, a)
    /\ phase' = [phase EXCEPT ![k] = "done"]
    /\ kept' = [kept EXCEPT ![k] = {a}]
    /\ told' \in {told, [told EXCEPT ![k] = bound[k] \X {a}]}
    /\ UNCHANGED <<bound, acting, effects, doubts>>

Repeat(k) ==
    /\ phase[k] = "done"
    /\ told' = [told EXCEPT ![k] = bound[k] \X kept[k]]
    /\ UNCHANGED <<phase, bound, acting, effects, doubts, kept>>

\* A late answer to the one client that can still have it.
TellLate(k, a) ==
    /\ phase[k] = "unknown" /\ ~acting[k] /\ told[k] = {} /\ IsTrue(k, a)
    /\ told' = [told EXCEPT ![k] = bound[k] \X {a}]
    /\ UNCHANGED <<phase, bound, acting, effects, doubts, kept>>

GiveBack(k) ==
    /\ phase[k] = "taken" /\ ~acting[k] /\ effects[k] = doubts[k]
    /\ phase' = [phase EXCEPT ![k] = "free"]
    /\ UNCHANGED <<bound, acting, effects, doubts, kept, told>>

\* It is not known what has become of it, so nobody may take the key again.
GiveUp(k) ==
    /\ phase[k] = "taken"
    /\ phase' = [phase EXCEPT ![k] = "unknown"]
    /\ UNCHANGED <<bound, acting, effects, doubts, kept, told>>

PromiseNext ==
    \E k \in Keys :
        \/ Act(k) \/ Stop(k) \/ Repeat(k) \/ GiveBack(k) \/ GiveUp(k)
        \/ \E c \in Contents : Take(k, c)
        \/ \E a \in Answers : Finish(k, a) \/ TellLate(k, a)

PromiseSpec == PromiseInit /\ [][PromiseNext]_promiseVars
=============================================================================
