------------------------------ MODULE JobQueue ------------------------------
(***************************************************************************)
(* What the ingestion queue promises, without leases, tokens or workers: a *)
(* job is taken up as often as it has to be and ends once.  The result is  *)
(* published in the step that ends it, and never changes again.            *)
(*                                                                         *)
(* IngestionJobs implements it: IngestionStatus of knowledge/models.py and *)
(* the statements of db/ingestion_store.py that change a job's status.     *)
(***************************************************************************)
CONSTANTS Jobs, Results

VARIABLES
    phase,
    result   \* the results published for each job

queueVars == <<phase, result>>

Phases == {"absent", "queued", "processing", "succeeded", "failed"}

QueueInit ==
    /\ phase = [j \in Jobs |-> "absent"]
    /\ result = [j \in Jobs |-> {}]

Enqueue(j) ==
    /\ phase[j] = "absent"
    /\ phase' = [phase EXCEPT ![j] = "queued"]
    /\ UNCHANGED result

TakeUp(j) ==
    /\ phase[j] = "queued"
    /\ phase' = [phase EXCEPT ![j] = "processing"]
    /\ UNCHANGED result

Publish(j, r) ==
    /\ phase[j] = "processing"
    /\ phase' = [phase EXCEPT ![j] = "succeeded"]
    /\ result' = [result EXCEPT ![j] = {r}]

GiveUp(j) ==
    /\ phase[j] = "processing"
    /\ phase' = [phase EXCEPT ![j] = "failed"]
    /\ UNCHANGED result

QueueNext ==
    \E j \in Jobs :
        \/ Enqueue(j) \/ TakeUp(j) \/ GiveUp(j)
        \/ \E r \in Results : Publish(j, r)

QueueSpec == QueueInit /\ [][QueueNext]_queueVars
=============================================================================
