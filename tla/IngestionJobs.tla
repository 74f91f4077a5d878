---------------------------- MODULE IngestionJobs ----------------------------
(***************************************************************************)
(* Ingestion of uploaded material: a document version and its job are      *)
(* written together, a worker claims the job, loads the document, cuts it  *)
(* into chunks and publishes them.                                         *)
(*                                                                         *)
(*   db/ingestion_store.py    every row change, one transaction an action *)
(*   workers/ingestion.py     the order of a worker's steps, what it does *)
(*                            with an exception, what it reports          *)
(*                                                                         *)
(* PostgreSQL's now() is the start of the transaction: created_at orders   *)
(* uploads by their first statement, and a worker whose transaction began  *)
(* before the lease passed still sees it alive ("early").  The version is  *)
(* read in one statement and inserted in another.  Membership and the      *)
(* existence of the source hold for every upload; attempt_count decides    *)
(* nothing and is left out.                                                *)
(*                                                                         *)
(* A text is a model value; its chunks are its slices, numbered.  A text   *)
(* may have none (headings without a body), or not be cut at all: a slice  *)
(* of white space only is refused by StoredChunk.                          *)
(***************************************************************************)
EXTENDS Integers

CONSTANTS
    Jobs,          \* job ids, one per upload: the document has the same name
    SourceOf,      \* the source each upload goes to
    Workers, Tokens, NoToken, NoJob,
    Texts,         \* contents
    ContentsOf,    \* what may be uploaded as each document
    ChunkCount,    \* how many chunks each text is cut into
    Uncuttable,    \* the texts the processor fails on
    Damageable     \* bound: the rows that may be changed behind the program's back

ASSUME IngestionAssumption ==
    /\ NoToken \notin Tokens
    /\ NoJob \notin Jobs
    /\ Texts # {}
    /\ ChunkCount \in [Texts -> Nat]
    /\ Uncuttable \subseteq Texts
    /\ Damageable \subseteq Jobs
    /\ ContentsOf \in [Jobs -> SUBSET Texts]

VARIABLES
    older,     \* the order of created_at: pairs of uploads
    upload,    \* the request: where it is, and the version it has read
    doc,       \* source_documents: version (0: no row), content, content_hash
    job,       \* ingestion_jobs: status, claim_token, is lease_until in the future
    chunks,    \* source_chunks of the document
    worker,    \* the memory of each worker process
    reports,   \* history: what workers have reported of the job
    stable     \* no more faults (for liveness)

vars == <<older, upload, doc, job, chunks, worker, reports, stable>>

JobStatus == {"none", "queued", "processing", "succeeded", "failed"}
Terminal == {"succeeded", "failed"}
UploadPc == {"none", "numbered", "stored", "refused"}
WorkerPc == {"idle", "load", "complete", "fail"}

\* Steps that test the fence, each in a transaction of its own.
SettlementPcs == {"complete", "fail"}

\* Slice i of text t.  The fingerprint of a text is the text.
Pieces(t) == {<<t, i>> : i \in 1..ChunkCount[t]}
AllPieces == UNION {Pieces(t) : t \in Texts}

IdleWorker ==
    [pc |-> "idle", job |-> NoJob, token |-> NoToken, early |-> FALSE, pieces |-> {}]

NoDocument == [version |-> 0, text |-> CHOOSE t \in Texts : TRUE,
               hash |-> CHOOSE t \in Texts : TRUE]

Init ==
    /\ older = {}
    /\ upload = [j \in Jobs |-> [pc |-> "none", version |-> 0]]
    /\ doc = [j \in Jobs |-> NoDocument]
    /\ job = [j \in Jobs |-> [status |-> "none", token |-> NoToken, live |-> FALSE]]
    /\ chunks = [j \in Jobs |-> {}]
    /\ worker = [w \in Workers |-> IdleWorker]
    /\ reports = [j \in Jobs |-> {}]
    /\ stable = FALSE

-----------------------------------------------------------------------------
(* Uploading.                                                              *)

\* Committed versions of a source.
Versions(s) == {doc[j].version : j \in {k \in Jobs : SourceOf[k] = s}} \ {0}

\* The transaction of enqueue begins, finds the source and reads MAX(version) + 1.
BeginUpload(j) ==
    /\ upload[j].pc = "none"
    /\ \E last \in Versions(SourceOf[j]) \cup {0} :
         /\ \A v \in Versions(SourceOf[j]) : v <= last
         /\ upload' = [upload EXCEPT ![j] = [pc |-> "numbered", version |-> last + 1]]
    /\ older' = older \cup {<<i, j>> : i \in {k \in Jobs : upload[k].pc # "none"}}
    /\ UNCHANGED <<doc, job, chunks, worker, reports, stable>>

\* The transaction is rolled back.
Withdraw(j) ==
    /\ upload' = [upload EXCEPT ![j] = [pc |-> "refused", version |-> 0]]
    /\ older' = {p \in older : p[1] # j /\ p[2] # j}

\* Mutant: without UNIQUE (source_id, version).
NeverTaken(j) == FALSE

\* UNIQUE (source_id, version)
VersionTaken(j) == upload[j].version \in Versions(SourceOf[j])

\* Document and job in one transaction, or VERSION_CONFLICT and neither.
InsertDocument(j, t) ==
    /\ upload[j].pc = "numbered"
    /\ IF VersionTaken(j)
       THEN Withdraw(j) /\ UNCHANGED <<doc, job>>
       ELSE /\ doc' = [doc EXCEPT ![j] =
                          [version |-> upload[j].version, text |-> t, hash |-> t]]
            /\ job' = [job EXCEPT ![j].status = "queued"]
            /\ upload' = [upload EXCEPT ![j] = [pc |-> "stored", version |-> 0]]
            /\ UNCHANGED older
    /\ UNCHANGED <<chunks, worker, reports, stable>>

\* The request dies before it commits: everything is rolled back.
LoseUpload(j) ==
    /\ upload[j].pc = "numbered"
    /\ Withdraw(j)
    /\ UNCHANGED <<doc, job, chunks, worker, reports, stable>>

-----------------------------------------------------------------------------
(* Claiming.                                                               *)

UsedTokens == {worker[w].token : w \in Workers} \cup {job[j].token : j \in Jobs}

\* gen_random_uuid(): a token nobody remembers cannot be told from a new one.
FreshToken == CHOOSE t \in Tokens \ UsedTokens : TRUE

\* Mutant: a failed job is taken up again.
ClaimableAgain(j) ==
    \/ job[j].status \in {"queued", "failed"}
    \/ job[j].status = "processing" /\ ~job[j].live

\* Mutant: what a dead worker left behind is not taken up.
ClaimableOnce(j) == job[j].status = "queued"

Claimable(j) ==
    \/ job[j].status = "queued"
    \/ job[j].status = "processing" /\ ~job[j].live

\* FOR UPDATE SKIP LOCKED: a settling transaction may hold the row's lock.
MayBeLocked(j) == \E w \in Workers : worker[w].job = j /\ worker[w].pc \in SettlementPcs

\* ORDER BY created_at, job_id LIMIT 1
Selected(j) ==
    /\ Claimable(j)
    /\ \A k \in Jobs : <<k, j>> \in older /\ Claimable(k) => MayBeLocked(k)

ClaimNext(w, j) ==
    /\ worker[w].pc = "idle"
    /\ Selected(j)
    /\ Tokens \ UsedTokens # {}
    /\ job' = [job EXCEPT ![j] = [status |-> "processing", token |-> FreshToken, live |-> TRUE]]
    /\ worker' = [worker EXCEPT ![w] =
                    [IdleWorker EXCEPT !.pc = "load", !.job = j, !.token = FreshToken]]
    /\ UNCHANGED <<older, upload, doc, chunks, reports, stable>>

-----------------------------------------------------------------------------
(* A worker's steps.                                                       *)

Goto(w, pc) == worker' = [worker EXCEPT ![w] = [@ EXCEPT !.pc = pc, !.early = FALSE]]

\* run_once returns its outcome, or raises and the process exits.
Report(w, outcome) ==
    /\ reports' = [reports EXCEPT ![worker[w].job] = @ \cup {outcome}]
    /\ worker' = [worker EXCEPT ![w] = IdleWorker]

Exit(w) == worker' = [worker EXCEPT ![w] = IdleWorker]

\* load_document: the fingerprint of the row must be the one of its content.
\* DocumentProcessor.parse then works on what was loaded and touches nothing
\* shared; if it fails, the worker goes on to mark the job failed.
LoadAndParse(w) ==
    LET d == doc[worker[w].job] IN
    /\ worker[w].pc = "load"
    /\ IF d.hash = d.text /\ d.text \notin Uncuttable
       THEN worker' = [worker EXCEPT ![w] =
                         [@ EXCEPT !.pc = "complete", !.pieces = Pieces(d.text)]]
       ELSE Goto(w, "fail")
    /\ UNCHANGED <<older, upload, doc, job, chunks, reports, stable>>

\* Mutant: the name of the holder is not asked, only the state.
AnyoneHoldsClaim(w) == job[worker[w].job].status = "processing"

HoldsClaim(w) ==
    /\ job[worker[w].job].status = "processing"
    /\ job[worker[w].job].token = worker[w].token

\* status = 'processing' AND claim_token = mine AND lease_until > now()
Fence(w) == HoldsClaim(w) /\ (job[worker[w].job].live \/ worker[w].early)

\* Mutant: the claim columns are left as they are.
SettleKeepsClaim(j, status) == job' = [job EXCEPT ![j].status = status]

\* The job reaches a terminal status: the claim columns become NULL.
SettleJob(j, status) ==
    job' = [job EXCEPT ![j] = [status |-> status, token |-> NoToken, live |-> FALSE]]

\* assert_chunks_match_document, against the row as it is in this transaction.
ChunksMatchDocument(w) == worker[w].pieces \subseteq Pieces(doc[worker[w].job].text)

\* _reject_if_claim_is_stale: without the fence, complete takes a job that has
\* succeeded for a repeated delivery, fail any job that has ended; otherwise it raises.
Repeated(j, endings) == job[j].status \in endings

\* Mutant: the job is settled and its chunks are written in a later transaction.
CompleteWithoutChunks(w) ==
    /\ worker[w].pc = "complete"
    /\ Fence(w) /\ ChunksMatchDocument(w)
    /\ SettleJob(worker[w].job, "succeeded")
    /\ Report(w, "succeeded")
    /\ UNCHANGED <<older, upload, doc, chunks, stable>>

\* Status and chunks in one transaction.  A claim that was lost raises, and so do
\* chunks that are not slices of the stored text: the transaction is rolled back,
\* and the worker, which catches every PlatformError, goes on to mark the job failed.
Complete(w) ==
    LET j == worker[w].job IN
    /\ worker[w].pc = "complete"
    /\ \/ /\ Fence(w) /\ ChunksMatchDocument(w)
          /\ SettleJob(j, "succeeded")
          /\ chunks' = [chunks EXCEPT ![j] = @ \cup worker[w].pieces]
          /\ Report(w, "succeeded")
       \/ /\ ~Fence(w) /\ Repeated(j, {"succeeded"})
          /\ Report(w, "succeeded")
          /\ UNCHANGED <<job, chunks>>
       \/ /\ IF Fence(w) THEN ~ChunksMatchDocument(w) ELSE ~Repeated(j, {"succeeded"})
          /\ Goto(w, "fail")
          /\ UNCHANGED <<job, chunks, reports>>
    /\ UNCHANGED <<older, upload, doc, stable>>

\* Mutant: a worker that lost its claim reports the failure all the same.
FailQuietly(w) ==
    /\ worker[w].pc = "fail"
    /\ IF Fence(w) THEN SettleJob(worker[w].job, "failed") ELSE UNCHANGED job
    /\ Report(w, "failed")
    /\ UNCHANGED <<older, upload, doc, chunks, stable>>

\* _mark_failed: the same fence.  A claim that was lost raises again, and nothing
\* catches it: the process exits.
MarkFailed(w) ==
    LET j == worker[w].job IN
    /\ worker[w].pc = "fail"
    /\ \/ Fence(w) /\ SettleJob(j, "failed") /\ Report(w, "failed")
       \/ ~Fence(w) /\ Repeated(j, Terminal) /\ Report(w, "failed") /\ UNCHANGED job
       \/ ~Fence(w) /\ ~Repeated(j, Terminal) /\ Exit(w) /\ UNCHANGED <<job, reports>>
    /\ UNCHANGED <<older, upload, doc, chunks, stable>>

-----------------------------------------------------------------------------
(* Time and faults.                                                        *)

Orphaned(j) == \A w \in Workers : worker[w].token # job[j].token

\* lease_until passes: after the holder has died or, before things are stable,
\* while a holder slower than the lease is still at work, perhaps in a settling
\* transaction that has begun.
ExpireLease(j) ==
    /\ job[j].status = "processing"
    /\ job[j].live
    /\ Orphaned(j) \/ ~stable
    /\ job' = [job EXCEPT ![j].live = FALSE]
    /\ \/ UNCHANGED worker
       \/ \E w \in Workers :
            /\ worker[w].job = j /\ HoldsClaim(w) /\ worker[w].pc \in SettlementPcs
            /\ worker' = [worker EXCEPT ![w].early = TRUE]
    /\ UNCHANGED <<older, upload, doc, chunks, reports, stable>>

\* The content of a row is changed behind the program's back, its fingerprint is
\* not: what load_document and complete verify.  Bound: while the job is being
\* processed, perhaps before it is loaded; nothing reads the content earlier or later.
Damage(j) ==
    /\ ~stable
    /\ j \in Damageable
    /\ job[j].status = "processing"
    /\ doc[j].text = doc[j].hash
    /\ \E t \in Texts \ {doc[j].text} : doc' = [doc EXCEPT ![j].text = t]
    /\ UNCHANGED <<older, upload, job, chunks, worker, reports, stable>>

Crash(w) ==
    /\ ~stable
    /\ worker[w].pc # "idle"
    /\ Exit(w)
    /\ UNCHANGED <<older, upload, doc, job, chunks, reports, stable>>

Stabilise ==
    /\ ~stable
    /\ stable' = TRUE
    /\ UNCHANGED <<older, upload, doc, job, chunks, worker, reports>>

WorkerStep(w) == LoadAndParse(w) \/ Complete(w) \/ MarkFailed(w)

Next ==
    \/ \E j \in Jobs : \/ BeginUpload(j) \/ LoseUpload(j)
                       \/ \E t \in ContentsOf[j] : InsertDocument(j, t)
                       \/ ExpireLease(j) \/ Damage(j)
    \/ \E w \in Workers, j \in Jobs : ClaimNext(w, j)
    \/ \E w \in Workers : WorkerStep(w) \/ Crash(w)

Spec == Init /\ [][Next]_vars

\* A worker that has begun goes on, its supervisor calls it again and again
\* (strong fairness per job: the oldest claimable one is taken in the end), and
\* the lease of a dead holder runs out.
FairSpec ==
    /\ Init /\ [][Next \/ Stabilise]_vars
    /\ \A w \in Workers : WF_vars(WorkerStep(w))
    /\ \A j \in Jobs : SF_vars(\E w \in Workers : ClaimNext(w, j))
    /\ \A j \in Jobs : WF_vars(ExpireLease(j))

-----------------------------------------------------------------------------
(* Properties.                                                             *)

\* Only a job that is being processed has a lease and a claim token.
JobRow ==
    {r \in [status : JobStatus, token : Tokens \cup {NoToken}, live : BOOLEAN] :
        /\ r.status = "processing" <=> r.token # NoToken
        /\ r.live => r.status = "processing"}

DocumentRow == [version : Nat, text : Texts, hash : Texts]
WorkerMemory ==
    [pc : WorkerPc, job : Jobs \cup {NoJob}, token : Tokens \cup {NoToken},
     early : BOOLEAN, pieces : SUBSET AllPieces]

\* Every variable has the shape of the row, or of the local state, it stands for.
TypeOK ==
    /\ older \subseteq Jobs \X Jobs
    /\ upload \in [Jobs -> [pc : UploadPc, version : Nat]]
    /\ doc \in [Jobs -> DocumentRow]
    /\ job \in [Jobs -> JobRow]
    /\ chunks \in [Jobs -> SUBSET AllPieces]
    /\ worker \in [Workers -> WorkerMemory]
    /\ reports \in [Jobs -> SUBSET Terminal]
    /\ stable \in BOOLEAN

\* Uploads that read the same MAX(version) do not get the same version, and none
\* is skipped: the versions of a source are 1, 2, 3 and so on, one document each.
VersionsAreDense ==
    \A j \in Jobs : doc[j].version # 0 =>
        /\ \A k \in Jobs \ {j} : SourceOf[k] = SourceOf[j] => doc[k].version # doc[j].version
        /\ doc[j].version > 1 =>
             \E k \in Jobs : /\ SourceOf[k] = SourceOf[j]
                            /\ doc[k].version = doc[j].version - 1

\* A status, once given, and the chunks are changed by the holder of the current
\* claim only: a worker whose job was reclaimed or has ended changes nothing late.
HolderOnlySettles ==
    [][\A j \in Jobs :
        \/ job[j].status \notin {"none", "queued"} /\ job'[j].status # job[j].status
        \/ chunks'[j] # chunks[j]
        => /\ job[j].status = "processing"
           /\ \E w \in Workers : /\ worker[w].job = j
                                 /\ worker[w].token = job[j].token
                                 /\ worker'[w] # worker[w]]_vars

\* A job has chunks only when it has succeeded, and then all the chunks of the
\* text that was uploaded, whatever has died or was reclaimed in between.
ChunksAreComplete ==
    \A j \in Jobs :
        chunks[j] = IF job[j].status = "succeeded" THEN Pieces(doc[j].hash) ELSE {}

\* Chunks are published as slices of the content that is stored at that moment,
\* not of the content the worker had loaded.
PublishedFromStoredText ==
    [][\A j \in Jobs : chunks'[j] # chunks[j] => chunks'[j] \subseteq Pieces(doc[j].text)]_vars

\* What a worker reports of a job is how the job ended, except that a worker that
\* lost its claim may report a failure of a job that another one has completed.
ReportsTellTheJob ==
    \A j \in Jobs :
        /\ "succeeded" \in reports[j] => job[j].status = "succeeded"
        /\ "failed" \in reports[j] => job[j].status \in Terminal

\* Every job that was enqueued ends once the faults stop, whoever claimed it before.
EveryJobEnds ==
    \A j \in Jobs : (stable /\ job[j].status # "none") ~> (job[j].status \in Terminal)

-----------------------------------------------------------------------------
(* What the queue promises, see JobQueue.                                  *)

Queue == INSTANCE JobQueue WITH
    Results <- SUBSET AllPieces,
    phase <- [j \in Jobs |-> IF job[j].status = "none" THEN "absent" ELSE job[j].status],
    result <- [j \in Jobs |-> IF job[j].status = "succeeded" THEN {chunks[j]} ELSE {}]

\* Behind leases, tokens, crashes and reclaimed jobs, the rows behave as the queue
\* promises: a job ends once, its chunks appear in the step that ends it.
ImplementsQueue == Queue!QueueSpec
=============================================================================
