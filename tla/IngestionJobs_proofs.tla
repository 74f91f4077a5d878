------------------------ MODULE IngestionJobs_proofs ------------------------
(***************************************************************************)
(* Proofs about IngestionJobs, for any number of uploads, sources, workers *)
(* and tokens, and any texts.                                              *)
(***************************************************************************)
EXTENDS IngestionJobs, TLAPS

\* The columns of the upload, the document and the job, and what a worker knows.
Consistent ==
    /\ \A j \in Jobs : /\ job[j].status # "none" <=> upload[j].pc = "stored"
                       /\ doc[j].version # 0 <=> upload[j].pc = "stored"
    /\ \A w \in Workers : worker[w].pc # "idle" =>
         /\ worker[w].job \in Jobs
         /\ worker[w].token \in Tokens
         /\ job[worker[w].job].status # "none"
    /\ \A w \in Workers : worker[w].pc = "complete" =>
         worker[w].pieces = Pieces(doc[worker[w].job].hash)

\* A version that was read follows one that is there.
Numbered ==
    \A j \in Jobs : upload[j].pc = "numbered" =>
        /\ upload[j].version > 0
        /\ upload[j].version > 1 =>
             \E k \in Jobs : /\ SourceOf[k] = SourceOf[j]
                             /\ doc[k].version = upload[j].version - 1

-----------------------------------------------------------------------------
(* Types.                                                                  *)

LEMMA IdleType == IdleWorker \in WorkerMemory
  BY IngestionAssumption DEF IdleWorker, WorkerMemory, WorkerPc

\* A token is free only if it is a token.
LEMMA FreshTokenType ==
    ASSUME Tokens \ UsedTokens # {}
    PROVE  FreshToken \in Tokens /\ FreshToken # NoToken
  BY IngestionAssumption DEF FreshToken

LEMMA SlicesOfText == \A t \in Texts : Pieces(t) \in SUBSET AllPieces
  BY DEF AllPieces

LEMMA WorkerUpdateTypes ==
    ASSUME worker \in [Workers -> WorkerMemory], NEW w \in Workers
    PROVE  /\ Exit(w) => worker' \in [Workers -> WorkerMemory]
           /\ \A o \in Terminal : Report(w, o) => worker' \in [Workers -> WorkerMemory]
           /\ \A pc \in WorkerPc : Goto(w, pc) => worker' \in [Workers -> WorkerMemory]
<1>1. ASSUME NEW pc \in WorkerPc, Goto(w, pc)
      PROVE  worker' \in [Workers -> WorkerMemory]
  <2>1. [worker[w] EXCEPT !.pc = pc, !.early = FALSE] \in WorkerMemory
    BY DEF WorkerMemory
  <2> QED BY <1>1, <2>1 DEF Goto
<1> QED BY <1>1, IdleType DEF Exit, Report

LEMMA SettleType ==
    ASSUME job \in [Jobs -> JobRow], NEW j \in Jobs, NEW s \in Terminal, SettleJob(j, s)
    PROVE  job' \in [Jobs -> JobRow]
<1>1. [status |-> s, token |-> NoToken, live |-> FALSE] \in JobRow
  BY DEF JobRow, JobStatus, Terminal
<1> QED BY <1>1 DEF SettleJob

LEMMA InitTypeOK == Init => TypeOK /\ Consistent /\ Numbered
<1> SUFFICES ASSUME Init PROVE TypeOK /\ Consistent /\ Numbered
  OBVIOUS
<1>1. worker \in [Workers -> WorkerMemory]
  BY IdleType DEF Init
<1>2. doc \in [Jobs -> DocumentRow]
  BY IngestionAssumption DEF Init, NoDocument, DocumentRow
<1>3. /\ job \in [Jobs -> JobRow]
      /\ chunks \in [Jobs -> SUBSET AllPieces]
      /\ upload \in [Jobs -> [pc : UploadPc, version : Nat]]
      /\ reports \in [Jobs -> SUBSET Terminal]
  BY DEF Init, JobRow, JobStatus, UploadPc
<1>4. TypeOK
  BY <1>1, <1>2, <1>3 DEF TypeOK, Init
<1>5. Consistent /\ Numbered
  BY DEF Consistent, Numbered, Init, IdleWorker, NoDocument
<1> QED BY <1>4, <1>5

-----------------------------------------------------------------------------
(* The inductive invariant.  Without what a worker that is about to publish *)
(* holds in its memory, a step of that worker could write other chunks.     *)

IInv == TypeOK /\ Consistent /\ Numbered /\ VersionsAreDense /\ ChunksAreComplete
        /\ ReportsTellTheJob

LEMMA InitIInv == Init => IInv
<1> SUFFICES ASSUME Init PROVE IInv
  OBVIOUS
<1>1. VersionsAreDense /\ ChunksAreComplete /\ ReportsTellTheJob
  BY DEF Init, VersionsAreDense, ChunksAreComplete, ReportsTellTheJob, NoDocument
<1> QED BY <1>1, InitTypeOK DEF IInv

\* Beginning an upload, or rolling it back, touches no row.
LEMMA UploadStep ==
    ASSUME IInv, NEW j \in Jobs, BeginUpload(j) \/ LoseUpload(j)
    PROVE  IInv'
<1>1. TypeOK'
  <2>1. ASSUME BeginUpload(j) PROVE TypeOK'
    <3>1. ASSUME NEW v \in Versions(SourceOf[j]) \cup {0} PROVE v + 1 \in Nat
      BY DEF IInv, TypeOK, DocumentRow, Versions
    <3> QED BY <2>1, <3>1 DEF BeginUpload, IInv, TypeOK, UploadPc
  <2>2. ASSUME LoseUpload(j) PROVE TypeOK'
    BY <2>2 DEF LoseUpload, Withdraw, IInv, TypeOK, UploadPc
  <2> QED BY <2>1, <2>2
<1>2. Consistent'
  <2>1. /\ upload'[j].pc # "stored" /\ upload[j].pc # "stored"
        /\ \A k \in Jobs \ {j} : upload'[k] = upload[k]
        /\ UNCHANGED <<doc, job, worker>>
    BY DEF BeginUpload, LoseUpload, Withdraw, IInv, TypeOK
  <2> QED BY <2>1 DEF IInv, Consistent
<1>3. Numbered'
  <2>1. ASSUME BeginUpload(j), NEW last \in Versions(SourceOf[j]) \cup {0},
               NEW n, n = last + 1
        PROVE  /\ n \in Nat /\ n > 0
               /\ n > 1 => \E k \in Jobs : SourceOf[k] = SourceOf[j] /\ doc[k].version = n - 1
    BY <2>1 DEF IInv, TypeOK, DocumentRow, Versions
  <2>2. ASSUME BeginUpload(j) PROVE Numbered'
    <3>1. PICK n \in Nat :
            /\ upload' = [upload EXCEPT ![j] = [pc |-> "numbered", version |-> n]]
            /\ n > 0
            /\ n > 1 => \E k \in Jobs : SourceOf[k] = SourceOf[j] /\ doc[k].version = n - 1
      <4>1. PICK last \in Versions(SourceOf[j]) \cup {0} :
              upload' = [upload EXCEPT ![j] = [pc |-> "numbered", version |-> last + 1]]
        BY <2>2 DEF BeginUpload
      <4>2. PICK n : n = last + 1
        OBVIOUS
      <4> QED BY <4>1, <4>2, <2>1, <2>2
    <3>2. UNCHANGED doc
      BY <2>2 DEF BeginUpload
    <3>3. \A k \in Jobs : upload'[k] = IF k = j THEN [pc |-> "numbered", version |-> n]
                                      ELSE upload[k]
      BY <3>1 DEF IInv, TypeOK
    <3>4. ASSUME NEW i \in Jobs, upload'[i].pc = "numbered"
          PROVE  /\ upload'[i].version > 0
                 /\ upload'[i].version > 1 =>
                      \E k \in Jobs : /\ SourceOf[k] = SourceOf[i]
                                     /\ doc[k].version = upload'[i].version - 1
      <4>1. CASE i = j
        <5>1. upload'[i].version = n
          BY <4>1, <3>3
        <5> QED BY <5>1, <3>1, <4>1
      <4>2. CASE i # j
        BY <4>2, <3>3, <3>4 DEF IInv, Numbered
      <4> QED BY <4>1, <4>2
    <3> QED BY <3>2, <3>4 DEF Numbered
  <2>3. ASSUME LoseUpload(j) PROVE Numbered'
    BY <2>3 DEF LoseUpload, Withdraw, IInv, TypeOK, Numbered
  <2> QED BY <2>2, <2>3
<1>4. VersionsAreDense' /\ ChunksAreComplete' /\ ReportsTellTheJob'
  BY DEF BeginUpload, LoseUpload, IInv, VersionsAreDense, ChunksAreComplete, ReportsTellTheJob
<1> QED BY <1>1, <1>2, <1>3, <1>4 DEF IInv

LEMMA InsertStep ==
    ASSUME IInv, NEW j \in Jobs, NEW t \in ContentsOf[j], InsertDocument(j, t)
    PROVE  IInv'
<1>0. t \in Texts
  BY IngestionAssumption
<1>1. CASE VersionTaken(j)
  <2>1. Withdraw(j) /\ UNCHANGED <<doc, job, chunks, worker, reports, stable>>
    BY <1>1 DEF InsertDocument
  <2>2. TypeOK'
    BY <2>1 DEF Withdraw, IInv, TypeOK, UploadPc
  <2>3. Consistent' /\ Numbered'
    BY <2>1 DEF InsertDocument, Withdraw, IInv, TypeOK, Consistent, Numbered
  <2>4. VersionsAreDense' /\ ChunksAreComplete' /\ ReportsTellTheJob'
    BY <2>1 DEF IInv, VersionsAreDense, ChunksAreComplete, ReportsTellTheJob
  <2> QED BY <2>2, <2>3, <2>4 DEF IInv
<1>2. CASE ~VersionTaken(j)
  <2>0. /\ upload[j].pc = "numbered"
        /\ doc' = [doc EXCEPT ![j] =
                      [version |-> upload[j].version, text |-> t, hash |-> t]]
        /\ job' = [job EXCEPT ![j].status = "queued"]
        /\ upload' = [upload EXCEPT ![j] = [pc |-> "stored", version |-> 0]]
        /\ UNCHANGED <<older, chunks, worker, reports, stable>>
    BY <1>2 DEF InsertDocument
  <2>1. job[j].status = "none" /\ doc[j].version = 0
    BY <2>0 DEF IInv, Consistent
  <2>2. TypeOK'
    <3>1. doc' \in [Jobs -> DocumentRow]
      BY <1>0, <2>0 DEF IInv, TypeOK, DocumentRow
    <3>2. job' \in [Jobs -> JobRow]
      <4>1. [job[j] EXCEPT !.status = "queued"] \in JobRow
        BY <2>1 DEF IInv, TypeOK, JobRow, JobStatus
      <4> QED BY <4>1, <2>0 DEF IInv, TypeOK
    <3> QED BY <2>0, <3>1, <3>2 DEF IInv, TypeOK, UploadPc
  <2>3. Consistent'
    <3>1. \A w \in Workers : worker[w].pc # "idle" => worker[w].job # j
      BY <2>1 DEF IInv, Consistent
    <3>2. upload[j].version # 0
      BY <2>0 DEF IInv, Numbered, TypeOK
    <3> QED BY <2>0, <3>1, <3>2 DEF IInv, TypeOK, Consistent
  <2>4. Numbered'
    BY <2>0, <2>1 DEF IInv, TypeOK, Numbered, DocumentRow
  <2>5. VersionsAreDense'
    <3>1. \A k \in Jobs : SourceOf[k] = SourceOf[j] => doc[k].version # upload[j].version
      <4>1. upload[j].version # 0
        BY <2>0 DEF IInv, Numbered, TypeOK
      <4> QED BY <1>2, <4>1 DEF VersionTaken, Versions
    <3>2. /\ doc'[j].version = upload[j].version
          /\ \A k \in Jobs \ {j} : doc'[k] = doc[k]
      BY <2>0 DEF IInv, TypeOK
    <3>3. ASSUME NEW i \in Jobs, doc'[i].version # 0
          PROVE  \A k \in Jobs \ {i} : SourceOf[k] = SourceOf[i] => doc'[k].version # doc'[i].version
      BY <3>1, <3>2, <3>3 DEF IInv, VersionsAreDense
    <3>4. ASSUME NEW i \in Jobs, doc'[i].version # 0, doc'[i].version > 1
          PROVE  \E k \in Jobs : /\ SourceOf[k] = SourceOf[i]
                                 /\ doc'[k].version = doc'[i].version - 1
      <4>1. PICK k \in Jobs : /\ SourceOf[k] = SourceOf[i]
                              /\ doc[k].version = doc'[i].version - 1
        <5>1. CASE i = j
          BY <5>1, <3>2, <3>4, <2>0 DEF IInv, Numbered
        <5>2. CASE i # j
          BY <5>2, <3>2, <3>4 DEF IInv, VersionsAreDense
        <5> QED BY <5>1, <5>2
      <4>2. doc[k].version # 0
        BY <4>1, <3>4, <3>2, <1>0, <2>0 DEF IInv, TypeOK, DocumentRow
      <4>3. k # j
        BY <4>2, <2>1
      <4> QED BY <4>1, <4>3, <3>2
    <3> QED BY <3>3, <3>4 DEF VersionsAreDense
  <2>6. ChunksAreComplete' /\ ReportsTellTheJob'
    BY <2>0, <2>1 DEF IInv, TypeOK, ChunksAreComplete, ReportsTellTheJob, Terminal
  <2> QED BY <2>2, <2>3, <2>4, <2>5, <2>6 DEF IInv
<1> QED BY <1>1, <1>2

LEMMA ClaimStep ==
    ASSUME IInv, NEW w \in Workers, NEW j \in Jobs, ClaimNext(w, j)
    PROVE  IInv'
<1> DEFINE row == [status |-> "processing", token |-> FreshToken, live |-> TRUE]
           memory == [IdleWorker EXCEPT !.pc = "load", !.job = j, !.token = FreshToken]
<1>1. /\ job' = [job EXCEPT ![j] = row]
      /\ worker' = [worker EXCEPT ![w] = memory]
      /\ UNCHANGED <<older, upload, doc, chunks, reports, stable>>
      /\ job[j].status \in {"queued", "processing"}
  BY DEF ClaimNext, Selected, Claimable
<1>2. FreshToken \in Tokens /\ FreshToken # NoToken
  BY FreshTokenType DEF ClaimNext
<1>3. TypeOK'
  <2>1. row \in JobRow
    BY <1>2 DEF JobRow, JobStatus
  <2>2. memory \in WorkerMemory
    BY <1>2 DEF IdleWorker, WorkerMemory, WorkerPc
  <2> HIDE DEF row, memory
  <2> QED BY <1>1, <2>1, <2>2 DEF IInv, TypeOK
<1>4. /\ memory.job = j /\ memory.token \in Tokens /\ memory.pc = "load"
      /\ row.status = "processing"
  BY <1>2 DEF IdleWorker
<1> HIDE DEF row, memory
<1>5. Consistent'
  BY <1>1, <1>4 DEF IInv, TypeOK, Consistent
<1>6. Numbered' /\ VersionsAreDense'
  BY <1>1 DEF IInv, Numbered, VersionsAreDense
<1>7. ChunksAreComplete' /\ ReportsTellTheJob'
  BY <1>1, <1>4 DEF IInv, TypeOK, ChunksAreComplete, ReportsTellTheJob, Terminal
<1> QED BY <1>3, <1>5, <1>6, <1>7 DEF IInv

LEMMA LoadStep ==
    ASSUME IInv, NEW w \in Workers, LoadAndParse(w)
    PROVE  IInv'
<1> DEFINE d == doc[worker[w].job]
           memory == [worker[w] EXCEPT !.pc = "complete", !.pieces = Pieces(d.text)]
<1>1. UNCHANGED <<older, upload, doc, job, chunks, reports, stable>>
      /\ worker[w].pc = "load" /\ worker[w].job \in Jobs
  BY DEF LoadAndParse, IInv, Consistent
<1>2. \/ d.hash = d.text /\ worker' = [worker EXCEPT ![w] = memory]
      \/ Goto(w, "fail")
  BY DEF LoadAndParse
<1>3. TypeOK'
  <2>1. memory \in WorkerMemory
    BY <1>1, SlicesOfText DEF IInv, TypeOK, DocumentRow, WorkerMemory, WorkerPc
  <2>2. worker' \in [Workers -> WorkerMemory]
    <3> HIDE DEF memory
    <3> QED BY <1>2, <2>1, WorkerUpdateTypes DEF IInv, TypeOK, WorkerPc
  <2> QED BY <1>1, <2>2 DEF IInv, TypeOK
<1>4. Consistent'
  <2>1. CASE d.hash = d.text /\ worker' = [worker EXCEPT ![w] = memory]
    <3>1. /\ memory.pc = "complete" /\ memory.job = worker[w].job
          /\ memory.token = worker[w].token /\ memory.pieces = Pieces(d.hash)
      BY <2>1 DEF IInv, TypeOK, WorkerMemory
    <3> HIDE DEF memory
    <3> QED BY <2>1, <3>1, <1>1 DEF IInv, TypeOK, Consistent
  <2>2. CASE Goto(w, "fail")
    BY <2>2, <1>1 DEF IInv, TypeOK, Consistent, Goto, WorkerMemory
  <2> QED BY <1>2, <2>1, <2>2
<1>5. Numbered' /\ VersionsAreDense' /\ ChunksAreComplete' /\ ReportsTellTheJob'
  BY <1>1 DEF IInv, Numbered, VersionsAreDense, ChunksAreComplete, ReportsTellTheJob
<1> QED BY <1>3, <1>4, <1>5 DEF IInv

\* A holder ends its job; what it had in its memory is what it publishes.
LEMMA SettleStep ==
    ASSUME IInv, NEW w \in Workers, NEW s \in Terminal,
           worker[w].pc # "idle", Fence(w),
           SettleJob(worker[w].job, s), Report(w, s),
           IF s = "succeeded"
           THEN /\ worker[w].pc = "complete"
                /\ chunks' = [chunks EXCEPT ![worker[w].job] = @ \cup worker[w].pieces]
           ELSE UNCHANGED chunks,
           UNCHANGED <<older, upload, doc, stable>>
    PROVE  IInv'
<1> DEFINE j == worker[w].job
<1>1. j \in Jobs /\ job[j].status = "processing"
  BY DEF IInv, Consistent, Fence, HoldsClaim
<1>2. chunks[j] = {}
  BY <1>1 DEF IInv, ChunksAreComplete
<1>3. TypeOK'
  <2>1. worker[w].pieces \in SUBSET AllPieces
    BY DEF IInv, TypeOK, WorkerMemory
  <2>2. chunks' \in [Jobs -> SUBSET AllPieces]
    BY <2>1, <1>1, <1>2 DEF IInv, TypeOK
  <2>3. job' \in [Jobs -> JobRow] /\ worker' \in [Workers -> WorkerMemory]
    BY <1>1, SettleType, WorkerUpdateTypes DEF IInv, TypeOK
  <2>4. reports' \in [Jobs -> SUBSET Terminal]
    BY <1>1 DEF IInv, TypeOK, Report
  <2> QED BY <2>2, <2>3, <2>4 DEF IInv, TypeOK
<1>4. Consistent'
  BY <1>1 DEF IInv, TypeOK, Consistent, SettleJob, Report, IdleWorker, Terminal
<1>5. Numbered' /\ VersionsAreDense'
  BY DEF IInv, Numbered, VersionsAreDense
<1>6. ChunksAreComplete'
  <2>1. s = "succeeded" => chunks'[j] = Pieces(doc[j].hash)
    BY <1>1, <1>2 DEF IInv, TypeOK, Consistent
  <2> QED BY <1>1, <1>2, <2>1 DEF IInv, TypeOK, ChunksAreComplete, SettleJob, Terminal
<1>7. ReportsTellTheJob'
  BY <1>1 DEF IInv, TypeOK, ReportsTellTheJob, SettleJob, Report, Terminal
<1> QED BY <1>3, <1>4, <1>5, <1>6, <1>7 DEF IInv

LEMMA CompleteStep ==
    ASSUME IInv, NEW w \in Workers, Complete(w)
    PROVE  IInv'
<1> DEFINE j == worker[w].job
<1>0. worker[w].pc = "complete" /\ j \in Jobs
  BY DEF Complete, IInv, Consistent
<1>1. CASE /\ Fence(w)
           /\ SettleJob(j, "succeeded")
           /\ chunks' = [chunks EXCEPT ![j] = @ \cup worker[w].pieces]
           /\ Report(w, "succeeded")
  BY <1>0, <1>1, SettleStep DEF Complete, Terminal
<1>2. CASE /\ job[j].status = "succeeded"
           /\ Report(w, "succeeded")
           /\ UNCHANGED <<job, chunks>>
  <2>0. UNCHANGED <<older, upload, doc, job, chunks, stable>>
    BY <1>2 DEF Complete
  <2>1. TypeOK'
    BY <1>0, <1>2, <2>0, WorkerUpdateTypes DEF IInv, TypeOK, Terminal, Report
  <2>2. Consistent'
    BY <1>2, <2>0 DEF IInv, TypeOK, Consistent, Report, IdleWorker
  <2>3. Numbered' /\ VersionsAreDense' /\ ChunksAreComplete'
    BY <2>0 DEF IInv, Numbered, VersionsAreDense, ChunksAreComplete
  <2>4. ReportsTellTheJob'
    BY <1>0, <1>2, <2>0 DEF IInv, TypeOK, ReportsTellTheJob, Report, Terminal
  <2> QED BY <2>1, <2>2, <2>3, <2>4 DEF IInv
<1>3. CASE Goto(w, "fail") /\ UNCHANGED <<job, chunks, reports>>
  <2>0. UNCHANGED <<older, upload, doc, job, chunks, reports, stable>>
    BY <1>3 DEF Complete
  <2>1. TypeOK'
    BY <1>3, <2>0, WorkerUpdateTypes DEF IInv, TypeOK, WorkerPc
  <2>2. Consistent'
    BY <1>0, <1>3, <2>0 DEF IInv, TypeOK, Consistent, Goto, WorkerMemory
  <2>3. Numbered' /\ VersionsAreDense' /\ ChunksAreComplete' /\ ReportsTellTheJob'
    BY <2>0 DEF IInv, Numbered, VersionsAreDense, ChunksAreComplete, ReportsTellTheJob
  <2> QED BY <2>1, <2>2, <2>3 DEF IInv
<1> QED BY <1>1, <1>2, <1>3 DEF Complete, Repeated

\* A worker gives up its claim, after a crash or for good, and writes no row.
LEMMA ExitStep ==
    ASSUME IInv, NEW w \in Workers, Exit(w),
           UNCHANGED <<older, upload, doc, job, chunks, reports, stable>>
    PROVE  IInv'
<1>1. TypeOK'
  BY WorkerUpdateTypes DEF IInv, TypeOK
<1>2. Consistent'
  BY DEF IInv, TypeOK, Consistent, Exit, IdleWorker
<1>3. Numbered' /\ VersionsAreDense' /\ ChunksAreComplete' /\ ReportsTellTheJob'
  BY DEF IInv, Numbered, VersionsAreDense, ChunksAreComplete, ReportsTellTheJob
<1> QED BY <1>1, <1>2, <1>3 DEF IInv

LEMMA FailStep ==
    ASSUME IInv, NEW w \in Workers, MarkFailed(w)
    PROVE  IInv'
<1> DEFINE j == worker[w].job
<1>0. worker[w].pc = "fail" /\ j \in Jobs
  BY DEF MarkFailed, IInv, Consistent
<1>1. CASE Fence(w) /\ SettleJob(j, "failed") /\ Report(w, "failed")
  BY <1>0, <1>1, SettleStep DEF MarkFailed, Terminal
<1>2. CASE job[j].status \in Terminal /\ Report(w, "failed") /\ UNCHANGED job
  <2>0. UNCHANGED <<older, upload, doc, job, chunks, stable>>
    BY <1>2 DEF MarkFailed
  <2>1. TypeOK'
    BY <1>0, <1>2, <2>0, WorkerUpdateTypes DEF IInv, TypeOK, Terminal, Report
  <2>2. Consistent'
    BY <1>2, <2>0 DEF IInv, TypeOK, Consistent, Report, IdleWorker
  <2>3. Numbered' /\ VersionsAreDense' /\ ChunksAreComplete'
    BY <2>0 DEF IInv, Numbered, VersionsAreDense, ChunksAreComplete
  <2>4. ReportsTellTheJob'
    BY <1>0, <1>2, <2>0 DEF IInv, TypeOK, ReportsTellTheJob, Report, Terminal
  <2> QED BY <2>1, <2>2, <2>3, <2>4 DEF IInv
<1>3. CASE Exit(w) /\ UNCHANGED <<job, reports>>
  BY <1>3, ExitStep DEF MarkFailed
<1> QED BY <1>1, <1>2, <1>3 DEF MarkFailed, Repeated

LEMMA ExpireStep ==
    ASSUME IInv, NEW j \in Jobs, ExpireLease(j)
    PROVE  IInv'
<1>1. /\ job' = [job EXCEPT ![j].live = FALSE] /\ job[j].status = "processing"
      /\ UNCHANGED <<older, upload, doc, chunks, reports, stable>>
  BY DEF ExpireLease
<1>2. \/ UNCHANGED worker
      \/ \E w \in Workers : worker' = [worker EXCEPT ![w].early = TRUE]
  BY DEF ExpireLease
<1>3. worker' \in [Workers -> WorkerMemory]
  <2>1. ASSUME NEW w \in Workers PROVE [worker[w] EXCEPT !.early = TRUE] \in WorkerMemory
    BY DEF IInv, TypeOK, WorkerMemory
  <2> QED BY <1>2, <2>1 DEF IInv, TypeOK
<1>4. [job[j] EXCEPT !.live = FALSE] \in JobRow
  BY <1>1 DEF IInv, TypeOK, JobRow
<1>5. TypeOK'
  BY <1>1, <1>3, <1>4 DEF IInv, TypeOK
<1>6. Consistent'
  <2>1. \A w \in Workers : /\ worker'[w].pc = worker[w].pc
                           /\ worker'[w].job = worker[w].job
                           /\ worker'[w].token = worker[w].token
                           /\ worker'[w].pieces = worker[w].pieces
    BY <1>2 DEF IInv, TypeOK, WorkerMemory
  <2>2. \A i \in Jobs : job'[i].status = job[i].status
    BY <1>1 DEF IInv, TypeOK, JobRow
  <2> QED BY <1>1, <2>1, <2>2 DEF IInv, Consistent
<1>7. Numbered' /\ VersionsAreDense'
  BY <1>1 DEF IInv, Numbered, VersionsAreDense
<1>8. ChunksAreComplete' /\ ReportsTellTheJob'
  BY <1>1 DEF IInv, TypeOK, JobRow, ChunksAreComplete, ReportsTellTheJob, Terminal
<1> QED BY <1>5, <1>6, <1>7, <1>8 DEF IInv

LEMMA DamageStep ==
    ASSUME IInv, NEW j \in Jobs, Damage(j)
    PROVE  IInv'
<1>1. PICK t \in Texts : doc' = [doc EXCEPT ![j].text = t]
  BY DEF Damage
<1>2. UNCHANGED <<older, upload, job, chunks, worker, reports, stable>>
  BY DEF Damage
<1>3. TypeOK'
  <2>1. [doc[j] EXCEPT !.text = t] \in DocumentRow
    BY DEF IInv, TypeOK, DocumentRow
  <2> QED BY <1>1, <1>2, <2>1 DEF IInv, TypeOK
<1>4. \A k \in Jobs : doc'[k].version = doc[k].version /\ doc'[k].hash = doc[k].hash
  BY <1>1 DEF IInv, TypeOK, DocumentRow
<1>5. Consistent' /\ Numbered'
  BY <1>2, <1>4 DEF IInv, Consistent, Numbered
<1>6. VersionsAreDense'
  BY <1>2, <1>4 DEF IInv, VersionsAreDense
<1>7. ChunksAreComplete' /\ ReportsTellTheJob'
  BY <1>2, <1>4 DEF IInv, ChunksAreComplete, ReportsTellTheJob
<1> QED BY <1>3, <1>5, <1>6, <1>7 DEF IInv

LEMMA NextIInv ==
    ASSUME IInv, [Next]_vars
    PROVE  IInv'
<1>1. ASSUME NEW j \in Jobs, BeginUpload(j) \/ LoseUpload(j) PROVE IInv'
  BY <1>1, UploadStep
<1>2. ASSUME NEW j \in Jobs, NEW t \in ContentsOf[j], InsertDocument(j, t) PROVE IInv'
  BY <1>2, InsertStep
<1>3. ASSUME NEW j \in Jobs, ExpireLease(j) PROVE IInv'
  BY <1>3, ExpireStep
<1>4. ASSUME NEW j \in Jobs, Damage(j) PROVE IInv'
  BY <1>4, DamageStep
<1>5. ASSUME NEW w \in Workers, NEW j \in Jobs, ClaimNext(w, j) PROVE IInv'
  BY <1>5, ClaimStep
<1>6. ASSUME NEW w \in Workers, WorkerStep(w) PROVE IInv'
  BY <1>6, LoadStep, CompleteStep, FailStep DEF WorkerStep
<1>7. ASSUME NEW w \in Workers, Crash(w) PROVE IInv'
  BY <1>7, ExitStep DEF Crash
<1>8. ASSUME UNCHANGED vars PROVE IInv'
  BY <1>8 DEF vars, IInv, TypeOK, Consistent, Numbered, VersionsAreDense,
              ChunksAreComplete, ReportsTellTheJob
<1> QED BY <1>1, <1>2, <1>3, <1>4, <1>5, <1>6, <1>7, <1>8 DEF Next

THEOREM IngestionIsSound == Spec => []IInv
<1>1. Init => IInv
  BY InitIInv
<1>2. IInv /\ [Next]_vars => IInv'
  BY NextIInv
<1> QED BY <1>1, <1>2, PTL DEF Spec

-----------------------------------------------------------------------------
(* The properties of the run.                                              *)

\* Rows and memories keep their shape; claim columns exactly while processing.
THEOREM TypeCorrectIngestion == Spec => []TypeOK
<1>1. IInv => TypeOK
  BY DEF IInv
<1> QED BY <1>1, IngestionIsSound, PTL

\* No race of uploads gives two documents of a source one version, or skips one.
THEOREM VersionsStayDense == Spec => []VersionsAreDense
<1>1. IInv => VersionsAreDense
  BY DEF IInv
<1> QED BY <1>1, IngestionIsSound, PTL

\* Chunks appear with the success of the job, all of them, and only then.
THEOREM ChunksComeWithSuccess == Spec => []ChunksAreComplete
<1>1. IInv => ChunksAreComplete
  BY DEF IInv
<1> QED BY <1>1, IngestionIsSound, PTL

\* A reported success is a success, a reported failure is an end.
THEOREM ReportsAreTrue == Spec => []ReportsTellTheJob
<1>1. IInv => ReportsTellTheJob
  BY DEF IInv
<1> QED BY <1>1, IngestionIsSound, PTL

-----------------------------------------------------------------------------
(* What a step may do.                                                     *)

\* A step that gives a job another status, or chunks, is one of five.
LEMMA StatusSteps ==
    ASSUME IInv, [Next]_vars
    PROVE  \/ /\ \A j \in Jobs : job'[j].status = job[j].status
              /\ UNCHANGED chunks
           \/ \E j \in Jobs : /\ job[j].status \in {"none", "queued"}
                              /\ job'[j].status = IF job[j].status = "none" THEN "queued"
                                                  ELSE "processing"
                              /\ \A k \in Jobs \ {j} : job'[k] = job[k]
                              /\ UNCHANGED chunks
           \/ \E w \in Workers, s \in Terminal :
                /\ worker[w].pc # "idle" /\ Fence(w)
                /\ SettleJob(worker[w].job, s) /\ Report(w, s)
                /\ IF s = "failed" THEN UNCHANGED chunks
                   ELSE /\ ChunksMatchDocument(w)
                        /\ chunks' = [chunks EXCEPT ![worker[w].job] = @ \cup worker[w].pieces]
<1> DEFINE Goal == \/ /\ \A j \in Jobs : job'[j].status = job[j].status
                      /\ UNCHANGED chunks
                   \/ \E j \in Jobs : /\ job[j].status \in {"none", "queued"}
                                      /\ job'[j].status = IF job[j].status = "none" THEN "queued"
                                                          ELSE "processing"
                                      /\ \A k \in Jobs \ {j} : job'[k] = job[k]
                                      /\ UNCHANGED chunks
                   \/ \E w \in Workers, s \in Terminal :
                        /\ worker[w].pc # "idle" /\ Fence(w)
                        /\ SettleJob(worker[w].job, s) /\ Report(w, s)
                        /\ IF s = "failed" THEN UNCHANGED chunks
                           ELSE /\ ChunksMatchDocument(w)
                                /\ chunks' = [chunks EXCEPT ![worker[w].job] = @ \cup worker[w].pieces]
<1>1. ASSUME UNCHANGED <<job, chunks>> PROVE Goal
  BY <1>1
<1>2. ASSUME NEW j \in Jobs, BeginUpload(j) \/ LoseUpload(j) \/ Damage(j) PROVE Goal
  BY <1>1, <1>2 DEF BeginUpload, LoseUpload, Damage
<1>3. ASSUME NEW j \in Jobs, NEW t \in ContentsOf[j], InsertDocument(j, t) PROVE Goal
  <2>1. CASE VersionTaken(j)
    BY <1>1, <1>3, <2>1 DEF InsertDocument
  <2>2. CASE ~VersionTaken(j)
    <3>1. /\ job' = [job EXCEPT ![j].status = "queued"]
          /\ job[j].status = "none"
          /\ UNCHANGED chunks
      BY <1>3, <2>2 DEF InsertDocument, IInv, Consistent
    <3>2. /\ job'[j].status = "queued"
          /\ \A k \in Jobs \ {j} : job'[k] = job[k]
      BY <3>1 DEF IInv, TypeOK, JobRow
    <3> QED BY <3>1, <3>2
  <2> QED BY <2>1, <2>2
<1>4. ASSUME NEW j \in Jobs, ExpireLease(j) PROVE Goal
  BY <1>4 DEF ExpireLease, IInv, TypeOK, JobRow
<1>5. ASSUME NEW w \in Workers, NEW j \in Jobs, ClaimNext(w, j) PROVE Goal
  <2>1. /\ job' = [job EXCEPT ![j] =
                      [status |-> "processing", token |-> FreshToken, live |-> TRUE]]
        /\ job[j].status \in {"queued", "processing"}
        /\ UNCHANGED chunks
    BY <1>5 DEF ClaimNext, Selected, Claimable
  <2>2. /\ job'[j].status = "processing"
        /\ \A k \in Jobs \ {j} : job'[k] = job[k]
    BY <2>1 DEF IInv, TypeOK
  <2> QED BY <2>1, <2>2
<1>6. ASSUME NEW w \in Workers, WorkerStep(w) PROVE Goal
  <2>1. CASE LoadAndParse(w)
    BY <1>1, <2>1 DEF LoadAndParse
  <2>2. CASE Complete(w)
    BY <1>1, <2>2 DEF Complete, Terminal
  <2>3. CASE MarkFailed(w)
    BY <1>1, <2>3 DEF MarkFailed, Terminal
  <2> QED BY <1>6, <2>1, <2>2, <2>3 DEF WorkerStep
<1>7. ASSUME NEW w \in Workers, Crash(w) PROVE Goal
  BY <1>1, <1>7 DEF Crash
<1>8. ASSUME UNCHANGED vars PROVE Goal
  BY <1>1, <1>8 DEF vars
<1> QED BY <1>2, <1>3, <1>4, <1>5, <1>6, <1>7, <1>8 DEF Next

\* The fence: nobody but the holder of the current claim ends a job or writes chunks.
THEOREM OnlyTheHolderSettles == Spec => HolderOnlySettles
<1> DEFINE A == \A j \in Jobs :
        \/ job[j].status \notin {"none", "queued"} /\ job'[j].status # job[j].status
        \/ chunks'[j] # chunks[j]
        => /\ job[j].status = "processing"
           /\ \E w \in Workers : /\ worker[w].job = j
                                 /\ worker[w].token = job[j].token
                                 /\ worker'[w] # worker[w]
<1>1. ASSUME IInv, [Next]_vars PROVE A
  <2>1. ASSUME NEW w \in Workers, NEW s \in Terminal,
               worker[w].pc # "idle", Fence(w),
               SettleJob(worker[w].job, s), Report(w, s),
               \/ UNCHANGED chunks
               \/ chunks' = [chunks EXCEPT ![worker[w].job] = @ \cup worker[w].pieces]
        PROVE  A
    <3>1. /\ job[worker[w].job].status = "processing"
          /\ worker[w].token = job[worker[w].job].token
          /\ worker[w].job \in Jobs
      BY <1>1, <2>1 DEF Fence, HoldsClaim, IInv, Consistent
    <3>2. worker'[w] # worker[w]
      BY <1>1, <2>1 DEF Report, IdleWorker, IInv, TypeOK
    <3>3. \A j \in Jobs : j # worker[w].job => job'[j] = job[j] /\ chunks'[j] = chunks[j]
      BY <1>1, <2>1 DEF SettleJob, IInv, TypeOK
    <3> QED BY <3>1, <3>2, <3>3
  <2>2. CASE /\ \A j \in Jobs : job'[j].status = job[j].status
             /\ UNCHANGED chunks
    BY <2>2
  <2>3. CASE \E j \in Jobs :
               /\ job[j].status \in {"none", "queued"}
               /\ \A k \in Jobs \ {j} : job'[k] = job[k]
               /\ UNCHANGED chunks
    <3>1. PICK j \in Jobs :
               /\ job[j].status \in {"none", "queued"}
               /\ \A k \in Jobs \ {j} : job'[k] = job[k]
               /\ UNCHANGED chunks
      BY <2>3
    <3>2. \A k \in Jobs : k # j => job'[k].status = job[k].status
      BY <3>1
    <3>3. \A k \in Jobs : chunks'[k] = chunks[k]
      BY <3>1
    <3> QED BY <3>1, <3>2, <3>3
  <2> HIDE DEF A
  <2> QED BY <1>1, <2>1, <2>2, <2>3, StatusSteps
<1>2. [][A]_vars <=> HolderOnlySettles
  BY DEF HolderOnlySettles
<1> QED BY <1>1, <1>2, IngestionIsSound, PTL DEF Spec

\* Every chunk that is written is a slice of the row's content at that moment.
THEOREM ChunksArePublishedFromTheRow == Spec => PublishedFromStoredText
<1> DEFINE A == \A j \in Jobs :
        chunks'[j] # chunks[j] => chunks'[j] \subseteq Pieces(doc[j].text)
<1>1. ASSUME IInv, [Next]_vars PROVE A
  <2>1. ASSUME NEW w \in Workers, Fence(w), worker[w].pc # "idle", ChunksMatchDocument(w),
               chunks' = [chunks EXCEPT ![worker[w].job] = @ \cup worker[w].pieces]
        PROVE  A
    <3>1. worker[w].job \in Jobs /\ chunks[worker[w].job] = {}
      BY <1>1, <2>1 DEF Fence, HoldsClaim, IInv, Consistent, ChunksAreComplete
    <3> QED BY <1>1, <2>1, <3>1 DEF ChunksMatchDocument, IInv, TypeOK
  <2>2. CASE UNCHANGED chunks
    BY <2>2
  <2> HIDE DEF A
  <2> QED BY <1>1, <2>1, <2>2, StatusSteps
<1>2. [][A]_vars <=> PublishedFromStoredText
  BY DEF PublishedFromStoredText
<1> QED BY <1>1, <1>2, IngestionIsSound, PTL DEF Spec

-----------------------------------------------------------------------------
(* The refinement.                                                         *)

LEMMA InitRefines == Init => Queue!QueueInit
  BY DEF Init, Queue!QueueInit

\* Every step of workers and uploads is a step of the abstract queue, or none.
LEMMA NextRefines ==
    ASSUME IInv, [Next]_vars
    PROVE  [Queue!QueueNext]_Queue!queueVars
<1> DEFINE phaseBar == [j \in Jobs |-> IF job[j].status = "none" THEN "absent"
                                      ELSE job[j].status]
           resultBar == [j \in Jobs |-> IF job[j].status = "succeeded" THEN {chunks[j]} ELSE {}]
<1>1. CASE /\ \A j \in Jobs : job'[j].status = job[j].status
           /\ UNCHANGED chunks
  BY <1>1 DEF Queue!queueVars
<1>2. ASSUME NEW j \in Jobs,
             job[j].status \in {"none", "queued"},
             job'[j].status = IF job[j].status = "none" THEN "queued" ELSE "processing",
             \A k \in Jobs \ {j} : job'[k] = job[k],
             UNCHANGED chunks
      PROVE  Queue!Enqueue(j) \/ Queue!TakeUp(j)
  <2>1. resultBar' = resultBar
    BY <1>2
  <2>2. CASE job[j].status = "none"
    <3>1. phaseBar' = [phaseBar EXCEPT ![j] = "queued"]
      BY <1>2, <2>2
    <3> QED BY <2>1, <2>2, <3>1 DEF Queue!Enqueue
  <2>3. CASE job[j].status = "queued"
    <3>1. phaseBar' = [phaseBar EXCEPT ![j] = "processing"]
      BY <1>2, <2>3
    <3> QED BY <2>1, <2>3, <3>1 DEF Queue!TakeUp
  <2> QED BY <1>2, <2>2, <2>3
<1>3. ASSUME NEW w \in Workers, NEW s \in Terminal, worker[w].pc # "idle", Fence(w),
             SettleJob(worker[w].job, s),
             IF s = "failed" THEN UNCHANGED chunks
             ELSE chunks' = [chunks EXCEPT ![worker[w].job] = @ \cup worker[w].pieces]
      PROVE  \E j \in Jobs : Queue!GiveUp(j) \/ \E r \in SUBSET AllPieces : Queue!Publish(j, r)
  <2> DEFINE j == worker[w].job
  <2>1. /\ j \in Jobs /\ job[j].status = "processing"
        /\ chunks \in [Jobs -> SUBSET AllPieces]
        /\ worker[w].pieces \in SUBSET AllPieces
    BY <1>3 DEF Fence, HoldsClaim, IInv, Consistent, TypeOK, WorkerMemory
  <2>2. /\ job'[j].status = s
        /\ \A k \in Jobs \ {j} : job'[k] = job[k]
    BY <1>3, <2>1 DEF SettleJob, IInv, TypeOK
  <2>3. phaseBar' = [phaseBar EXCEPT ![j] = s]
    BY <2>1, <2>2 DEF Terminal
  <2>4. CASE s = "failed"
    <3>1. resultBar' = resultBar
      BY <1>3, <2>1, <2>2, <2>4
    <3> QED BY <2>1, <2>3, <2>4, <3>1 DEF Queue!GiveUp
  <2>5. CASE s = "succeeded"
    <3>1. chunks' = [chunks EXCEPT ![j] = chunks[j] \cup worker[w].pieces]
      BY <1>3, <2>5
    <3>2. resultBar' = [resultBar EXCEPT ![j] = {chunks'[j]}]
      BY <2>1, <2>2, <2>5, <3>1
    <3>3. chunks'[j] \in SUBSET AllPieces
      BY <2>1, <3>1
    <3> QED BY <2>1, <2>3, <2>5, <3>2, <3>3 DEF Queue!Publish
  <2> QED BY <2>4, <2>5 DEF Terminal
<1> QED BY <1>1, <1>2, <1>3, StatusSteps DEF Queue!QueueNext

\* The rows of the database, with leases and crashes, are the queue of JobQueue.
THEOREM IngestionImplementsQueue == Spec => ImplementsQueue
<1>1. Init => Queue!QueueInit
  BY InitRefines
<1>2. IInv /\ [Next]_vars => [Queue!QueueNext]_Queue!queueVars
  BY NextRefines
<1> QED BY <1>1, <1>2, IngestionIsSound, PTL DEF Spec, ImplementsQueue, Queue!QueueSpec
=============================================================================
