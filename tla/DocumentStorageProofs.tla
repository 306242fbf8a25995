------------------------ MODULE DocumentStorageProofs ------------------------
(***************************************************************************)
(* The object store only observes the queue: a step of DocumentStorage is a *)
(* step of DocumentQueue or leaves its variables alone, so everything that  *)
(* DocumentQueueProofs proves of the rows holds here as well.  What readers  *)
(* see of a document was made from its own PDF because nobody else writes or *)
(* deletes under its name as long as it is active (AtRest), and an attempt   *)
(* that outlives the document finds its row gone.                            *)
(***************************************************************************)
EXTENDS DocumentStorage, DocumentQueueProofs

(* A step of the composition is a step of the queue or none. *)
LEMMA StorageStep == ASSUME [StorageNext]_allVars PROVE [Next]_vars
<1>1. CASE UNCHANGED allVars
  BY <1>1 DEF allVars
<1>2. CASE \E d \in Doc : \/ ReserveName(d) \/ PutPdf(d) \/ PutPdfFails(d) \/ FinalizeUpload(d)
                          \/ UploadDies(d) \/ DeleteDocument(d)
  BY <1>2 DEF ReserveName, PutPdf, PutPdfFails, FinalizeUpload, UploadDies, DeleteDocument,
              Next, UploadStep, RequestStep
<1>3. CASE \E s \in Sweep : SweepObjects(s)
  BY <1>3 DEF SweepObjects
<1>4. CASE \E t \in Token : DownloadPdf(t) \/ PutMarkdown(t) \/ CleanMarkdown(t)
  BY <1>4 DEF DownloadPdf, PutMarkdown, CleanMarkdown, Next, AttemptStep
<1>5. CASE RowStep /\ UNCHANGED storeVars
  BY <1>5 DEF RowStep, Next, UploadStep, RequestStep, AttemptStep
<1> QED
  BY <1>1, <1>2, <1>3, <1>4, <1>5 DEF StorageNext

(* The composition implements the queue: object writes and deletions add
   behaviour to the store, never to the rows (upload.service.ts and
   pdf-processor.worker.ts act on the store only between transactions). *)
THEOREM StorageImplementsQueue == StorageSpec => Spec
<1>1. StorageInit => Init
  BY DEF StorageInit
<1>2. [StorageNext]_allVars => [Next]_vars
  BY StorageStep
<1> QED
  BY <1>1, <1>2, PTL DEF StorageSpec, Spec

-----------------------------------------------------------------------------
(* What keeps the objects of a document its own: the name is unique among the
   active documents; nobody else writes or deletes under the name of one that
   was reserved when it was at rest; its own deletions come when it is given up. *)
OneActive == \A d, e \in Doc : active[d] /\ active[e] /\ NameOf[d] = NameOf[e] => d = e

AtRest == \A d \in quiet : active[d] => ~OthersBusy(d)

Begun ==
  /\ \A d \in quiet \cup abandoned : upload[d] # "none"
  /\ \A s \in sweeps : upload[s[1]] # "none"

GivenUp ==
  /\ \A s \in sweeps : s[2] = "delete" => ~active[s[1]]
  /\ \A s \in sweeps : s[2] = "rollback" => s[1] \in abandoned
  /\ \A d \in abandoned : upload[d] \in {"rollback", "done"}

(* From the put on, the name holds the document's own PDF, or nothing once its
   upload is rolled back. *)
OwnPdf ==
  \A d \in quiet :
    active[d] /\ (status[d] # "uploading" \/ upload[d] = "finalizing") =>
      pdf[NameOf[d]] = d \/ (d \in abandoned /\ pdf[NameOf[d]] = None)

(* An attempt works on a document whose upload is over. *)
AfterUpload ==
  \A t \in Token : Live(t) => upload[docOf[t]] # "none" /\ status[docOf[t]] # "uploading"

(* What an attempt downloaded is its document's, as long as that is active. *)
Sourced ==
  \A t \in Token :
    phase[t] \in {"pipeline", "storing", "completing"} /\ docOf[t] \in quiet /\ active[docOf[t]] =>
      source[t] = docOf[t]

Downloaded == \A d \in Doc : chunks[d] # None => phase[chunks[d]] # "download"

StoreInv ==
  /\ OneActive /\ AtRest /\ Begun /\ GivenUp /\ OwnPdf /\ AfterUpload /\ Sourced /\ Downloaded
  /\ OwnSource

-----------------------------------------------------------------------------
(* Every action keeps the types of the store. *)
LEMMA StorageTypeNext ==
  ASSUME TypeOK, RowInv, StorageTypeOK, [StorageNext]_allVars
  PROVE  StorageTypeOK'
<1> USE NameOfAssumption DEF StorageTypeOK, Sweep
<1>1. CASE UNCHANGED allVars
  BY <1>1 DEF allVars, storeVars
<1>2. ASSUME NEW d \in Doc, ReserveName(d)
      PROVE  StorageTypeOK'
  BY <1>2 DEF ReserveName
<1>3. ASSUME NEW d \in Doc, PutPdf(d)
      PROVE  StorageTypeOK'
  BY <1>3 DEF PutPdf
<1>4. ASSUME NEW d \in Doc, PutPdfFails(d)
      PROVE  StorageTypeOK'
  BY <1>4 DEF PutPdfFails, RollbackBegins
<1>5. ASSUME NEW d \in Doc, FinalizeUpload(d)
      PROVE  StorageTypeOK'
  BY <1>5 DEF FinalizeUpload, RollbackBegins
<1>6. ASSUME NEW d \in Doc, UploadDies(d)
      PROVE  StorageTypeOK'
  BY <1>6 DEF UploadDies
<1>7. ASSUME NEW d \in Doc, DeleteDocument(d)
      PROVE  StorageTypeOK'
  BY <1>7 DEF DeleteDocument
<1>8. ASSUME NEW s \in Sweep, SweepObjects(s)
      PROVE  StorageTypeOK'
  BY <1>8 DEF SweepObjects
<1>9. ASSUME NEW t \in Token, DownloadPdf(t)
      PROVE  StorageTypeOK'
  <2>1. CASE phase'[t] = "pipeline"
    <3>1. NameFor(t) \in Name
      BY <1>9 DEF DownloadPdf, Download, NameFor, RowInv, AttemptsPlaced, Live, LivePhase
    <3> QED BY <1>9, <2>1, <3>1 DEF DownloadPdf
  <2>2. CASE phase'[t] # "pipeline"
    BY <1>9, <2>2 DEF DownloadPdf
  <2> QED BY <2>1, <2>2
<1>10. ASSUME NEW t \in Token, PutMarkdown(t) \/ CleanMarkdown(t)
      PROVE  StorageTypeOK'
  BY <1>10 DEF PutMarkdown, CleanMarkdown
<1>11. CASE UNCHANGED storeVars
  BY <1>11 DEF storeVars
<1> QED BY <1>1, <1>2, <1>3, <1>4, <1>5, <1>6, <1>7, <1>8, <1>9, <1>10, <1>11 DEF StorageNext

-----------------------------------------------------------------------------
Past == {"pipeline", "storing", "completing"}

(* What every step but a download does with the attempts: it starts them on
   claimed documents, moves them on, and publishes for their document. *)
AttemptsMove ==
  /\ \A t \in Token : Live(t)' =>
       \/ Live(t) /\ docOf'[t] = docOf[t]
       \/ upload[docOf'[t]] # "none" /\ status'[docOf'[t]] # "uploading"
  /\ \A t \in Token : phase'[t] \in Past => phase[t] \in Past /\ docOf'[t] = docOf[t]
  /\ \A t \in Token : phase'[t] = "download" => phase[t] \in {"unused", "download"}
  /\ \A d \in Doc : chunks'[d] # None =>
       \/ chunks'[d] = chunks[d]
       \/ /\ phase[chunks'[d]] = "completing" /\ docOf[chunks'[d]] = d /\ active[d]
          /\ chunks'[d] \in Token

(* Such a step keeps what is known of the attempts. *)
LEMMA AttemptsKeep ==
  ASSUME TypeOK, RowInv, StorageTypeOK, StoreInv, AttemptsMove, source' = source, quiet' = quiet,
         \A d \in Doc : active'[d] => active[d],
         \A d \in Doc : status'[d] = "uploading" => status[d] = "uploading",
         \A d \in Doc : upload[d] # "none" => upload'[d] # "none",
         \A t \in Token : Live(t)' => docOf'[t] \in Doc
  PROVE  AfterUpload' /\ Sourced' /\ Downloaded' /\ OwnSource'
<1>1. AfterUpload'
  BY DEF AfterUpload, AttemptsMove, StoreInv, RowInv, AttemptsPlaced
<1>2. Sourced'
  BY DEF Sourced, AttemptsMove, StoreInv, Past, RowInv, AttemptsPlaced, Live, LivePhase
<1>3. Downloaded'
  BY DEF Downloaded, AttemptsMove, StoreInv, RowInv, TokensSpent, TypeOK
<1>4. OwnSource'
  BY DEF OwnSource, Sourced, AttemptsMove, StoreInv, Past, StorageTypeOK
<1> QED BY <1>1, <1>2, <1>3, <1>4

(* What a step that touches no object does with the rows. *)
RowsMove ==
  /\ \A d \in Doc : active'[d] => active[d] /\ (status[d] = "uploading" => status'[d] = "uploading")
  /\ \A d \in Doc : status'[d] = "uploading" => status[d] = "uploading"
  /\ \A d \in Doc : upload'[d] = upload[d] \/ (upload[d] = "rollback" /\ upload'[d] = "done")

(* Nothing happens to the attempts. *)
LEMMA AttemptsRest ==
  ASSUME TypeOK, RowInv, UNCHANGED <<attemptVars, chunks>>
  PROVE  AttemptsMove
<1>1. phase' = phase /\ docOf' = docOf /\ chunks' = chunks
  BY DEF attemptVars
<1>2. \A t \in Token : Live(t) => docOf[t] \in Doc
  BY DEF RowInv, AttemptsPlaced
<1>3. \A t \in Token : Live(t)' <=> Live(t)
  BY <1>1 DEF Live
<1> QED BY <1>1, <1>2, <1>3 DEF AttemptsMove

(* An attempt of t goes on to p, or ends. *)
LEMMA AttemptMoves ==
  ASSUME TypeOK, RowInv, NEW t \in Token, chunks' = chunks, NEW p \in AttemptPhase, Live(t),
         p # "download" /\ p # "unused" /\ (p \in Past => phase[t] \in Past),
         Goto(t, p) \/ (Finish(t) /\ p = "done")
  PROVE  AttemptsMove
<1>1. /\ phase' = [phase EXCEPT ![t] = p]
      /\ \A u \in Token : u # t => docOf'[u] = docOf[u]
      /\ p # "done" => docOf'[t] = docOf[t]
  BY DEF Goto, Finish, TypeOK
<1>2. \A u \in Token : Live(u)' => Live(u) /\ docOf'[u] = docOf[u]
  BY <1>1 DEF Live, LivePhase, TypeOK
<1>3. \A u \in Token : phase'[u] \in Past => phase[u] \in Past /\ docOf'[u] = docOf[u]
  BY <1>1 DEF Past, TypeOK
<1>4. \A u \in Token : phase'[u] = "download" => phase[u] = "download"
  BY <1>1 DEF TypeOK
<1> QED BY <1>2, <1>3, <1>4 DEF AttemptsMove

(* The steps that touch no object, or only Markdown. *)
LEMMA QuietMoves ==
  ASSUME TypeOK, RowInv,
         RowStep \/ \E t \in Token : StoreArtifacts(t) \/ CleanArtifacts(t)
  PROVE  RowsMove /\ AttemptsMove
<1> USE DEF docVars, attemptVars
<1>1. ASSUME NEW d \in Doc, RollbackRow(d)
      PROVE  RowsMove /\ AttemptsMove
  <2>1. RowsMove
    BY <1>1 DEF RollbackRow, RowsMove, TypeOK
  <2>2. AttemptsMove
    BY <1>1 DEF RollbackRow, AttemptsMove, Live, RowInv, AttemptsPlaced, TypeOK
  <2> QED BY <2>1, <2>2
<1>2. ASSUME NEW d \in Doc, Reprocess(d)
      PROVE  RowsMove /\ AttemptsMove
  <2>1. RowsMove
    BY <1>2 DEF Reprocess, RowsMove, TypeOK
  <2>2. AttemptsMove
    BY <1>2 DEF Reprocess, AttemptsMove, Live, RowInv, AttemptsPlaced, TypeOK
  <2> QED BY <2>1, <2>2
<1>3. ASSUME NEW d \in Doc, EditRow(d) \/ CooldownEnds(d) \/ LeaseExpires(d)
      PROVE  RowsMove /\ AttemptsMove
  <2>1. UNCHANGED <<status, active, chunks, upload, attemptVars>>
    BY <1>3 DEF EditRow, CooldownEnds, LeaseExpires
  <2> QED BY <2>1, AttemptsRest DEF RowsMove
<1>4. ASSUME NEW i \in Instance, TickPoll(i) \/ ClaimNothing(i) \/ Stop(i)
      PROVE  RowsMove /\ AttemptsMove
  <2>1. UNCHANGED <<status, active, chunks, upload, attemptVars>>
    BY <1>4 DEF TickPoll, ClaimNothing, Stop
  <2> QED BY <2>1, AttemptsRest DEF RowsMove
<1>5. ASSUME NEW i \in Instance, RequeueStale(i)
      PROVE  RowsMove /\ AttemptsMove
  <2>1. \A d \in Doc : status'[d] = status[d] \/ (status[d] = "processing" /\ status'[d] = "queued")
    BY <1>5 DEF RequeueStale, StaleFor
  <2>2. UNCHANGED <<active, chunks, upload, attemptVars>>
    BY <1>5 DEF RequeueStale
  <2> QED BY <2>1, <2>2, AttemptsRest DEF RowsMove
<1>6. ASSUME NEW i \in Instance, ClaimQueued(i)
      PROVE  RowsMove /\ AttemptsMove
  <2>1. PICK T \in (SUBSET FreshTokens) \ {{}} : \E g \in [T -> Claimable] :
          TakeRows(i, T, g) /\ (StartAttempts(i, T, g) \/ StartNothing(T))
    BY <1>6 DEF ClaimQueued
  <2>2. PICK g \in [T -> Claimable] :
          TakeRows(i, T, g) /\ (StartAttempts(i, T, g) \/ StartNothing(T))
    BY <2>1
  <2>3. /\ T \subseteq Token /\ \A t \in T : phase[t] = "unused"
        /\ \A t \in T : g[t] \in Doc /\ status[g[t]] = "queued" /\ active[g[t]]
    BY <2>1, <2>2 DEF FreshTokens, Claimable
  <2>4. /\ status' = [d \in Doc |-> IF d \in {g[t] : t \in T} THEN "processing" ELSE status[d]]
        /\ UNCHANGED <<active, chunks, upload>>
    BY <2>2 DEF TakeRows
  <2>5. \A d \in Doc : \/ status'[d] = status[d] /\ d \notin {g[t] : t \in T}
                       \/ status[d] = "queued" /\ status'[d] = "processing"
    BY <2>3, <2>4
  <2>6. RowsMove
    BY <2>4, <2>5 DEF RowsMove
  <2>7. \A t \in Token \ T : phase'[t] = phase[t] /\ docOf'[t] = docOf[t]
    BY <2>2 DEF StartAttempts, StartNothing
  <2>8. \A t \in T : \/ phase'[t] = "download" /\ docOf'[t] = g[t]
                     \/ phase'[t] = "done"
    BY <2>2, <2>3 DEF StartAttempts, StartNothing
  <2>9. \A t \in T : upload[g[t]] # "none" /\ status'[g[t]] = "processing"
    BY <2>3, <2>4 DEF RowInv, RowsCreated
  <2>10. \A t \in Token : Live(t)' =>
           \/ Live(t) /\ docOf'[t] = docOf[t]
           \/ upload[docOf'[t]] # "none" /\ status'[docOf'[t]] # "uploading"
    BY <2>7, <2>8, <2>9 DEF Live, LivePhase
  <2>11. /\ \A t \in Token : phase'[t] \in Past => phase[t] \in Past /\ docOf'[t] = docOf[t]
         /\ \A t \in Token : phase'[t] = "download" => phase[t] \in {"unused", "download"}
    BY <2>3, <2>7, <2>8 DEF Past
  <2> QED BY <2>4, <2>6, <2>10, <2>11 DEF AttemptsMove
<1>7. ASSUME NEW i \in Instance, Restart(i)
      PROVE  RowsMove /\ AttemptsMove
  <2>1. UNCHANGED <<status, active, chunks, upload>>
    BY <1>7 DEF Restart
  <2>2. \A t \in Token : \/ phase'[t] = phase[t] /\ docOf'[t] = docOf[t]
                         \/ phase'[t] = "done"
    BY <1>7 DEF Restart
  <2>3. AttemptsMove
    BY <2>1, <2>2 DEF AttemptsMove, Live, LivePhase, Past
  <2> QED BY <2>1, <2>3 DEF RowsMove
<1>8. ASSUME NEW t \in Token, Heartbeat(t)
      PROVE  RowsMove /\ AttemptsMove
  <2>1. UNCHANGED <<status, active, chunks, upload, phase, docOf>>
    BY <1>8 DEF Heartbeat
  <2> QED BY <2>1 DEF RowsMove, AttemptsMove, Live
<1>9. ASSUME NEW t \in Token,
             \/ PipelineFails(t) \/ PipelineDone(t) \/ CompleteRefused(t) \/ MarkFailedRefused(t)
             \/ StoreArtifacts(t) \/ CleanArtifacts(t)
      PROVE  RowsMove /\ AttemptsMove
  <2>1. UNCHANGED <<status, active, chunks, upload>>
    BY <1>9 DEF PipelineFails, PipelineDone, CompleteRefused, MarkFailedRefused, StoreArtifacts, CleanArtifacts
  <2>2. Live(t) /\ \E p \in {"failing", "storing", "completing", "done"} :
          /\ p \in Past => phase[t] \in Past
          /\ Goto(t, p) \/ (Finish(t) /\ p = "done")
    BY <1>9 DEF PipelineFails, PipelineDone, CompleteRefused, MarkFailedRefused, StoreArtifacts,
                CleanArtifacts, GotoSame, Live, LivePhase, Past
  <2>3. AttemptsMove
    BY <2>1, <2>2, AttemptMoves DEF AttemptPhase, LivePhase
  <2> QED BY <2>1, <2>3 DEF RowsMove
<1>10. ASSUME NEW t \in Token, MarkFailed(t)
      PROVE  RowsMove /\ AttemptsMove
  <2>1. /\ status' = [status EXCEPT ![docOf[t]] = "failed"] /\ status[docOf[t]] = "processing"
        /\ UNCHANGED <<active, chunks, upload>>
    BY <1>10 DEF MarkFailed, OwnsRow
  <2>2. Live(t) /\ \E p \in {"cleaning", "done"} : Goto(t, p) \/ (Finish(t) /\ p = "done")
    BY <1>10 DEF MarkFailed, GotoSame, Live, LivePhase
  <2>3. AttemptsMove
    BY <2>1, <2>2, AttemptMoves DEF AttemptPhase, LivePhase, Past
  <2>4. RowsMove
    BY <2>1 DEF RowsMove, TypeOK
  <2> QED BY <2>3, <2>4
<1>11. ASSUME NEW t \in Token, CompleteProcessing(t)
      PROVE  RowsMove /\ AttemptsMove
  <2>1. /\ status' = [status EXCEPT ![docOf[t]] = "ready"] /\ status[docOf[t]] = "processing"
        /\ chunks' = [chunks EXCEPT ![docOf[t]] = t] /\ active[docOf[t]]
        /\ UNCHANGED <<active, upload>> /\ phase[t] = "completing"
    BY <1>11 DEF CompleteProcessing, OwnsRow
  <2>2. RowsMove
    BY <2>1 DEF RowsMove, TypeOK
  <2>3. /\ \A u \in Token : u # t => docOf'[u] = docOf[u] /\ phase'[u] = phase[u]
        /\ \/ phase'[t] = "failing" /\ docOf'[t] = docOf[t]
           \/ phase'[t] = "done"
    BY <1>11 DEF CompleteProcessing, Goto, GotoSame, Finish, TypeOK
  <2>4. \A u \in Token : Live(u)' => Live(u) /\ docOf'[u] = docOf[u]
    BY <2>1, <2>3 DEF Live, LivePhase
  <2>5. /\ \A u \in Token : phase'[u] \in Past => phase[u] \in Past /\ docOf'[u] = docOf[u]
        /\ \A u \in Token : phase'[u] = "download" => phase[u] = "download"
    BY <2>1, <2>3 DEF Past
  <2>6. \A d \in Doc : chunks'[d] = chunks[d] \/ (d = docOf[t] /\ chunks'[d] = t)
    BY <2>1 DEF TypeOK
  <2>7. AttemptsMove
    BY <2>1, <2>4, <2>5, <2>6 DEF AttemptsMove
  <2> QED BY <2>2, <2>7
<1> QED
  BY <1>1, <1>2, <1>3, <1>4, <1>5, <1>6, <1>7, <1>8, <1>9, <1>10, <1>11 DEF RowStep, WorkerStep

-----------------------------------------------------------------------------
Busy == {"storing", "finalizing", "rollback"}
Over == {"rollback", "done"}

(* A step that reserves nothing keeps the names apart, when only an upload
   under way or an active document sends a deletion. *)
LEMMA NamesKept ==
  ASSUME StorageTypeOK, StorageTypeOK', StoreInv, quiet' = quiet,
         \A d \in Doc : active'[d] => active[d],
         \A d \in Doc : upload[d] # "none" => upload'[d] # "none",
         \A d \in Doc : upload'[d] \in Busy => upload[d] \in Busy,
         \A d \in Doc : upload[d] \in Over => upload'[d] \in Over,
         abandoned \subseteq abandoned',
         \A d \in abandoned' \ abandoned : upload'[d] \in Over,
         \A s \in sweeps' \ sweeps :
           /\ upload[s[1]] \in Busy \/ active[s[1]]
           /\ upload'[s[1]] # "none"
           /\ s[2] = "delete" => ~active'[s[1]]
           /\ s[2] = "rollback" => s[1] \in abandoned'
  PROVE  OneActive' /\ AtRest' /\ Begun' /\ GivenUp'
<1> USE DEF StoreInv, StorageTypeOK
<1>1. \A s \in sweeps \cup sweeps' : s[1] \in Doc
  BY DEF Sweep
<1>2. OneActive'
  BY DEF OneActive
<1>3. AtRest'
  <2> SUFFICES ASSUME NEW d \in quiet, active'[d], NEW e \in Doc \ {d}, NameOf[e] = NameOf[d]
               PROVE  upload'[e] \notin Busy /\ \A s \in sweeps' : s[1] # e
    BY DEF AtRest, OthersBusy, Busy
  <2>1. d \in Doc /\ active[d] /\ ~active[e]
    BY DEF OneActive
  <2>2. upload[e] \notin Busy /\ \A s \in sweeps : s[1] # e
    BY <2>1 DEF AtRest, OthersBusy, Busy
  <2> QED BY <2>1, <2>2, <1>1
<1>4. Begun'
  BY <1>1 DEF Begun, Over
<1>5. GivenUp'
  <2>1. \A s \in sweeps' : s[2] = "delete" => ~active'[s[1]]
    BY <1>1 DEF GivenUp
  <2>2. \A s \in sweeps' : s[2] = "rollback" => s[1] \in abandoned'
    BY <1>1 DEF GivenUp
  <2>3. \A d \in abandoned' : upload'[d] \in {"rollback", "done"}
    BY DEF GivenUp, Over
  <2> QED BY <2>1, <2>2, <2>3 DEF GivenUp
<1> QED BY <1>2, <1>3, <1>4, <1>5

(* A step of the rows alone keeps the store consistent with them. *)
LEMMA QuietKeeps ==
  ASSUME TypeOK, RowInv, RowInv', StorageTypeOK, StorageTypeOK', StoreInv, RowsMove, AttemptsMove,
         pdf' = pdf, source' = source, sweeps' = sweeps, abandoned' = abandoned, quiet' = quiet
  PROVE  StoreInv'
<1>1. OneActive' /\ AtRest' /\ Begun' /\ GivenUp'
  BY NamesKept DEF RowsMove, Busy, Over
<1>2. AfterUpload' /\ Sourced' /\ Downloaded' /\ OwnSource'
  BY AttemptsKeep DEF RowsMove, RowInv, AttemptsPlaced
<1>3. OwnPdf'
  BY DEF OwnPdf, StoreInv, RowsMove, StorageTypeOK
<1> QED BY <1>1, <1>2, <1>3 DEF StoreInv

-----------------------------------------------------------------------------
(* A request that leaves the attempts and what they downloaded alone and keeps
   the names apart has only the PDF to account for. *)
LEMMA RequestKeeps ==
  ASSUME TypeOK, RowInv, RowInv', StorageTypeOK, StorageTypeOK', StoreInv,
         UNCHANGED <<attemptVars, chunks, source, quiet>>,
         \A d \in Doc : active'[d] => active[d],
         \A d \in Doc : status'[d] = "uploading" => status[d] = "uploading",
         \A d \in Doc : upload[d] # "none" => upload'[d] # "none",
         OneActive' /\ AtRest' /\ Begun' /\ GivenUp', OwnPdf'
  PROVE  StoreInv'
<1>1. AttemptsMove
  BY AttemptsRest
<1>2. AfterUpload' /\ Sourced' /\ Downloaded' /\ OwnSource'
  BY <1>1, AttemptsKeep DEF RowInv, AttemptsPlaced
<1> QED BY <1>2 DEF StoreInv

(* A name is reserved: nothing is known of the document yet. *)
LEMMA ReserveNameKeeps ==
  ASSUME TypeOK, RowInv, StorageTypeOK, StorageTypeOK', StoreInv, NEW d \in Doc, ReserveName(d)
  PROVE  StoreInv'
<1> USE DEF StoreInv, StorageTypeOK
<1>1. /\ upload[d] = "none" /\ upload' = [upload EXCEPT ![d] = "storing"]
      /\ status' = [status EXCEPT ![d] = "uploading"]
      /\ active' = [active EXCEPT ![d] = TRUE]
      /\ \A e \in Doc : NameOf[e] = NameOf[d] => ~active[e]
      /\ UNCHANGED <<pdf, source, sweeps, abandoned, chunks, phase, docOf>>
      /\ quiet' = IF OthersBusy(d) THEN quiet ELSE quiet \cup {d}
  BY DEF ReserveName, Reserve, attemptVars
<1>2. /\ d \notin quiet /\ d \notin abandoned /\ \A s \in sweeps : s[1] # d
      /\ status[d] = "absent" /\ chunks[d] = None
      /\ \A t \in Token : Live(t) => docOf[t] # d
  BY <1>1 DEF Begun, RowInv, RowsCreated, ChunksIffReady, AfterUpload
<1>3. \A e \in Doc \ {d} : /\ upload'[e] = upload[e] /\ status'[e] = status[e]
                           /\ active'[e] <=> active[e]
  BY <1>1 DEF TypeOK
<1>4. upload'[d] = "storing" /\ status'[d] = "uploading"
  BY <1>1 DEF TypeOK
<1>5. OneActive'
  BY <1>1, <1>3 DEF OneActive
<1>6. AtRest'
  <2> SUFFICES ASSUME NEW e \in quiet', active'[e] PROVE ~OthersBusy(e)'
    BY DEF AtRest
  <2>1. CASE e = d
    <3>1. ~OthersBusy(d)
      BY <1>1, <1>2, <2>1
    <3> QED BY <1>1, <1>3, <2>1, <3>1 DEF OthersBusy
  <2>2. CASE e # d
    <3>1. e \in quiet /\ active[e] /\ NameOf[e] # NameOf[d]
      BY <1>1, <1>3, <2>2
    <3> QED BY <1>1, <1>3, <3>1 DEF OthersBusy, AtRest
  <2> QED BY <2>1, <2>2
<1>7. Begun'
  BY <1>1, <1>3, <1>4 DEF Begun, Sweep
<1>8. GivenUp'
  BY <1>1, <1>2, <1>3 DEF GivenUp, Sweep
<1>9. OwnPdf'
  BY <1>1, <1>3, <1>4 DEF OwnPdf
<1>10. \A t \in Token : Live(t)' <=> Live(t)
  BY <1>1 DEF Live
<1>11. AfterUpload'
  BY <1>1, <1>2, <1>3, <1>10 DEF AfterUpload, RowInv, AttemptsPlaced
<1>12. Sourced'
  BY <1>1, <1>2, <1>3 DEF Sourced, Live, LivePhase
<1>13. Downloaded' /\ OwnSource'
  BY <1>1, <1>2 DEF Downloaded, OwnSource
<1> QED BY <1>5, <1>6, <1>7, <1>8, <1>9, <1>11, <1>12, <1>13

(* The PDF is stored.  Another active document of the name would have been
   reserved while this request was under way. *)
LEMMA PutPdfKeeps ==
  ASSUME TypeOK, RowInv, RowInv', StorageTypeOK, StorageTypeOK', StoreInv, NEW d \in Doc,
         PutPdf(d) \/ PutPdfFails(d)
  PROVE  StoreInv'
<1>1. /\ upload[d] = "storing"
      /\ \E u \in {"finalizing", "rollback"} : upload' = [upload EXCEPT ![d] = u]
      /\ UNCHANGED <<status, active, chunks, attemptVars, source, quiet>>
      /\ pdf' = [pdf EXCEPT ![NameOf[d]] = pdf'[NameOf[d]]]
      /\ \/ pdf'[NameOf[d]] = d
         \/ upload'[d] # "finalizing" /\ pdf'[NameOf[d]] = pdf[NameOf[d]]
      /\ \/ UNCHANGED <<sweeps, abandoned>>
         \/ /\ upload'[d] = "rollback" /\ sweeps' = sweeps \cup {<<d, "rollback">>}
            /\ abandoned' = abandoned \cup {d}
  BY NameOfAssumption DEF PutPdf, PutPdfFails, StorePdf, StorePdfFails, docVars, RollbackBegins,
     TypeOK, StorageTypeOK
<1>2. /\ \A e \in Doc \ {d} : upload'[e] = upload[e]
      /\ upload'[d] \in {"finalizing", "rollback"}
  BY <1>1 DEF TypeOK
<1>3. OneActive' /\ AtRest' /\ Begun' /\ GivenUp'
  BY <1>1, <1>2, NamesKept DEF Busy, Over
<1>4. OwnPdf'
  <2> SUFFICES ASSUME NEW e \in quiet, active[e], status[e] # "uploading" \/ upload'[e] = "finalizing"
               PROVE  pdf'[NameOf[e]] = e \/ (e \in abandoned' /\ pdf'[NameOf[e]] = None)
    BY <1>1 DEF OwnPdf
  <2>1. CASE e = d
    BY <1>1, <1>2, <2>1 DEF OwnPdf, StoreInv
  <2>2. CASE e # d
    <3>1. NameOf[e] # NameOf[d]
      BY <1>1, <2>2 DEF StoreInv, AtRest, OthersBusy, StorageTypeOK
    <3> QED BY <1>1, <1>2, <2>2, <3>1, NameOfAssumption DEF OwnPdf, StoreInv, StorageTypeOK
  <2> QED BY <2>1, <2>2
<1> QED BY <1>1, <1>2, <1>3, <1>4, RequestKeeps

(* The row is queued, or the request turns to its rollback: the PDF was put
   before either. *)
LEMMA FinalizeKeeps ==
  ASSUME TypeOK, RowInv, RowInv', StorageTypeOK, StorageTypeOK', StoreInv, NEW d \in Doc,
         FinalizeUpload(d)
  PROVE  StoreInv'
<1>1. /\ upload[d] = "finalizing"
      /\ \E u \in {"done", "rollback"} : upload' = [upload EXCEPT ![d] = u]
      /\ UNCHANGED <<pdf, active, chunks, attemptVars, source, quiet>>
      /\ status' = status \/ status' = [status EXCEPT ![d] = "queued"]
      /\ \/ UNCHANGED <<sweeps, abandoned>>
         \/ /\ upload'[d] = "rollback" /\ sweeps' = sweeps \cup {<<d, "rollback">>}
            /\ abandoned' = abandoned \cup {d}
  BY DEF FinalizeUpload, Finalize, FinalizeRefused, docVars, RollbackBegins, TypeOK
<1>2. /\ \A e \in Doc \ {d} : upload'[e] = upload[e] /\ status'[e] = status[e]
      /\ upload'[d] \in {"done", "rollback"}
      /\ status'[d] = "uploading" => status[d] = "uploading"
  BY <1>1 DEF TypeOK
<1>3. OneActive' /\ AtRest' /\ Begun' /\ GivenUp'
  BY <1>1, <1>2, NamesKept DEF Busy, Over
<1>4. OwnPdf'
  BY <1>1, <1>2 DEF OwnPdf, StoreInv, StorageTypeOK
<1> QED BY <1>1, <1>2, <1>3, <1>4, RequestKeeps

(* The server dies under the request. *)
LEMMA UploadDiesKeeps ==
  ASSUME TypeOK, RowInv, RowInv', StorageTypeOK, StorageTypeOK', StoreInv, NEW d \in Doc,
         UploadDies(d)
  PROVE  StoreInv'
<1>1. /\ upload[d] \in Busy /\ upload' = [upload EXCEPT ![d] = "done"]
      /\ UNCHANGED <<status, active, chunks, attemptVars, source, sweeps, abandoned, quiet>>
      /\ pdf' = [pdf EXCEPT ![NameOf[d]] = pdf'[NameOf[d]]]
      /\ pdf'[NameOf[d]] = d \/ pdf'[NameOf[d]] = pdf[NameOf[d]]
  BY NameOfAssumption DEF UploadDies, UploadEndsWithRow, docVars, Busy, StorageTypeOK
<1>2. /\ \A e \in Doc \ {d} : upload'[e] = upload[e]
      /\ upload'[d] = "done"
  BY <1>1 DEF TypeOK
<1>3. OneActive' /\ AtRest' /\ Begun' /\ GivenUp'
  BY <1>1, <1>2, NamesKept DEF Busy, Over
<1>4. OwnPdf'
  <2> SUFFICES ASSUME NEW e \in quiet, active[e], status[e] # "uploading" \/ upload'[e] = "finalizing"
               PROVE  pdf'[NameOf[e]] = e \/ (e \in abandoned' /\ pdf'[NameOf[e]] = None)
    BY <1>1 DEF OwnPdf
  <2>1. CASE e = d
    BY <1>1, <1>2, <2>1 DEF OwnPdf, StoreInv
  <2>2. CASE e # d
    <3>1. NameOf[e] # NameOf[d]
      BY <1>1, <2>2 DEF StoreInv, AtRest, OthersBusy, StorageTypeOK, Busy
    <3> QED BY <1>1, <1>2, <2>2, <3>1, NameOfAssumption DEF OwnPdf, StoreInv, StorageTypeOK
  <2> QED BY <2>1, <2>2
<1> QED BY <1>1, <1>2, <1>3, <1>4, RequestKeeps DEF Busy

(* A deletion starts when its document has gone. *)
LEMMA DeleteDocumentKeeps ==
  ASSUME TypeOK, RowInv, RowInv', StorageTypeOK, StorageTypeOK', StoreInv, NEW d \in Doc,
         DeleteDocument(d)
  PROVE  StoreInv'
<1>1. /\ active[d] /\ active' = [active EXCEPT ![d] = FALSE]
      /\ UNCHANGED <<status, upload, chunks, attemptVars, pdf, source, abandoned, quiet>>
      /\ sweeps' = sweeps \cup {<<d, "delete">>}
  BY DEF DeleteDocument, Delete
<1>2. ~active'[d] /\ \A e \in Doc : active'[e] => active[e]
  BY <1>1 DEF TypeOK
<1>3. upload[d] # "none"
  BY <1>1 DEF RowInv, RowsCreated
<1>4. OneActive' /\ AtRest' /\ Begun' /\ GivenUp'
  BY <1>1, <1>2, <1>3, NamesKept DEF Over
<1>5. OwnPdf'
  BY <1>1, <1>2 DEF OwnPdf, StoreInv, StorageTypeOK
<1> QED BY <1>1, <1>2, <1>4, <1>5, RequestKeeps

(* What a late deletion removes belongs to no active document but the one
   whose upload is being rolled back. *)
LEMMA SweepObjectsKeeps ==
  ASSUME TypeOK, RowInv, RowInv', StorageTypeOK, StorageTypeOK', StoreInv, NEW s \in Sweep,
         SweepObjects(s)
  PROVE  StoreInv'
<1>1. /\ s \in sweeps /\ sweeps' = sweeps \ {s} /\ s[1] \in Doc /\ s[2] \in {"delete", "rollback"}
      /\ UNCHANGED <<status, active, upload, chunks, attemptVars, source, abandoned, quiet>>
      /\ \E p \in {pdf[NameOf[s[1]]], None} : pdf' = [pdf EXCEPT ![NameOf[s[1]]] = p]
  BY DEF SweepObjects, Sweep, vars, docVars
<1>2. OneActive' /\ AtRest' /\ Begun' /\ GivenUp'
  BY <1>1, NamesKept
<1>3. OwnPdf'
  <2> SUFFICES ASSUME NEW e \in quiet, active[e], status[e] # "uploading" \/ upload[e] = "finalizing"
               PROVE  pdf'[NameOf[e]] = e \/ (e \in abandoned /\ pdf'[NameOf[e]] = None)
    BY <1>1 DEF OwnPdf
  <2>1. e \in Doc /\ (pdf[NameOf[e]] = e \/ (e \in abandoned /\ pdf[NameOf[e]] = None))
    BY DEF OwnPdf, StoreInv, StorageTypeOK
  <2>2. CASE NameOf[e] # NameOf[s[1]]
    BY <1>1, <2>1, <2>2, NameOfAssumption DEF StorageTypeOK
  <2>3. CASE NameOf[e] = NameOf[s[1]]
    <3>1. e = s[1]
      BY <1>1, <2>1, <2>3 DEF StoreInv, AtRest, OthersBusy
    <3>2. e \in abandoned
      BY <1>1, <3>1 DEF StoreInv, GivenUp
    <3>3. pdf'[NameOf[e]] \in {pdf[NameOf[e]], None}
      BY <1>1, <2>1, <2>3, NameOfAssumption DEF StorageTypeOK
    <3> QED BY <2>1, <3>2, <3>3
  <2> QED BY <2>2, <2>3
<1> QED BY <1>1, <1>2, <1>3, RequestKeeps

(* An attempt downloads the PDF of its document, as long as that is active. *)
LEMMA DownloadKeeps ==
  ASSUME TypeOK, RowInv, RowInv', StorageTypeOK, StorageTypeOK', StoreInv, NEW t \in Token,
         DownloadPdf(t)
  PROVE  StoreInv'
<1> USE DEF StoreInv
<1>1. /\ phase[t] = "download" /\ phase'[t] \in {"pipeline", "failing"}
      /\ \A u \in Token \ {t} : phase'[u] = phase[u] /\ source'[u] = source[u]
      /\ UNCHANGED <<status, active, upload, chunks, docOf, pdf, sweeps, abandoned, quiet>>
      /\ phase'[t] = "pipeline" => pdf[NameFor(t)] # None /\ source'[t] = pdf[NameFor(t)]
  BY DEF DownloadPdf, Download, GotoSame, Goto, docVars, TypeOK, StorageTypeOK
<1>2. \A u \in Token : Live(u)' => Live(u)
  BY <1>1 DEF Live, LivePhase
<1>3. OneActive' /\ AtRest' /\ Begun' /\ GivenUp'
  BY <1>1, NamesKept
<1>4. OwnPdf'
  BY <1>1 DEF OwnPdf
<1>5. AfterUpload'
  BY <1>1, <1>2 DEF AfterUpload
<1>6. Sourced'
  <2>1. phase'[t] = "pipeline" /\ docOf[t] \in quiet /\ active[docOf[t]] => source'[t] = docOf[t]
    BY <1>1 DEF OwnPdf, AfterUpload, Live, LivePhase, NameFor
  <2> QED BY <1>1, <2>1 DEF Sourced
<1>7. Downloaded'
  BY <1>1 DEF Downloaded, TypeOK
<1>8. OwnSource'
  BY <1>1 DEF OwnSource, Downloaded, TypeOK, StorageTypeOK
<1> QED BY <1>3, <1>4, <1>5, <1>6, <1>7, <1>8

-----------------------------------------------------------------------------
(* At the start there is nothing under any name. *)
LEMMA StoreStart == StorageInit => StorageTypeOK /\ StoreInv
<1> SUFFICES ASSUME StorageInit PROVE StorageTypeOK /\ StoreInv
  OBVIOUS
<1>1. StorageTypeOK
  BY DEF StorageInit, StorageTypeOK
<1>2. \A t \in Token : phase[t] = "unused"
  BY DEF StorageInit, Init
<1>3. \A d \in Doc : ~active[d] /\ chunks[d] = None
  BY DEF StorageInit, Init
<1>4. OneActive /\ AtRest /\ Begun /\ GivenUp /\ OwnPdf /\ Downloaded /\ OwnSource
  BY <1>3 DEF OneActive, AtRest, Begun, GivenUp, OwnPdf, Downloaded, OwnSource, StorageInit
<1>5. AfterUpload /\ Sourced
  BY <1>2 DEF AfterUpload, Sourced, Live, LivePhase
<1> QED BY <1>1, <1>4, <1>5 DEF StoreInv

(* Every step keeps the store consistent with the rows. *)
LEMMA StoreNext ==
  ASSUME TypeOK, RowInv, TypeOK', RowInv', StorageTypeOK, StorageTypeOK', StoreInv,
         [StorageNext]_allVars
  PROVE  StoreInv'
<1>1. CASE UNCHANGED allVars
  <2>1. UNCHANGED <<vars, storeVars>>
    BY <1>1 DEF allVars
  <2>2. RowsMove /\ AttemptsMove
    BY <2>1, AttemptsRest DEF vars, docVars, attemptVars, RowsMove
  <2> QED BY <2>1, <2>2, QuietKeeps DEF storeVars
<1>2. ASSUME NEW d \in Doc,
             \/ ReserveName(d) \/ PutPdf(d) \/ PutPdfFails(d) \/ FinalizeUpload(d)
             \/ UploadDies(d) \/ DeleteDocument(d)
      PROVE  StoreInv'
  BY <1>2, ReserveNameKeeps, PutPdfKeeps, FinalizeKeeps, UploadDiesKeeps, DeleteDocumentKeeps
<1>3. ASSUME NEW s \in Sweep, SweepObjects(s)
      PROVE  StoreInv'
  BY <1>3, SweepObjectsKeeps
<1>4. ASSUME NEW t \in Token, DownloadPdf(t)
      PROVE  StoreInv'
  BY <1>4, DownloadKeeps
<1>5. ASSUME NEW t \in Token, PutMarkdown(t) \/ CleanMarkdown(t)
      PROVE  StoreInv'
  <2>1. UNCHANGED <<pdf, source, sweeps, abandoned, quiet>> /\ (StoreArtifacts(t) \/ CleanArtifacts(t))
    BY <1>5 DEF PutMarkdown, CleanMarkdown
  <2> QED BY <2>1, QuietMoves, QuietKeeps
<1>6. CASE RowStep /\ UNCHANGED storeVars
  BY <1>6, QuietMoves, QuietKeeps DEF storeVars
<1> QED BY <1>1, <1>2, <1>3, <1>4, <1>5, <1>6 DEF StorageNext

(* What is known of the store holds in every state, on top of what is known of
   the rows. *)
LEMMA StoreInductive == StorageSpec => [](StorageTypeOK /\ StoreInv)
<1>1. StorageInit => StorageTypeOK /\ StoreInv
  BY StoreStart
<1>2. /\ TypeOK /\ RowInv /\ (TypeOK /\ RowInv)' /\ StorageTypeOK /\ StoreInv
      /\ [StorageNext]_allVars
      => (StorageTypeOK /\ StoreInv)'
  BY StorageTypeNext, StoreNext
<1>3. StorageSpec => [](TypeOK /\ RowInv)
  BY StorageImplementsQueue, SafetyInductive, PTL
<1> QED BY <1>1, <1>2, <1>3, PTL DEF StorageSpec

(* The objects, and the calls on their way to them, keep their types. *)
THEOREM StorageTypes == StorageSpec => []StorageTypeOK
BY StoreInductive, PTL

(* Retry and the stale check find the PDF: whatever fails, is cleaned up or
   arrives late, the source of a document that is queued or beyond stays in its
   place (deleteProcessedArtifacts spares it, storage.service.ts; the worker
   downloads it again, pdf-processor.worker.ts). *)
THEOREM StorageSourceKept == StorageSpec => []SourceKept
<1>1. StoreInv /\ StorageTypeOK => SourceKept
  BY DEF StoreInv, OwnPdf, SourceKept
<1> QED BY <1>1, StoreInductive, PTL

(* The chunks that readers see of a document were made from its own PDF, though
   objects are addressed by a name that documents take over from each other. *)
THEOREM StorageOwnSource == StorageSpec => []OwnSource
<1>1. StoreInv => OwnSource
  BY DEF StoreInv
<1> QED BY <1>1, StoreInductive, PTL
=============================================================================
