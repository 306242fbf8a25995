--------------------------- MODULE DocumentStorage ---------------------------
(***************************************************************************)
(* DocumentQueue with the object store beside it.  Objects are addressed by *)
(* the resource name, not by the document or the attempt that writes them:  *)
(* `<name>.pdf' is the source, `<name>.md' and `<name>/...' are the Markdown *)
(* an attempt generates.  The store is not part of any transaction, so every *)
(* write and every deletion is a step of its own, before or after the commit *)
(* it belongs to.                                                           *)
(*                                                                         *)
(* Every step of this module is a step of DocumentQueue or leaves its       *)
(* variables alone.                                                         *)
(***************************************************************************)
EXTENDS DocumentQueue

VARIABLES
  pdf,        \* the document whose PDF is stored under a name
  markdown,   \* the attempt whose Markdown is stored under a name
  source,     \* the document whose PDF an attempt downloaded
  sweeps,     \* deleteResourceArtifacts calls on their way
  abandoned,  \* history: documents whose upload has been rolled back
  quiet       \* history: documents reserved while nobody else used the name

storeVars == <<pdf, markdown, source, sweeps, abandoned, quiet>>
allVars == <<vars, storeVars>>

Sweep == Doc \X {"delete", "rollback"}

StorageTypeOK ==
  /\ pdf \in [Name -> Doc \cup {None}]
  /\ markdown \in [Name -> Token \cup {None}]
  /\ source \in [Token -> Doc \cup {None}]
  /\ sweeps \in SUBSET Sweep
  /\ abandoned \in SUBSET Doc
  /\ quiet \in SUBSET Doc

StorageInit ==
  /\ Init
  /\ pdf = [n \in Name |-> None]
  /\ markdown = [n \in Name |-> None]
  /\ source = [t \in Token |-> None]
  /\ sweeps = {}
  /\ abandoned = {}
  /\ quiet = {}

NameFor(t) == NameOf[docOf[t]]

(* A request for another document of this name can still write or delete its
   objects. *)
OthersBusy(d) ==
  \E e \in Doc \ {d} :
    /\ NameOf[e] = NameOf[d]
    /\ \/ upload[e] \in {"storing", "finalizing", "rollback"}
       \/ \E s \in sweeps : s[1] = e

(* rollbackUpload starts the deletion of the objects and of the row together. *)
RollbackBegins(d) ==
  IF upload'[d] = "rollback"
    THEN sweeps' = sweeps \cup {<<d, "rollback">>} /\ abandoned' = abandoned \cup {d}
    ELSE UNCHANGED <<sweeps, abandoned>>

-----------------------------------------------------------------------------
ReserveName(d) ==
  /\ Reserve(d)
  /\ quiet' = IF OthersBusy(d) THEN quiet ELSE quiet \cup {d}
  /\ UNCHANGED <<pdf, markdown, source, sweeps, abandoned>>

PutPdf(d) ==
  /\ StorePdf(d)
  /\ pdf' = [pdf EXCEPT ![NameOf[d]] = d]
  /\ UNCHANGED <<markdown, source, sweeps, abandoned, quiet>>

(* The put failed, or only its answer did. *)
PutPdfFails(d) ==
  /\ StorePdfFails(d)
  /\ \E p \in {pdf[NameOf[d]], d} : pdf' = [pdf EXCEPT ![NameOf[d]] = p]
  /\ RollbackBegins(d)
  /\ UNCHANGED <<markdown, source, quiet>>

FinalizeUpload(d) ==
  /\ Finalize(d) \/ FinalizeRefused(d)
  /\ RollbackBegins(d)
  /\ UNCHANGED <<pdf, markdown, source, quiet>>

(* The server died, during the put or later. *)
UploadDies(d) ==
  /\ UploadEndsWithRow(d)
  /\ \E p \in {pdf[NameOf[d]]} \cup (IF upload[d] = "storing" THEN {d} ELSE {}) :
       pdf' = [pdf EXCEPT ![NameOf[d]] = p]
  /\ UNCHANGED <<markdown, source, sweeps, abandoned, quiet>>

DeleteDocument(d) ==
  /\ Delete(d)
  /\ sweeps' = sweeps \cup {<<d, "delete">>}
  /\ UNCHANGED <<pdf, markdown, source, abandoned, quiet>>

(* deleteResourceArtifacts deletes what it finds under the name by the time it
   runs.  Each object may fail to go, and with the server nothing goes. *)
SweepObjects(s) ==
  /\ s \in sweeps
  /\ sweeps' = sweeps \ {s}
  /\ LET n == NameOf[s[1]]
     IN  /\ \E p \in {pdf[n], None} : pdf' = [pdf EXCEPT ![n] = p]
         /\ \E m \in {markdown[n], None} : markdown' = [markdown EXCEPT ![n] = m]
  /\ UNCHANGED <<vars, source, abandoned, quiet>>

-----------------------------------------------------------------------------
DownloadPdf(t) ==
  /\ Download(t)
  /\ IF phase'[t] = "pipeline"
       THEN /\ pdf[NameFor(t)] # None
            /\ source' = [source EXCEPT ![t] = pdf[NameFor(t)]]
       ELSE UNCHANGED source
  /\ UNCHANGED <<pdf, markdown, sweeps, abandoned, quiet>>

(* Mutant: the Markdown is recorded as the document's, not the attempt's. *)
PutMarkdownOfDocument(t) ==
  /\ StoreArtifacts(t)
  /\ markdown' = [markdown EXCEPT ![NameFor(t)] = docOf[t]]
  /\ UNCHANGED <<pdf, source, sweeps, abandoned, quiet>>

(* uploadDocuments stops at the first object that fails. *)
PutMarkdown(t) ==
  /\ StoreArtifacts(t)
  /\ \E m \in {t} \cup (IF phase'[t] = "failing" THEN {markdown[NameFor(t)]} ELSE {}) :
       markdown' = [markdown EXCEPT ![NameFor(t)] = m]
  /\ UNCHANGED <<pdf, source, sweeps, abandoned, quiet>>

(* Mutant: the cleanup uses deleteResourceArtifacts. *)
CleanEverything(t) ==
  /\ CleanArtifacts(t)
  /\ pdf' = [pdf EXCEPT ![NameFor(t)] = None]
  /\ markdown' = [markdown EXCEPT ![NameFor(t)] = None]
  /\ UNCHANGED <<source, sweeps, abandoned, quiet>>

(* deleteProcessedArtifacts, whose failure is only logged. *)
CleanMarkdown(t) ==
  /\ CleanArtifacts(t)
  /\ \E m \in {markdown[NameFor(t)], None} :
       markdown' = [markdown EXCEPT ![NameFor(t)] = m]
  /\ UNCHANGED <<pdf, source, sweeps, abandoned, quiet>>

-----------------------------------------------------------------------------
(* The steps that touch no object. *)
RowStep ==
  \/ \E d \in Doc : RollbackRow(d) \/ Reprocess(d) \/ EditRow(d) \/ CooldownEnds(d)
                    \/ LeaseExpires(d)
  \/ \E i \in Instance : WorkerStep(i)
  \/ \E t \in Token : Heartbeat(t) \/ PipelineFails(t) \/ PipelineDone(t)
                      \/ CompleteProcessing(t) \/ CompleteRefused(t)
                      \/ MarkFailed(t) \/ MarkFailedRefused(t)

StorageNext ==
  \/ \E d \in Doc : \/ ReserveName(d) \/ PutPdf(d) \/ PutPdfFails(d) \/ FinalizeUpload(d)
                    \/ UploadDies(d) \/ DeleteDocument(d)
  \/ \E s \in Sweep : SweepObjects(s)
  \/ \E t \in Token : DownloadPdf(t) \/ PutMarkdown(t) \/ CleanMarkdown(t)
  \/ RowStep /\ UNCHANGED storeVars

StorageSpec == StorageInit /\ [][StorageNext]_allVars

-----------------------------------------------------------------------------
(* Retry needs the PDF: no failure, cleanup, retry or late attempt removes or
   replaces the source of a document that is queued or beyond, as long as its
   upload was not rolled back and the name was at rest when it was reserved. *)
SourceKept ==
  \A d \in quiet \ abandoned :
    active[d] /\ status[d] # "uploading" => pdf[NameOf[d]] = d

(* What readers see of a document was made from the document's own PDF, even
   when another document of the same name came before it and attempts of that
   one are still alive. *)
OwnSource ==
  \A d \in quiet : chunks[d] # None => source[chunks[d]] = d

(* pdf-processor.worker.ts:173: paths are shared by attempts, and an attempt
   that has given up its row must not delete the artifacts of a newer owner.
   Here: a cleanup removes no Markdown of the attempt that holds or has
   published a document of that name. *)
CurrentOwner(u, n) ==
  \E d \in Doc : NameOf[d] = n /\ active[d] /\ u \in {token[d], chunks[d]} \ {None}

CleanupSpares ==
  \A t \in Token :
    phase[t] = "cleaning" /\ markdown' # markdown /\ phase'[t] # "cleaning" =>
      ~CurrentOwner(markdown[NameFor(t)], NameFor(t))

CleanupSparesNewerOwner == [][CleanupSpares]_allVars
=============================================================================
