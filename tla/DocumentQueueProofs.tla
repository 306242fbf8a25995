------------------------- MODULE DocumentQueueProofs -------------------------
(***************************************************************************)
(* Proofs about the ingestion queue, for any number of documents, server    *)
(* instances and attempts and any concurrency.                              *)
(***************************************************************************)
EXTENDS DocumentQueue, FiniteSetTheorems, TLAPS

USE DEF Status, UploadPhase, LivePhase, AttemptPhase

(* What a claim does to the rows: each claimed document gets exactly one of
   the chosen tokens. *)
LEMMA HolderOfClaimed ==
  ASSUME NEW T, NEW D, NEW g \in [T -> D], NEW d \in {g[t] : t \in T}
  PROVE  HolderOf(g, d) \in T /\ g[HolderOf(g, d)] = d
BY DEF HolderOf

(* Type correctness. *)
LEMMA TypeInit == Init => TypeOK
BY ConcurrencyAssumption DEF Init, TypeOK

(* Ending an attempt keeps the types. *)
LEMMA FinishType ==
  ASSUME TypeOK, NEW t \in Token, Finish(t)
  PROVE  /\ phase' \in [Token -> AttemptPhase]
         /\ docOf' \in [Token -> Doc \cup {None}]
         /\ hostOf' \in [Token -> Instance \cup {None}]
         /\ lost' \in [Token -> BOOLEAN]
         /\ generated' \in [Token -> BOOLEAN]
         /\ activeDocs' \in [Instance -> SUBSET Doc]
         /\ activeCount' \in [Instance -> Int]
<1>1. CASE hostOf[t] \in Instance
  BY <1>1 DEF TypeOK, Finish
<1>2. CASE hostOf[t] \notin Instance
  BY <1>2 DEF TypeOK, Finish
<1>. QED
  BY <1>1, <1>2

(* Every action keeps the types. *)
LEMMA TypeNext == TypeOK /\ [Next]_vars => TypeOK'
<1> SUFFICES ASSUME TypeOK, [Next]_vars PROVE TypeOK'
  OBVIOUS
<1> USE DEF TypeOK, docVars, attemptVars, workerVars
<1>1. ASSUME NEW d \in Doc, UploadStep(d) PROVE TypeOK'
  <2>1. CASE Reserve(d)
    BY <2>1 DEF Reserve
  <2>2. CASE StorePdf(d)
    BY <2>2 DEF StorePdf
  <2>3. CASE StorePdfFails(d)
    BY <2>3 DEF StorePdfFails
  <2>4. CASE Finalize(d)
    BY <2>4 DEF Finalize
  <2>5. CASE FinalizeRefused(d)
    BY <2>5 DEF FinalizeRefused
  <2>6. CASE RollbackRow(d)
    BY <2>6 DEF RollbackRow
  <2>7. CASE UploadEndsWithRow(d)
    BY <2>7 DEF UploadEndsWithRow
  <2>. QED
    BY <1>1, <2>1, <2>2, <2>3, <2>4, <2>5, <2>6, <2>7 DEF UploadStep
<1>2. ASSUME NEW d \in Doc, RequestStep(d) PROVE TypeOK'
  <2>1. CASE Delete(d)
    BY <2>1 DEF Delete
  <2>2. CASE Reprocess(d)
    BY <2>2 DEF Reprocess
  <2>3. CASE CooldownEnds(d)
    BY <2>3 DEF CooldownEnds
  <2>4. CASE LeaseExpires(d)
    BY <2>4 DEF LeaseExpires
  <2>5. CASE EditRow(d)
    BY <2>5 DEF EditRow
  <2>. QED
    BY <1>2, <2>1, <2>2, <2>3, <2>4, <2>5 DEF RequestStep
<1>3. ASSUME NEW i \in Instance, WorkerStep(i) PROVE TypeOK'
  <2>1. FreeSlots(i) \in Int
    BY ConcurrencyAssumption DEF FreeSlots
  <2>2. CASE TickPoll(i)
    BY <2>1, <2>2 DEF TickPoll, GoClaim
  <2>3. CASE RequeueStale(i)
    <3>1. \A d \in StaleFor(i) : token[d] \in Token \cup {None}
      BY DEF StaleFor
    <3>2. revoked' \subseteq Token
      BY <2>3, <3>1 DEF RequeueStale
    <3>3. status' \in [Doc -> Status] /\ token' \in [Doc -> Token \cup {None}]
            /\ fresh' \in [Doc -> BOOLEAN]
      BY <2>3 DEF RequeueStale
    <3>4. slots' \in [Instance -> Nat] /\ tick' \in [Instance -> {"idle", "claim", "stopped"}]
      BY <2>1, <2>3 DEF RequeueStale, GoClaim
    <3>. QED
      BY <2>3, <3>2, <3>3, <3>4 DEF RequeueStale
  <2>4. CASE ClaimQueued(i)
    <3>1. PICK T \in (SUBSET FreshTokens) \ {{}} : \E g \in [T -> Claimable] :
            TakeRows(i, T, g) /\ (StartAttempts(i, T, g) \/ StartNothing(T))
      BY <2>4 DEF ClaimQueued
    <3>1a. PICK g \in [T -> Claimable] :
             TakeRows(i, T, g) /\ (StartAttempts(i, T, g) \/ StartNothing(T))
      BY <3>1
    <3>2. T \subseteq Token /\ IsFiniteSet(T) /\ g \in [T -> Doc]
      BY TokenAssumption, FS_Subset DEF FreshTokens, Claimable
    <3>3. Cardinality(T) \in Nat
      BY <3>2, FS_CardinalityType
    <3>4. \A d \in {g[t] : t \in T} : HolderOf(g, d) \in Token
      BY ONLY <3>2, HolderOfClaimed
    <3>5. {g[t] : t \in T} \subseteq Doc
      BY <3>2
    <3>6. status' \in [Doc -> Status] /\ token' \in [Doc -> Token \cup {None}]
            /\ fresh' \in [Doc -> BOOLEAN]
      BY <3>1a, <3>4 DEF TakeRows
    <3>7. activeDocs' \in [Instance -> SUBSET Doc]
      BY <3>1a, <3>5 DEF StartAttempts, StartNothing
    <3>8. /\ phase' \in [Token -> AttemptPhase]
          /\ docOf' \in [Token -> Doc \cup {None}]
          /\ hostOf' \in [Token -> Instance \cup {None}]
          /\ activeCount' \in [Instance -> Int]
      BY <3>1a, <3>2, <3>3 DEF StartAttempts, StartNothing
    <3>. QED
      BY <3>1a, <3>6, <3>7, <3>8 DEF TakeRows
  <2>5. CASE ClaimNothing(i)
    BY <2>5 DEF ClaimNothing
  <2>6. CASE Stop(i)
    BY <2>6 DEF Stop
  <2>7. CASE Restart(i)
    BY <2>7 DEF Restart
  <2>. QED
    BY <1>3, <2>2, <2>3, <2>4, <2>5, <2>6, <2>7 DEF WorkerStep
<1>4. ASSUME NEW t \in Token, Heartbeat(t) PROVE TypeOK'
  BY <1>4 DEF Heartbeat, Live, OwnsRow
<1>5. ASSUME NEW t \in Token, AttemptStep(t) PROVE TypeOK'
  <2>1. CASE Download(t)
    BY <2>1 DEF Download, Goto, GotoSame
  <2>2. CASE PipelineFails(t)
    BY <2>2 DEF PipelineFails, Goto, GotoSame
  <2>3. CASE PipelineDone(t)
    BY <2>3, FinishType DEF PipelineDone, Goto
  <2>4. CASE StoreArtifacts(t)
    BY <2>4 DEF StoreArtifacts, Goto, GotoSame
  <2>5. CASE CompleteProcessing(t)
    BY <2>5, FinishType DEF CompleteProcessing, OwnsRow, Goto, GotoSame
  <2>6. CASE CompleteRefused(t)
    BY <2>6, FinishType DEF CompleteRefused, Goto, GotoSame
  <2>7. CASE MarkFailed(t)
    BY <2>7, FinishType DEF MarkFailed, OwnsRow, Goto, GotoSame
  <2>8. CASE MarkFailedRefused(t)
    BY <2>8, FinishType DEF MarkFailedRefused
  <2>9. CASE CleanArtifacts(t)
    BY <2>9, FinishType DEF CleanArtifacts
  <2>. QED
    BY <1>5, <2>1, <2>2, <2>3, <2>4, <2>5, <2>6, <2>7, <2>8, <2>9 DEF AttemptStep
<1>6. CASE UNCHANGED vars
  BY <1>6 DEF vars
<1>. QED
  BY <1>1, <1>2, <1>3, <1>4, <1>5, <1>6 DEF Next

(* Type correctness of the ingestion queue. *)
THEOREM QueueTypeOK == Spec => []TypeOK
BY TypeInit, TypeNext, PTL DEF Spec

-----------------------------------------------------------------------------
(* The invariant of the rows, which the fence of documents.repository.ts keeps:
   one step for each action. *)
LEMMA RowInit == Init => RowInv
BY NoneAssumption DEF Init, RowInv, LeaseConsistent, ChunksIffReady, RevokedNeverPublishes,
   TokensSpent, AttemptsPlaced, RowsCreated, Live

(* An attempt that moves on, or ends, without touching a row. *)
LEMMA RowMove ==
  ASSUME TypeOK, TypeOK', RowInv, NEW t \in Token, Live(t),
         UNCHANGED <<docVars, upload, revoked>>,
         \A u \in Token \ {t} :
           phase'[u] = phase[u] /\ docOf'[u] = docOf[u] /\ hostOf'[u] = hostOf[u],
         phase'[t] # "unused",
         phase'[t] \in LivePhase => docOf'[t] = docOf[t] /\ hostOf'[t] = hostOf[t]
  PROVE  RowInv'
<1> USE NoneAssumption DEF docVars, TypeOK, Live
<1>1. LeaseConsistent'
  <2>1. ASSUME NEW d \in Doc, Live(token[d])' PROVE docOf'[token'[d]] = d
    BY <2>1 DEF RowInv, LeaseConsistent
  <2>. QED
    BY <2>1 DEF RowInv, LeaseConsistent
<1>2. ChunksIffReady' /\ RevokedNeverPublishes' /\ RowsCreated'
  BY DEF RowInv, ChunksIffReady, RevokedNeverPublishes, RowsCreated
<1>3. TokensSpent'
  BY DEF RowInv, TokensSpent
<1>4. AttemptsPlaced'
  BY DEF RowInv, AttemptsPlaced
<1>. QED
  BY <1>1, <1>2, <1>3, <1>4 DEF RowInv

LEMMA RowFinish ==
  ASSUME TypeOK, TypeOK', RowInv, NEW t \in Token, Live(t), Finish(t),
         UNCHANGED <<docVars, upload, revoked>>
  PROVE  RowInv'
BY RowMove DEF Finish, TypeOK

LEMMA RowGoto ==
  ASSUME TypeOK, TypeOK', RowInv, NEW t \in Token, Live(t), NEW p \in LivePhase, Goto(t, p),
         UNCHANGED <<docVars, upload, revoked>>
  PROVE  RowInv'
BY RowMove DEF Goto, TypeOK

(* Every action keeps it. *)
LEMMA RowNext == TypeOK /\ TypeOK' /\ RowInv /\ [Next]_vars => RowInv'
<1> SUFFICES ASSUME TypeOK, TypeOK', RowInv, [Next]_vars PROVE RowInv'
  OBVIOUS
<1> USE NoneAssumption DEF TypeOK, docVars, attemptVars, workerVars, RowInv, LeaseConsistent,
        ChunksIffReady, RevokedNeverPublishes, TokensSpent, AttemptsPlaced, RowsCreated, Live
<1>1. ASSUME NEW d \in Doc, UploadStep(d) PROVE RowInv'
  <2>1. CASE Reserve(d)
    BY <2>1 DEF Reserve
  <2>2. CASE StorePdf(d)
    BY <2>2 DEF StorePdf
  <2>3. CASE StorePdfFails(d)
    BY <2>3 DEF StorePdfFails
  <2>4. CASE Finalize(d)
    BY <2>4 DEF Finalize
  <2>5. CASE FinalizeRefused(d)
    BY <2>5 DEF FinalizeRefused
  <2>6. CASE RollbackRow(d)
    BY <2>6 DEF RollbackRow
  <2>7. CASE UploadEndsWithRow(d)
    BY <2>7 DEF UploadEndsWithRow
  <2>. QED
    BY <1>1, <2>1, <2>2, <2>3, <2>4, <2>5, <2>6, <2>7 DEF UploadStep
<1>2. ASSUME NEW d \in Doc, RequestStep(d) PROVE RowInv'
  <2>1. CASE Delete(d)
    BY <2>1 DEF Delete
  <2>2. CASE Reprocess(d)
    BY <2>2 DEF Reprocess
  <2>3. CASE CooldownEnds(d)
    BY <2>3 DEF CooldownEnds
  <2>4. CASE LeaseExpires(d)
    BY <2>4 DEF LeaseExpires
  <2>5. CASE EditRow(d)
    BY <2>5 DEF EditRow
  <2>. QED
    BY <1>2, <2>1, <2>2, <2>3, <2>4, <2>5 DEF RequestStep
<1>3. ASSUME NEW i \in Instance, WorkerStep(i) PROVE RowInv'
  <2>1. CASE TickPoll(i)
    BY <2>1 DEF TickPoll, GoClaim
  <2>2. CASE RequeueStale(i)
    BY <2>2 DEF RequeueStale, StaleFor
  <2>3. CASE ClaimQueued(i)
    <3>1. PICK T \in (SUBSET FreshTokens) \ {{}} : \E g \in [T -> Claimable] :
            TakeRows(i, T, g) /\ (StartAttempts(i, T, g) \/ StartNothing(T))
      BY <2>3 DEF ClaimQueued
    <3>2. PICK g \in [T -> Claimable] :
            TakeRows(i, T, g) /\ (StartAttempts(i, T, g) \/ StartNothing(T))
      BY <3>1
    <3> DEFINE C == {g[u] : u \in T}
    <3>a. g \in [T -> Doc]
      BY DEF Claimable
    <3>3. \A d \in C : HolderOf(g, d) \in T /\ g[HolderOf(g, d)] = d
      <4>1. ASSUME NEW d \in {g[u] : u \in T} PROVE HolderOf(g, d) \in T /\ g[HolderOf(g, d)] = d
        BY ONLY <3>a, <4>1, HolderOfClaimed
      <4>. QED
        BY <4>1
    <3>4. /\ \A u \in T : u \in Token /\ phase[u] = "unused" /\ g[u] \in Doc
          /\ \A d \in C : d \in Doc /\ status[d] = "queued" /\ active[d]
      BY DEF FreshTokens, Claimable
    <3> HIDE DEF C
    <3>5. \A d \in Doc :
            /\ status'[d] = IF d \in C THEN "processing" ELSE status[d]
            /\ token'[d] = IF d \in C THEN HolderOf(g, d) ELSE token[d]
      BY <3>2 DEF TakeRows, C
    <3>6. \A u \in Token :
            /\ u \in T => phase'[u] \in {"download", "done"}
            /\ u \in T /\ phase'[u] \in LivePhase => docOf'[u] = g[u] /\ hostOf'[u] = i
            /\ u \notin T => /\ phase'[u] = phase[u] /\ docOf'[u] = docOf[u]
                            /\ hostOf'[u] = hostOf[u]
      <4>1. CASE StartAttempts(i, T, g)
        BY <4>1 DEF StartAttempts
      <4>2. CASE StartNothing(T)
        BY <4>2 DEF StartNothing
      <4>. QED
        BY <3>2, <4>1, <4>2
    <3>7. UNCHANGED <<active, chunks, upload, revoked>>
      BY <3>2 DEF TakeRows
    <3>8. LeaseConsistent'
      <4>1. \A d \in Doc : token'[d] # None <=> status'[d] = "processing" /\ active'[d]
        BY <3>3, <3>4, <3>5, <3>7
      <4>2. ASSUME NEW d \in Doc, Live(token[d])' PROVE docOf'[token'[d]] = d
        <5>1. CASE d \in C
          BY <4>2, <5>1, <3>3, <3>4, <3>5, <3>6
        <5>2. CASE d \notin C
          BY <4>2, <5>2, <3>4, <3>5, <3>6
        <5>. QED
          BY <5>1, <5>2
      <4>3. \A d, e \in Doc : token'[d] = token'[e] /\ token'[d] # None => d = e
        BY <3>3, <3>4, <3>5
      <4>. QED
        BY <4>1, <4>2, <4>3
    <3>9. ChunksIffReady' /\ RevokedNeverPublishes' /\ RowsCreated'
      BY <3>4, <3>5, <3>7
    <3>10. TokensSpent'
      <4>1. ASSUME NEW d \in Doc, token'[d] # None
            PROVE  phase'[token'[d]] # "unused" /\ token'[d] \notin revoked'
        <5>1. CASE d \in C
          BY <5>1, <3>3, <3>4, <3>5, <3>6, <3>7
        <5>2. CASE d \notin C
          BY <4>1, <5>2, <3>5, <3>6, <3>7
        <5>. QED
          BY <5>1, <5>2
      <4>2. ASSUME NEW d \in Doc, chunks'[d] # None
            PROVE  phase'[chunks'[d]] # "unused" /\ \A e \in Doc : token'[e] # chunks'[d]
        <5>1. chunks[d] \in Token /\ chunks[d] \notin T /\ chunks'[d] = chunks[d]
          BY <4>2, <3>4, <3>7
        <5>. QED
          BY <4>2, <5>1, <3>3, <3>5, <3>6
      <4>3. \A u \in revoked' : phase'[u] # "unused"
        BY <3>4, <3>6, <3>7
      <4>. QED
        BY <4>1, <4>2, <4>3
    <3>11. AttemptsPlaced'
      BY <3>4, <3>6
    <3>. QED
      BY <3>8, <3>9, <3>10, <3>11
  <2>4. CASE ClaimNothing(i)
    BY <2>4 DEF ClaimNothing
  <2>5. CASE Stop(i)
    BY <2>5 DEF Stop
  <2>6. CASE Restart(i)
    BY <2>6 DEF Restart, AttemptsOn
  <2>. QED
    BY <1>3, <2>1, <2>2, <2>3, <2>4, <2>5, <2>6 DEF WorkerStep
<1>4. ASSUME NEW t \in Token, Heartbeat(t) PROVE RowInv'
  BY <1>4 DEF Heartbeat, OwnsRow
<1>5. ASSUME NEW t \in Token, AttemptStep(t) PROVE RowInv'
  <2>1. CASE Download(t)
    <3>1. Live(t) /\ UNCHANGED <<docVars, upload, revoked>>
      BY <2>1 DEF Download
    <3>2. Finish(t) \/ \E p \in LivePhase : Goto(t, p)
      BY <2>1 DEF Download, GotoSame
    <3>. QED
      BY <3>1, <3>2, RowFinish, RowGoto
  <2>2. CASE PipelineFails(t)
    <3>1. Live(t) /\ UNCHANGED <<docVars, upload, revoked>>
      BY <2>2 DEF PipelineFails
    <3>2. Finish(t) \/ \E p \in LivePhase : Goto(t, p)
      BY <2>2 DEF PipelineFails, GotoSame
    <3>. QED
      BY <3>1, <3>2, RowFinish, RowGoto
  <2>3. CASE PipelineDone(t)
    <3>1. Live(t) /\ UNCHANGED <<docVars, upload, revoked>>
      BY <2>3 DEF PipelineDone
    <3>2. Finish(t) \/ \E p \in LivePhase : Goto(t, p)
      BY <2>3 DEF PipelineDone, GotoSame
    <3>. QED
      BY <3>1, <3>2, RowFinish, RowGoto
  <2>4. CASE StoreArtifacts(t)
    <3>1. Live(t) /\ UNCHANGED <<docVars, upload, revoked>>
      BY <2>4 DEF StoreArtifacts
    <3>2. Finish(t) \/ \E p \in LivePhase : Goto(t, p)
      BY <2>4 DEF StoreArtifacts, GotoSame
    <3>. QED
      BY <3>1, <3>2, RowFinish, RowGoto
  <2>5. CASE CompleteProcessing(t)
    <3>1. docOf[t] \in Doc /\ t \notin revoked /\ phase[t] # "unused"
      BY <2>5 DEF CompleteProcessing, OwnsRow
    <3>2. \A u \in Token :
            /\ u # t => phase'[u] = phase[u] /\ docOf'[u] = docOf[u] /\ hostOf'[u] = hostOf[u]
            /\ phase'[t] # "unused"
            /\ phase'[t] \in LivePhase => docOf'[t] = docOf[t] /\ hostOf'[t] = hostOf[t]
      BY <2>5 DEF CompleteProcessing, Goto, GotoSame, Finish
    <3>3. \A d \in Doc :
            /\ status'[d] = IF d = docOf[t] THEN "ready" ELSE status[d]
            /\ token'[d] = IF d = docOf[t] THEN None ELSE token[d]
            /\ chunks'[d] = IF d = docOf[t] THEN t ELSE chunks[d]
      BY <2>5 DEF CompleteProcessing
    <3>4. token[docOf[t]] = t /\ UNCHANGED <<active, upload, revoked>>
      BY <2>5 DEF CompleteProcessing, OwnsRow
    <3>5. ChunksIffReady' /\ RevokedNeverPublishes' /\ RowsCreated' /\ AttemptsPlaced'
      <4>1. status[docOf[t]] = "processing" /\ Live(t)
        BY <2>5 DEF CompleteProcessing, OwnsRow
      <4>2. ChunksIffReady' /\ RevokedNeverPublishes' /\ RowsCreated'
        BY <3>1, <3>3, <3>4, <4>1
      <4>3. AttemptsPlaced'
        BY <3>2, <4>1
      <4>. QED
        BY <4>2, <4>3
    <3>5a. TokensSpent'
      BY <3>1, <3>2, <3>3, <3>4
    <3>6. LeaseConsistent'
      <4>1. \A d \in Doc : token'[d] # None <=> status'[d] = "processing" /\ active'[d]
        BY <3>1, <3>2, <3>3, <3>4
      <4>2. ASSUME NEW d \in Doc, Live(token[d])' PROVE docOf'[token'[d]] = d
        <5>1. d # docOf[t] /\ token'[d] = token[d] /\ token[d] # t
          BY <4>2, <3>1, <3>3, <3>4
        <5>. QED
          BY <4>2, <5>1, <3>2
      <4>3. \A d, e \in Doc : token'[d] = token'[e] /\ token'[d] # None => d = e
        BY <3>1, <3>2, <3>3, <3>4
      <4>. QED
        BY <4>1, <4>2, <4>3
    <3>. QED
      BY <3>5, <3>5a, <3>6
  <2>6. CASE CompleteRefused(t)
    <3>1. Live(t) /\ UNCHANGED <<docVars, upload, revoked>>
      BY <2>6 DEF CompleteRefused
    <3>2. Finish(t) \/ \E p \in LivePhase : Goto(t, p)
      BY <2>6 DEF CompleteRefused, GotoSame
    <3>. QED
      BY <3>1, <3>2, RowFinish, RowGoto
  <2>7. CASE MarkFailed(t)
    <3>1. \A u \in Token :
            /\ u # t => phase'[u] = phase[u] /\ docOf'[u] = docOf[u] /\ hostOf'[u] = hostOf[u]
            /\ phase'[t] # "unused"
            /\ phase'[t] \in LivePhase => docOf'[t] = docOf[t] /\ hostOf'[t] = hostOf[t]
      BY <2>7 DEF MarkFailed, Goto, GotoSame, Finish
    <3>2. \A d \in Doc :
            /\ status'[d] = IF d = docOf[t] THEN "failed" ELSE status[d]
            /\ token'[d] = IF d = docOf[t] THEN None ELSE token[d]
      BY <2>7 DEF MarkFailed
    <3>3. /\ token[docOf[t]] = t /\ status[docOf[t]] = "processing"
          /\ UNCHANGED <<active, chunks, upload, revoked>>
      BY <2>7 DEF MarkFailed, OwnsRow
    <3>4. phase[t] \in LivePhase /\ docOf[t] \in Doc
      BY <2>7 DEF MarkFailed
    <3>5. ChunksIffReady' /\ RevokedNeverPublishes' /\ RowsCreated' /\ AttemptsPlaced'
      <4>1. ChunksIffReady'
        BY <3>2, <3>3
      <4>2. RevokedNeverPublishes' /\ RowsCreated'
        BY <3>2, <3>3
      <4>3. AttemptsPlaced'
        BY <3>1, <3>4
      <4>. QED
        BY <4>1, <4>2, <4>3
    <3>5a. TokensSpent'
      <4>1. ASSUME NEW d \in Doc, token'[d] # None
            PROVE  phase'[token'[d]] # "unused" /\ token'[d] \notin revoked'
        BY <4>1, <3>1, <3>2, <3>3, <3>4
      <4>2. ASSUME NEW d \in Doc, chunks'[d] # None
            PROVE  phase'[chunks'[d]] # "unused" /\ \A e \in Doc : token'[e] # chunks'[d]
        BY <4>2, <3>1, <3>2, <3>3, <3>4
      <4>3. \A u \in revoked' : phase'[u] # "unused"
        BY <3>1, <3>3
      <4>. QED
        BY <4>1, <4>2, <4>3
    <3>6. LeaseConsistent'
      <4>1. \A d \in Doc : token'[d] # None <=> status'[d] = "processing" /\ active'[d]
        BY <3>1, <3>2, <3>3, <3>4
      <4>2. ASSUME NEW d \in Doc, Live(token[d])' PROVE docOf'[token'[d]] = d
        <5>1. d # docOf[t] /\ token'[d] = token[d] /\ token[d] # t
          BY <4>2, <3>2, <3>3, <3>4
        <5>. QED
          BY <4>2, <5>1, <3>1
      <4>3. \A d, e \in Doc : token'[d] = token'[e] /\ token'[d] # None => d = e
        BY <3>1, <3>2, <3>3, <3>4
      <4>. QED
        BY <4>1, <4>2, <4>3
    <3>. QED
      BY <3>5, <3>5a, <3>6
  <2>8. CASE MarkFailedRefused(t)
    <3>1. Live(t) /\ UNCHANGED <<docVars, upload, revoked>>
      BY <2>8 DEF MarkFailedRefused
    <3>2. Finish(t) \/ \E p \in LivePhase : Goto(t, p)
      BY <2>8 DEF MarkFailedRefused, GotoSame
    <3>. QED
      BY <3>1, <3>2, RowFinish, RowGoto
  <2>9. CASE CleanArtifacts(t)
    <3>1. Live(t) /\ UNCHANGED <<docVars, upload, revoked>>
      BY <2>9 DEF CleanArtifacts
    <3>2. Finish(t) \/ \E p \in LivePhase : Goto(t, p)
      BY <2>9 DEF CleanArtifacts, GotoSame
    <3>. QED
      BY <3>1, <3>2, RowFinish, RowGoto
  <2>. QED
    BY <1>5, <2>1, <2>2, <2>3, <2>4, <2>5, <2>6, <2>7, <2>8, <2>9 DEF AttemptStep
<1>6. CASE UNCHANGED vars
  BY <1>6 DEF vars
<1>. QED
  BY <1>1, <1>2, <1>3, <1>4, <1>5, <1>6 DEF Next

-----------------------------------------------------------------------------
(* The refinement.  Life, Shown and Used are what the mapping makes of `life',
   `published' and `used'. *)
Life == [d \in Doc |-> StageOf(d)]
Shown == [d \in Doc |-> IF active[d] THEN chunks[d] ELSE None]
Used == {t \in Token : phase[t] # "unused"}

LEMMA StageCases ==
  ASSUME NEW d \in Doc
  PROVE  /\ StageOf(d) = IF upload[d] = "none" THEN "new"
                         ELSE IF active[d] THEN status[d] ELSE "gone"
         /\ StageOf(d)' = IF upload'[d] = "none" THEN "new"
                          ELSE IF active'[d] THEN status'[d] ELSE "gone"
BY DEF StageOf

(* The documents of D move to a stage where nobody holds them. *)
LEMMA MoveAllStep ==
  ASSUME TypeOK, TypeOK', NEW D, NEW stage,
         \A e \in Doc : StageOf(e)' = IF e \in D THEN stage ELSE StageOf(e),
         \A e \in Doc : token'[e] = IF e \in D THEN None ELSE token[e],
         Used' = Used
  PROVE  Abstract!MoveAll(D, stage)
<1>1. Life' = [e \in Doc |-> IF e \in D THEN stage ELSE Life[e]]
  BY DEF Life
<1>2. token' = [e \in Doc |-> IF e \in D THEN None ELSE token[e]]
  BY DEF TypeOK
<1>. QED
  BY <1>1, <1>2 DEF Abstract!MoveAll, Used, Life

(* Steps that change nothing a reader of the lifecycle sees. *)
LEMMA QuietStep ==
  ASSUME UNCHANGED <<status, active, token, chunks>>, Used' = Used,
         \A e \in Doc : upload'[e] = "none" <=> upload[e] = "none"
  PROVE  UNCHANGED Abstract!lifeVars
<1>1. Life' = Life
  BY StageCases DEF Life
<1>. QED
  BY <1>1 DEF Abstract!lifeVars, Used, Life

(* An attempt under way never becomes unused. *)
LEMMA AttemptKeepsUsed ==
  ASSUME TypeOK, NEW t \in Token, NEW p, p # "unused", phase[t] # "unused",
         phase' = [phase EXCEPT ![t] = p]
  PROVE  Used' = Used
BY DEF TypeOK, Used

(* The initial states map to initial states. *)
LEMMA LifeInit == Init => Abstract!LifeInit
BY DEF Init, Abstract!LifeInit, StageOf

(* Every step of the queue is a step of the lifecycle or a stutter. *)
LEMMA LifeStep ==
  ASSUME TypeOK, RowInv, TypeOK', RowInv', [Next]_vars
  PROVE  [Abstract!LifeNext]_(Abstract!lifeVars)
<1> DEFINE Goal == [Abstract!LifeNext]_(Abstract!lifeVars)
<1> USE NoneAssumption DEF docVars, attemptVars, workerVars, RowInv, LeaseConsistent,
        ChunksIffReady, RowsCreated
<1>1. ASSUME NEW d \in Doc, UploadStep(d) PROVE Goal
  <2>1. CASE Reserve(d)
    <3>1. \A e \in Doc : StageOf(e)' = IF e \in {d} THEN "uploading" ELSE StageOf(e)
      BY <2>1, StageCases DEF Reserve, TypeOK
    <3>2. \A e \in Doc : token'[e] = IF e \in {d} THEN None ELSE token[e]
      BY <2>1 DEF Reserve, TypeOK
    <3>3. Used' = Used
      BY <2>1 DEF Reserve, Used
    <3>4. Shown' = Shown
      BY <2>1 DEF Reserve, Shown, TypeOK
    <3>4a. Life[d] = "new"
      BY <2>1, StageCases DEF Reserve, Life, TypeOK
    <3>5. Abstract!MoveAll({d}, "uploading")
      BY <3>1, <3>2, <3>3, MoveAllStep
    <3>. QED
      BY <3>4, <3>4a, <3>5 DEF Abstract!LifeNext, Abstract!Create, Life, Shown
  <2>2. CASE StorePdf(d)
    BY <2>2, QuietStep DEF StorePdf, Used, TypeOK
  <2>3. CASE StorePdfFails(d)
    BY <2>3, QuietStep DEF StorePdfFails, Used, TypeOK
  <2>4. CASE Finalize(d)
    <3>1. \A e \in Doc : StageOf(e)' = IF e \in {d} THEN "queued" ELSE StageOf(e)
      BY <2>4, StageCases DEF Finalize, TypeOK
    <3>2. \A e \in Doc : token'[e] = IF e \in {d} THEN None ELSE token[e]
      BY <2>4 DEF Finalize, TypeOK
    <3>3. Used' = Used
      BY <2>4 DEF Finalize, Used
    <3>4. Shown' = Shown
      BY <2>4 DEF Finalize, Shown, TypeOK
    <3>4a. Life[d] = "uploading"
      BY <2>4, StageCases DEF Finalize, Life, TypeOK
    <3>5. Abstract!MoveAll({d}, "queued")
      BY <3>1, <3>2, <3>3, MoveAllStep
    <3>. QED
      BY <3>4, <3>4a, <3>5 DEF Abstract!LifeNext, Abstract!Enqueue, Life, Shown
  <2>5. CASE FinalizeRefused(d)
    BY <2>5, QuietStep DEF FinalizeRefused, Used, TypeOK
  <2>6. CASE RollbackRow(d)
    <3>1. CASE active[d]
      <4>1. \A e \in Doc : StageOf(e)' = IF e \in {d} THEN "gone" ELSE StageOf(e)
        BY <2>6, <3>1, StageCases DEF RollbackRow, TypeOK
      <4>2. \A e \in Doc : token'[e] = IF e \in {d} THEN None ELSE token[e]
        BY <2>6, <3>1 DEF RollbackRow, TypeOK
      <4>3. Used' = Used
        BY <2>6, <3>1 DEF RollbackRow, Used
      <4>4. Shown' = [Shown EXCEPT ![d] = None]
        BY <2>6, <3>1 DEF RollbackRow, Shown, TypeOK
      <4>4a. Life[d] \notin {"new", "gone"}
        <5>1. Life[d] = status[d]
          BY <2>6, <3>1, StageCases DEF RollbackRow, Life
        <5>2. status[d] \in Status
          BY DEF TypeOK
        <5>. QED
          BY ONLY <5>1, <5>2
      <4>5. Abstract!MoveAll({d}, "gone")
        BY <4>1, <4>2, <4>3, MoveAllStep
      <4>. QED
        BY <4>4, <4>4a, <4>5 DEF Abstract!LifeNext, Abstract!Withdraw, Life, Shown
    <3>2. CASE ~active[d]
      <4>1. token' = token /\ Used' = Used
        BY <2>6, <3>2 DEF RollbackRow, Used, TypeOK
      <4>2. Life' = Life
        BY <2>6, <3>2, StageCases DEF RollbackRow, Life, TypeOK
      <4>3. Shown' = Shown
        BY <2>6, <3>2 DEF RollbackRow, Shown, TypeOK
      <4>. QED
        BY <4>1, <4>2, <4>3 DEF Abstract!lifeVars, Life, Shown, Used
    <3>. QED
      BY <3>1, <3>2
  <2>7. CASE UploadEndsWithRow(d)
    BY <2>7, QuietStep DEF UploadEndsWithRow, Used, TypeOK
  <2>. QED
    BY <1>1, <2>1, <2>2, <2>3, <2>4, <2>5, <2>6, <2>7 DEF UploadStep
<1>2. ASSUME NEW d \in Doc, RequestStep(d) PROVE Goal
  <2>1. CASE Delete(d)
    <3>1. \A e \in Doc : StageOf(e)' = IF e \in {d} THEN "gone" ELSE StageOf(e)
      BY <2>1, StageCases DEF Delete, TypeOK
    <3>2. \A e \in Doc : token'[e] = IF e \in {d} THEN None ELSE token[e]
      BY <2>1 DEF Delete, TypeOK
    <3>3. Used' = Used
      BY <2>1 DEF Delete, Used
    <3>4. Shown' = [Shown EXCEPT ![d] = None]
      BY <2>1 DEF Delete, Shown, TypeOK
    <3>4a. Life[d] \notin {"new", "gone"}
      BY <2>1, StageCases DEF Delete, Life, TypeOK
    <3>5. Abstract!MoveAll({d}, "gone")
      BY <3>1, <3>2, <3>3, MoveAllStep
    <3>. QED
      BY <3>4, <3>4a, <3>5 DEF Abstract!LifeNext, Abstract!Withdraw, Life, Shown
  <2>2. CASE Reprocess(d)
    <3>1. \A e \in Doc : StageOf(e)' = IF e \in {d} THEN "queued" ELSE StageOf(e)
      BY <2>2, StageCases DEF Reprocess, TypeOK
    <3>2. \A e \in Doc : token'[e] = IF e \in {d} THEN None ELSE token[e]
      BY <2>2 DEF Reprocess, TypeOK
    <3>3. Used' = Used
      BY <2>2 DEF Reprocess, Used
    <3>4. Shown' = [Shown EXCEPT ![d] = None]
      BY <2>2 DEF Reprocess, Shown, TypeOK
    <3>4a. Life[d] \in {"ready", "failed"}
      BY <2>2, StageCases DEF Reprocess, Life, TypeOK
    <3>5. Abstract!MoveAll({d}, "queued")
      BY <3>1, <3>2, <3>3, MoveAllStep
    <3>. QED
      BY <3>4, <3>4a, <3>5 DEF Abstract!LifeNext, Abstract!Retry, Life, Shown
  <2>3. CASE CooldownEnds(d)
    BY <2>3, QuietStep DEF CooldownEnds, Used, TypeOK
  <2>4. CASE LeaseExpires(d)
    BY <2>4, QuietStep DEF LeaseExpires, Used, TypeOK
  <2>5. CASE EditRow(d)
    BY <2>5, QuietStep DEF EditRow, Used, TypeOK
  <2>. QED
    BY <1>2, <2>1, <2>2, <2>3, <2>4, <2>5 DEF RequestStep
<1>3. ASSUME NEW i \in Instance, WorkerStep(i) PROVE Goal
  <2>1. CASE TickPoll(i)
    BY <2>1, QuietStep DEF TickPoll, Used, TypeOK
  <2>2. CASE RequeueStale(i)
    <3> DEFINE R == StaleFor(i)
    <3>1. R \subseteq Doc /\ \A e \in R : status[e] = "processing" /\ active[e]
      BY DEF StaleFor
    <3> HIDE DEF R
    <3>2. /\ \A e \in Doc : status'[e] = IF e \in R THEN "queued" ELSE status[e]
          /\ \A e \in Doc : token'[e] = IF e \in R THEN None ELSE token[e]
          /\ UNCHANGED <<active, chunks, upload, phase>>
      BY <2>2 DEF RequeueStale, R
    <3>3. \A e \in Doc : StageOf(e)' = IF e \in R THEN "queued" ELSE StageOf(e)
      BY <3>1, <3>2, StageCases
    <3>4. Used' = Used /\ Shown' = Shown
      BY <3>2 DEF Used, Shown
    <3>5. \A e \in R : Life[e] = "processing"
      BY <3>1, StageCases DEF Life
    <3>6. Abstract!MoveAll(R, "queued")
      BY <3>2, <3>3, <3>4, MoveAllStep
    <3>7. R \in SUBSET {e \in Doc : Life[e] = "processing"}
      BY <3>1, <3>5
    <3>8. Abstract!Release
      BY <3>4, <3>6, <3>7 DEF Abstract!Release, Life, Shown
    <3>. QED
      BY <3>8 DEF Abstract!LifeNext
  <2>3. CASE ClaimQueued(i)
    <3>1. PICK T \in (SUBSET FreshTokens) \ {{}} : \E g \in [T -> Claimable] :
            TakeRows(i, T, g) /\ (StartAttempts(i, T, g) \/ StartNothing(T))
      BY <2>3 DEF ClaimQueued
    <3>2. PICK g \in [T -> Claimable] :
            TakeRows(i, T, g) /\ (StartAttempts(i, T, g) \/ StartNothing(T))
      BY <3>1
    <3> DEFINE C == {g[u] : u \in T}
               h == [e \in C |-> HolderOf(g, e)]
    <3>3. T # {} /\ T \subseteq Token \ Used /\ g \in [T -> Doc]
      BY DEF FreshTokens, Claimable, Used
    <3>4. \A e \in C : HolderOf(g, e) \in T /\ g[HolderOf(g, e)] = e
      BY ONLY <3>3, HolderOfClaimed
    <3>5. C \subseteq Doc /\ C # {} /\ \A e \in C : status[e] = "queued" /\ active[e]
      BY <3>3 DEF Claimable
    <3>6. /\ \A e \in Doc : status'[e] = IF e \in C THEN "processing" ELSE status[e]
          /\ token' = [e \in Doc |-> IF e \in C THEN h[e] ELSE token[e]]
          /\ UNCHANGED <<active, chunks, upload>>
      BY <3>2 DEF TakeRows
    <3>7. h \in [C -> Token \ Used] /\ \A d, e \in C : h[d] = h[e] => d = e
      BY <3>3, <3>4
    <3>8. Used' = Used \cup {h[e] : e \in C}
      <4>1. T = {h[e] : e \in C}
        <5>1. \A u \in T : g[u] \in C /\ h[g[u]] = u
          BY <3>2, <3>4 DEF TakeRows
        <5>2. \A e \in C : h[e] \in T
          BY <3>4
        <5> HIDE DEF C, h
        <5>. QED
          BY <5>1, <5>2
      <4>2. Used' = Used \cup T
        BY <3>2, <3>3 DEF StartAttempts, StartNothing, Used
      <4>. QED
        BY <4>1, <4>2
    <3> HIDE DEF C, h
    <3>9. Life' = [e \in Doc |-> IF e \in C THEN "processing" ELSE Life[e]]
      BY <3>5, <3>6, StageCases DEF Life
    <3>10. C \in SUBSET {e \in Doc : Life[e] = "queued"}
      BY <3>5, StageCases DEF Life
    <3>11. Shown' = Shown
      BY <3>6 DEF Shown
    <3>12. Abstract!Claim
      <4>1. \E D \in SUBSET {e \in Doc : Life[e] = "queued"} :
              \E k \in [D -> Token \ Used] :
                /\ D # {}
                /\ \A d, e \in D : k[d] = k[e] => d = e
                /\ Life' = [e \in Doc |-> IF e \in D THEN "processing" ELSE Life[e]]
                /\ token' = [e \in Doc |-> IF e \in D THEN k[e] ELSE token[e]]
                /\ Used' = Used \cup {k[e] : e \in D}
        <5>1. Life' = [e \in Doc |-> IF e \in C THEN "processing" ELSE Life[e]]
          BY <3>9
        <5>2. token' = [e \in Doc |-> IF e \in C THEN h[e] ELSE token[e]]
          BY <3>6
        <5> USE <3>7, <3>10
        <5> WITNESS C \in SUBSET {e \in Doc : Life[e] = "queued"}
        <5> WITNESS h \in [C -> Token \ Used]
        <5>. QED
          BY ONLY <3>5, <3>7, <3>8, <5>1, <5>2
      <4>. QED
        BY ONLY <3>11, <4>1 DEF Abstract!Claim, Life, Shown, Used
    <3>. QED
      BY <3>12 DEF Abstract!LifeNext
  <2>4. CASE ClaimNothing(i)
    BY <2>4, QuietStep DEF ClaimNothing, Used, TypeOK
  <2>5. CASE Stop(i)
    BY <2>5, QuietStep DEF Stop, Used, TypeOK
  <2>6. CASE Restart(i)
    <3>1. \A t \in AttemptsOn(i) : phase[t] # "unused"
      BY DEF AttemptsOn, Live, LivePhase
    <3>2. Used' = Used
      BY <2>6, <3>1 DEF Restart, Used
    <3>. QED
      BY <2>6, <3>2, QuietStep DEF Restart
  <2>. QED
    BY <1>3, <2>1, <2>2, <2>3, <2>4, <2>5, <2>6 DEF WorkerStep
<1>4. ASSUME NEW t \in Token, Heartbeat(t) PROVE Goal
  BY <1>4, QuietStep DEF Heartbeat, Used
<1>5. ASSUME NEW t \in Token, AttemptStep(t) PROVE Goal
  <2>1. CASE Download(t)
    <3>1. Used' = Used
      <4>1. PICK p \in AttemptPhase : p # "unused" /\ phase' = [phase EXCEPT ![t] = p]
        BY <2>1 DEF Download, Goto, GotoSame
      <4>2. phase[t] # "unused"
        BY <2>1 DEF Download
      <4>. QED
        BY <4>1, <4>2, AttemptKeepsUsed
    <3>. QED
      BY <2>1, <3>1, QuietStep DEF Download
  <2>2. CASE PipelineFails(t)
    <3>1. Used' = Used
      BY <2>2, AttemptKeepsUsed DEF PipelineFails, Goto, GotoSame
    <3>. QED
      BY <2>2, <3>1, QuietStep DEF PipelineFails
  <2>3. CASE PipelineDone(t)
    <3>1. Used' = Used
      <4>1. PICK p \in AttemptPhase : p # "unused" /\ phase' = [phase EXCEPT ![t] = p]
        BY <2>3 DEF PipelineDone, Goto, Finish
      <4>2. phase[t] # "unused"
        BY <2>3 DEF PipelineDone
      <4>. QED
        BY <4>1, <4>2, AttemptKeepsUsed
    <3>. QED
      BY <2>3, <3>1, QuietStep DEF PipelineDone
  <2>4. CASE StoreArtifacts(t)
    <3>1. Used' = Used
      <4>1. PICK p \in AttemptPhase : p # "unused" /\ phase' = [phase EXCEPT ![t] = p]
        BY <2>4 DEF StoreArtifacts, Goto, GotoSame
      <4>2. phase[t] # "unused"
        BY <2>4 DEF StoreArtifacts
      <4>. QED
        BY <4>1, <4>2, AttemptKeepsUsed
    <3>. QED
      BY <2>4, <3>1, QuietStep DEF StoreArtifacts
  <2>5. CASE CompleteProcessing(t)
    <3>1. PICK d \in Doc : d = docOf[t] /\ token[d] = t /\ status[d] = "processing" /\ active[d]
      BY <2>5 DEF CompleteProcessing, OwnsRow, AttemptsPlaced, Live
    <3>2. Used' = Used
      <4>1. PICK p \in AttemptPhase : p # "unused" /\ phase' = [phase EXCEPT ![t] = p]
        BY <2>5 DEF CompleteProcessing, Goto, GotoSame, Finish
      <4>2. phase[t] # "unused"
        BY <2>5 DEF CompleteProcessing
      <4>. QED
        BY <4>1, <4>2, AttemptKeepsUsed
    <3>3. \A e \in Doc : StageOf(e)' = IF e \in {d} THEN "ready" ELSE StageOf(e)
      BY <2>5, <3>1, StageCases DEF CompleteProcessing, TypeOK
    <3>4. \A e \in Doc : token'[e] = IF e \in {d} THEN None ELSE token[e]
      BY <2>5, <3>1 DEF CompleteProcessing, TypeOK
    <3>5. Shown' = [Shown EXCEPT ![d] = token[d]]
      <4>1. chunks' = [chunks EXCEPT ![d] = t] /\ UNCHANGED active
        BY <2>5, <3>1 DEF CompleteProcessing
      <4>2. chunks \in [Doc -> Token \cup {None}] /\ active \in [Doc -> BOOLEAN]
        BY DEF TypeOK
      <4>. QED
        BY ONLY <3>1, <4>1, <4>2 DEF Shown
    <3>6. Life[d] = "processing"
      BY <3>1, StageCases DEF Life
    <3>7. Abstract!MoveAll({d}, "ready")
      BY <3>2, <3>3, <3>4, MoveAllStep
    <3>8. Abstract!Publish(d)
      BY <3>5, <3>6, <3>7 DEF Abstract!Publish, Life, Shown
    <3>. QED
      BY <3>1, <3>8 DEF Abstract!LifeNext
  <2>6. CASE CompleteRefused(t)
    <3>1. Used' = Used
      <4>1. PICK p \in AttemptPhase : p # "unused" /\ phase' = [phase EXCEPT ![t] = p]
        BY <2>6 DEF CompleteRefused, Goto, GotoSame, Finish
      <4>2. phase[t] # "unused"
        BY <2>6 DEF CompleteRefused
      <4>. QED
        BY <4>1, <4>2, AttemptKeepsUsed
    <3>. QED
      BY <2>6, <3>1, QuietStep DEF CompleteRefused
  <2>7. CASE MarkFailed(t)
    <3>1. PICK d \in Doc : d = docOf[t] /\ token[d] = t /\ status[d] = "processing" /\ active[d]
      BY <2>7 DEF MarkFailed, OwnsRow, AttemptsPlaced, Live
    <3>2. Used' = Used
      <4>1. PICK p \in AttemptPhase : p # "unused" /\ phase' = [phase EXCEPT ![t] = p]
        BY <2>7 DEF MarkFailed, Goto, GotoSame, Finish
      <4>2. phase[t] # "unused"
        BY <2>7 DEF MarkFailed
      <4>. QED
        BY <4>1, <4>2, AttemptKeepsUsed
    <3>3. \A e \in Doc : StageOf(e)' = IF e \in {d} THEN "failed" ELSE StageOf(e)
      BY <2>7, <3>1, StageCases DEF MarkFailed, TypeOK
    <3>4. \A e \in Doc : token'[e] = IF e \in {d} THEN None ELSE token[e]
      BY <2>7, <3>1 DEF MarkFailed, TypeOK
    <3>5. Shown' = Shown
      <4>1. chunks' = chunks /\ UNCHANGED active
        BY <2>7, <3>1 DEF MarkFailed
      <4>2. chunks \in [Doc -> Token \cup {None}] /\ active \in [Doc -> BOOLEAN]
        BY DEF TypeOK
      <4>. QED
        BY ONLY <3>1, <4>1, <4>2 DEF Shown
    <3>6. Life[d] = "processing"
      BY <3>1, StageCases DEF Life
    <3>7. Abstract!MoveAll({d}, "failed")
      BY <3>2, <3>3, <3>4, MoveAllStep
    <3>8. Abstract!Fail(d)
      BY <3>5, <3>6, <3>7 DEF Abstract!Fail, Life, Shown
    <3>. QED
      BY <3>1, <3>8 DEF Abstract!LifeNext
  <2>8. CASE MarkFailedRefused(t)
    <3>1. Used' = Used
      BY <2>8, AttemptKeepsUsed DEF MarkFailedRefused, Finish
    <3>. QED
      BY <2>8, <3>1, QuietStep DEF MarkFailedRefused
  <2>9. CASE CleanArtifacts(t)
    <3>1. Used' = Used
      BY <2>9, AttemptKeepsUsed DEF CleanArtifacts, Finish
    <3>. QED
      BY <2>9, <3>1, QuietStep DEF CleanArtifacts
  <2>. QED
    BY <1>5, <2>1, <2>2, <2>3, <2>4, <2>5, <2>6, <2>7, <2>8, <2>9 DEF AttemptStep
<1>6. CASE UNCHANGED vars
  BY <1>6, QuietStep DEF vars, Used
<1>. QED
  BY <1>1, <1>2, <1>3, <1>4, <1>5, <1>6 DEF Next

(* The two invariants together. *)
LEMMA SafetyInductive == Spec => [](TypeOK /\ RowInv)
BY TypeInit, TypeNext, RowInit, RowNext, PTL DEF Spec

(* The ingestion queue, with its leases, crashes, takeovers and late attempts,
   implements the document lifecycle: what readers see of a document is always
   the output of the one attempt that held it until it published. *)
THEOREM QueueImplementsLifecycle == Spec => ImplementsLifecycle
<1>1. Init => Abstract!LifeInit
  BY LifeInit
<1>2. TypeOK /\ RowInv /\ (TypeOK /\ RowInv)' /\ [Next]_vars => [Abstract!LifeNext]_(Abstract!lifeVars)
  BY LifeStep
<1>. QED
  BY <1>1, <1>2, SafetyInductive, PTL DEF Spec, ImplementsLifecycle, Abstract!LifeSpec

-----------------------------------------------------------------------------
(* No action but the rollback of its upload changes a soft-deleted row. *)
LEMMA WithdrawnStep ==
  ASSUME TypeOK, RowInv, [Next]_vars
  PROVE  KeepsWithdrawn
<1> USE NoneAssumption DEF TypeOK, docVars, RowInv, LeaseConsistent, RowsCreated, KeepsWithdrawn
<1>1. ASSUME NEW d \in Doc, UploadStep(d) PROVE KeepsWithdrawn
  <2>1. CASE Reserve(d)
    BY <2>1 DEF Reserve
  <2>2. CASE StorePdf(d)
    BY <2>2 DEF StorePdf
  <2>3. CASE StorePdfFails(d)
    BY <2>3 DEF StorePdfFails
  <2>4. CASE Finalize(d)
    BY <2>4 DEF Finalize
  <2>5. CASE FinalizeRefused(d)
    BY <2>5 DEF FinalizeRefused
  <2>6. CASE RollbackRow(d)
    BY <2>6 DEF RollbackRow
  <2>7. CASE UploadEndsWithRow(d)
    BY <2>7 DEF UploadEndsWithRow
  <2>. QED
    BY <1>1, <2>1, <2>2, <2>3, <2>4, <2>5, <2>6, <2>7 DEF UploadStep
<1>2. ASSUME NEW d \in Doc, RequestStep(d) PROVE KeepsWithdrawn
  <2>1. CASE Delete(d)
    BY <2>1 DEF Delete
  <2>2. CASE Reprocess(d)
    BY <2>2 DEF Reprocess
  <2>3. CASE CooldownEnds(d)
    BY <2>3 DEF CooldownEnds
  <2>4. CASE LeaseExpires(d)
    BY <2>4 DEF LeaseExpires
  <2>5. CASE EditRow(d)
    BY <2>5 DEF EditRow
  <2>. QED
    BY <1>2, <2>1, <2>2, <2>3, <2>4, <2>5 DEF RequestStep
<1>3. ASSUME NEW i \in Instance, WorkerStep(i) PROVE KeepsWithdrawn
  <2>1. CASE TickPoll(i)
    BY <2>1 DEF TickPoll, GoClaim
  <2>2. CASE RequeueStale(i)
    BY <2>2 DEF RequeueStale, StaleFor
  <2>3. CASE ClaimQueued(i)
    BY <2>3 DEF ClaimQueued, TakeRows, Claimable
  <2>4. CASE ClaimNothing(i)
    BY <2>4 DEF ClaimNothing
  <2>5. CASE Stop(i)
    BY <2>5 DEF Stop
  <2>6. CASE Restart(i)
    BY <2>6 DEF Restart
  <2>. QED
    BY <1>3, <2>1, <2>2, <2>3, <2>4, <2>5, <2>6 DEF WorkerStep
<1>4. ASSUME NEW t \in Token, Heartbeat(t) PROVE KeepsWithdrawn
  BY <1>4 DEF Heartbeat
<1>5. ASSUME NEW t \in Token, AttemptStep(t) PROVE KeepsWithdrawn
  <2>1. CASE Download(t)
    BY <2>1 DEF Download
  <2>2. CASE PipelineFails(t)
    BY <2>2 DEF PipelineFails
  <2>3. CASE PipelineDone(t)
    BY <2>3 DEF PipelineDone
  <2>4. CASE StoreArtifacts(t)
    BY <2>4 DEF StoreArtifacts
  <2>5. CASE CompleteProcessing(t)
    BY <2>5 DEF CompleteProcessing, OwnsRow
  <2>6. CASE CompleteRefused(t)
    BY <2>6 DEF CompleteRefused
  <2>7. CASE MarkFailed(t)
    BY <2>7 DEF MarkFailed, OwnsRow
  <2>8. CASE MarkFailedRefused(t)
    BY <2>8 DEF MarkFailedRefused
  <2>9. CASE CleanArtifacts(t)
    BY <2>9 DEF CleanArtifacts
  <2>. QED
    BY <1>5, <2>1, <2>2, <2>3, <2>4, <2>5, <2>6, <2>7, <2>8, <2>9 DEF AttemptStep
<1>6. CASE UNCHANGED vars
  BY <1>6 DEF vars
<1>. QED
  BY <1>1, <1>2, <1>3, <1>4, <1>5, <1>6 DEF Next

(* Deletion is final: no late attempt, stale check or half-done upload changes
   a soft-deleted row. *)
THEOREM QueueWithdrawnStaysWithdrawn == Spec => WithdrawnStaysWithdrawn
<1>1. TypeOK /\ RowInv /\ [Next]_vars => [KeepsWithdrawn]_vars
  BY WithdrawnStep
<1>. QED
  BY <1>1, SafetyInductive, PTL DEF Spec, WithdrawnStaysWithdrawn

-----------------------------------------------------------------------------
(* Counting the attempts of a worker. *)
CountInv == WithinConcurrency /\ SlotsFit

(* They can be counted. *)
LEMMA AttemptsFinite ==
  ASSUME NEW i
  PROVE  IsFiniteSet(AttemptsOn(i)) /\ Cardinality(AttemptsOn(i)) \in Nat
BY TokenAssumption, FS_Subset, FS_CardinalityType DEF AttemptsOn

(* At the start every worker is idle. *)
LEMMA CountInit == Init => CountInv
<1> SUFFICES ASSUME Init, NEW i \in Instance
             PROVE  /\ activeCount[i] = Cardinality(AttemptsOn(i))
                    /\ activeDocs[i] \subseteq {docOf[t] : t \in AttemptsOn(i)}
                    /\ activeCount[i] = 0 /\ slots[i] = 0
  BY ConcurrencyAssumption DEF CountInv, WithinConcurrency, SlotsFit
<1>1. AttemptsOn(i) = {}
  BY DEF Init, AttemptsOn, Live, LivePhase
<1>. QED
  BY <1>1, FS_EmptySet DEF Init

(* Steps that neither start nor end an attempt. *)
LEMMA CountQuiet ==
  ASSUME CountInv, UNCHANGED <<docOf, hostOf, activeDocs, activeCount>>,
         \A t \in Token : phase'[t] \in LivePhase <=> phase[t] \in LivePhase,
         SlotsFit'
  PROVE  CountInv'
<1>1. ASSUME NEW i \in Instance PROVE AttemptsOn(i)' = AttemptsOn(i)
  BY DEF AttemptsOn, Live
<1>. QED
  BY <1>1 DEF CountInv, WithinConcurrency

(* An attempt that ends gives its slot back. *)
LEMMA CountFinish ==
  ASSUME TypeOK, AttemptsPlaced, CountInv, NEW t \in Token, Live(t), Finish(t),
         UNCHANGED <<tick, slots>>
  PROVE  CountInv'
<1> DEFINE h == hostOf[t]
<1>1. h \in Instance /\ docOf[t] \in Doc
  BY DEF AttemptsPlaced
<1>2. \A i \in Instance :
        /\ activeCount'[i] = IF i = h THEN activeCount[i] - 1 ELSE activeCount[i]
        /\ activeDocs'[i] = IF i = h THEN activeDocs[i] \ {docOf[t]} ELSE activeDocs[i]
  BY DEF Finish, TypeOK
<1>3. \A u \in Token : /\ u # t => phase'[u] = phase[u] /\ docOf'[u] = docOf[u] /\ hostOf'[u] = hostOf[u]
                       /\ phase'[t] = "done"
  BY DEF Finish, TypeOK
<1>4. ASSUME NEW i \in Instance
      PROVE  /\ activeCount'[i] = Cardinality(AttemptsOn(i)')
             /\ activeDocs'[i] \subseteq {docOf'[u] : u \in AttemptsOn(i)'}
  <2>1. CASE i = h
    <3>1. AttemptsOn(i)' = AttemptsOn(i) \ {t} /\ t \in AttemptsOn(i)
      BY <1>3, <2>1 DEF AttemptsOn, Live, LivePhase
    <3>2. Cardinality(AttemptsOn(i)') = Cardinality(AttemptsOn(i)) - 1
      BY <3>1, AttemptsFinite, FS_RemoveElement
    <3>3. ASSUME NEW d \in activeDocs'[i] PROVE d \in {docOf'[u] : u \in AttemptsOn(i)'}
      <4>0. d \in activeDocs[i] /\ d # docOf[t]
        BY <1>2, <2>1
      <4>1. PICK u \in AttemptsOn(i) : d = docOf[u]
        BY <4>0 DEF CountInv, WithinConcurrency
      <4>2. u # t
        BY <4>0, <4>1
      <4>3. u \in AttemptsOn(i)' /\ docOf'[u] = d
        BY <1>3, <3>1, <4>1, <4>2 DEF AttemptsOn
      <4>. QED
        BY <4>3
    <3>. QED
      BY <1>2, <2>1, <3>2, <3>3 DEF CountInv, WithinConcurrency
  <2>2. CASE i # h
    <3>1. AttemptsOn(i)' = AttemptsOn(i) /\ t \notin AttemptsOn(i)
      BY <1>3, <2>2 DEF AttemptsOn, Live, LivePhase
    <3>2. \A u \in AttemptsOn(i) : docOf'[u] = docOf[u]
      BY <1>3, <3>1 DEF AttemptsOn
    <3>3. {docOf'[u] : u \in AttemptsOn(i)'} = {docOf[u] : u \in AttemptsOn(i)}
      BY <3>1, <3>2
    <3>4. activeCount'[i] = activeCount[i] /\ activeDocs'[i] = activeDocs[i]
      BY <1>2, <2>2
    <3>. QED
      BY <3>1, <3>3, <3>4 DEF CountInv, WithinConcurrency
  <2>. QED
    BY <2>1, <2>2
<1>5. SlotsFit' /\ \A i \in Instance : activeCount'[i] <= Concurrency
  <2>1. \A i \in Instance : activeCount[i] \in Int /\ slots[i] \in Nat
    BY DEF TypeOK
  <2>2. ASSUME NEW i \in Instance
        PROVE  activeCount'[i] \in Int /\ activeCount'[i] <= activeCount[i]
    <3>1. activeCount'[i] = activeCount[i] - 1 \/ activeCount'[i] = activeCount[i]
      BY <1>2
    <3>2. activeCount[i] \in Int
      BY <2>1
    <3>. QED
      BY ONLY <3>1, <3>2
  <2>. QED
    BY <2>1, <2>2, ConcurrencyAssumption DEF CountInv, SlotsFit, WithinConcurrency
<1>. QED
  BY <1>4, <1>5 DEF CountInv, WithinConcurrency

(* The attempts a tick starts fit in the slots it computed, although attempts
   ended while the claim was under way. *)
LEMMA CountClaim ==
  ASSUME TypeOK, CountInv, NEW i \in Instance, NEW T \in (SUBSET FreshTokens) \ {{}},
         NEW g \in [T -> Claimable], TakeRows(i, T, g), StartAttempts(i, T, g)
  PROVE  CountInv'
<1>2. Cardinality(T) <= slots[i]
  BY DEF TakeRows
<1> DEFINE C == {g[t] : t \in T}
<1>3. IsFiniteSet(T) /\ Cardinality(T) \in Nat /\ \A t \in T : t \in Token /\ phase[t] = "unused"
  BY TokenAssumption, FS_Subset, FS_CardinalityType DEF FreshTokens
<1>4. \A u \in Token : /\ phase'[u] = IF u \in T THEN "download" ELSE phase[u]
                       /\ docOf'[u] = IF u \in T THEN g[u] ELSE docOf[u]
                       /\ hostOf'[u] = IF u \in T THEN i ELSE hostOf[u]
  BY DEF StartAttempts
<1>5. \A j \in Instance :
        /\ activeCount'[j] = IF j = i THEN activeCount[j] + Cardinality(T) ELSE activeCount[j]
        /\ activeDocs'[j] = IF j = i THEN activeDocs[j] \cup C ELSE activeDocs[j]
  BY DEF StartAttempts, TypeOK
<1>5a. \A j \in Instance :
        /\ slots'[j] = IF j = i THEN 0 ELSE slots[j]
        /\ tick'[j] = IF j = i THEN "idle" ELSE tick[j]
  BY DEF TakeRows, TypeOK
<1>6. ASSUME NEW j \in Instance
      PROVE  /\ activeCount'[j] = Cardinality(AttemptsOn(j)')
             /\ activeDocs'[j] \subseteq {docOf'[u] : u \in AttemptsOn(j)'}
  <2>1. AttemptsOn(j) \cap T = {}
    BY <1>3 DEF AttemptsOn, Live, LivePhase
  <2>2. \A u \in AttemptsOn(j) : docOf'[u] = docOf[u]
    BY <1>4, <2>1 DEF AttemptsOn
  <2>3. CASE j = i
    <3>1. AttemptsOn(j)' = AttemptsOn(j) \cup T
      BY <1>3, <1>4, <2>1, <2>3 DEF AttemptsOn, Live, LivePhase
    <3>2. Cardinality(AttemptsOn(j)') = Cardinality(AttemptsOn(j)) + Cardinality(T)
      <4>1. /\ IsFiniteSet(AttemptsOn(j)) /\ Cardinality(AttemptsOn(j)) \in Nat
            /\ Cardinality(AttemptsOn(j) \cap T) = 0
        BY <2>1, AttemptsFinite, FS_EmptySet
      <4>2. Cardinality(AttemptsOn(j) \cup T)
              = Cardinality(AttemptsOn(j)) + Cardinality(T) - Cardinality(AttemptsOn(j) \cap T)
        BY <1>3, <4>1, FS_Union
      <4>. QED
        BY <1>3, <3>1, <4>1, <4>2
    <3>3. \A u \in T : docOf'[u] = g[u]
      BY <1>3, <1>4
    <3>4. activeDocs'[j] \subseteq {docOf'[u] : u \in AttemptsOn(j)'}
      <4>1. activeDocs'[j] = activeDocs[j] \cup C
        BY <1>5, <2>3
      <4>2. activeDocs[j] \subseteq {docOf[u] : u \in AttemptsOn(j)}
        BY DEF CountInv, WithinConcurrency
      <4>3. \A d \in C : \E u \in T : d = docOf'[u]
        BY <3>3
      <4>4. \A d \in activeDocs[j] : \E u \in AttemptsOn(j) : d = docOf'[u]
        BY <2>2, <4>2
      <4> HIDE DEF C
      <4>. QED
        BY <3>1, <4>1, <4>3, <4>4
    <3>. QED
      BY <1>5, <2>3, <3>2, <3>4 DEF CountInv, WithinConcurrency
  <2>4. CASE j # i
    <3>1. AttemptsOn(j)' = AttemptsOn(j)
      BY <1>3, <1>4, <2>1, <2>4 DEF AttemptsOn, Live, LivePhase
    <3>. QED
      <4>1. {docOf'[u] : u \in AttemptsOn(j)'} = {docOf[u] : u \in AttemptsOn(j)}
        BY <2>2, <3>1
      <4>2. activeCount'[j] = activeCount[j] /\ activeDocs'[j] = activeDocs[j]
        BY <1>5, <2>4
      <4>. QED
        BY <3>1, <4>1, <4>2 DEF CountInv, WithinConcurrency
  <2>. QED
    BY <2>3, <2>4
<1>7. SlotsFit' /\ \A j \in Instance : activeCount'[j] <= Concurrency
  <2>1. \A j \in Instance : activeCount[j] \in Int /\ slots[j] \in Nat
    BY DEF TypeOK
  <2>2. \A j \in Instance :
          /\ activeCount[j] + slots[j] <= Concurrency
          /\ tick[j] # "claim" => slots[j] = 0
    BY DEF CountInv, SlotsFit
  <2>3. ASSUME NEW j \in Instance
        PROVE  /\ activeCount'[j] \in Int /\ activeCount'[j] + slots'[j] <= Concurrency
               /\ slots'[j] \in Nat
               /\ tick'[j] # "claim" => slots'[j] = 0
    <3>1. CASE j = i
      <4>1. activeCount'[j] = activeCount[j] + Cardinality(T) /\ slots'[j] = 0
        BY <1>5, <1>5a, <3>1
      <4>2. Cardinality(T) <= slots[j]
        BY <1>2, <3>1
      <4>. QED
        BY <1>3, <2>1, <2>2, <4>1, <4>2, ConcurrencyAssumption
    <3>2. CASE j # i
      <4>1. activeCount'[j] = activeCount[j] /\ slots'[j] = slots[j] /\ tick'[j] = tick[j]
        BY <1>5, <1>5a, <3>2
      <4>. QED
        BY <2>1, <2>2, <4>1
    <3>. QED
      BY <3>1, <3>2
  <2>4. SlotsFit'
    BY <2>3 DEF SlotsFit
  <2>5. \A j \in Instance : activeCount'[j] <= Concurrency
    BY <2>3, ConcurrencyAssumption
  <2>. QED
    BY <2>4, <2>5
<1>. QED
  BY <1>6, <1>7 DEF CountInv, WithinConcurrency

(* The counting invariant is kept by every action. *)
LEMMA CountNext ==
  ASSUME TypeOK, RowInv, CountInv, [Next]_vars
  PROVE  CountInv'
<1> USE DEF docVars, attemptVars, workerVars
<1>0. SlotsFit /\ AttemptsPlaced
  BY DEF CountInv, RowInv
<1>1. ASSUME NEW d \in Doc, UploadStep(d) \/ RequestStep(d) PROVE CountInv'
  <2>1. UNCHANGED <<attemptVars, workerVars>>
    BY <1>1 DEF UploadStep, RequestStep, Reserve, StorePdf, StorePdfFails, Finalize,
        FinalizeRefused, RollbackRow, UploadEndsWithRow, Delete, Reprocess, CooldownEnds,
        EditRow, LeaseExpires
  <2>. QED
    BY <1>0, <2>1, CountQuiet DEF SlotsFit
<1>2. ASSUME NEW i \in Instance, WorkerStep(i) PROVE CountInv'
  <2>1. CASE TickPoll(i)
    <3>1. UNCHANGED <<attemptVars, activeDocs, activeCount>> /\ GoClaim(i)
      BY <2>1 DEF TickPoll
    <3>2. SlotsFit'
      BY <1>0, <3>1, ConcurrencyAssumption DEF GoClaim, FreeSlots, SlotsFit, TypeOK,
         CountInv, WithinConcurrency
    <3>. QED
      BY <3>1, <3>2, CountQuiet
  <2>2. CASE RequeueStale(i)
    <3>1. UNCHANGED <<attemptVars, activeDocs, activeCount>> /\ GoClaim(i)
      BY <2>2 DEF RequeueStale
    <3>2. SlotsFit'
      BY <1>0, <3>1, ConcurrencyAssumption DEF GoClaim, FreeSlots, SlotsFit, TypeOK,
         CountInv, WithinConcurrency
    <3>. QED
      BY <3>1, <3>2, CountQuiet
  <2>3. CASE ClaimQueued(i)
    <3>1. PICK T \in (SUBSET FreshTokens) \ {{}} : \E g \in [T -> Claimable] :
            TakeRows(i, T, g) /\ (StartAttempts(i, T, g) \/ StartNothing(T))
      BY <2>3 DEF ClaimQueued
    <3>2. PICK g \in [T -> Claimable] :
            TakeRows(i, T, g) /\ (StartAttempts(i, T, g) \/ StartNothing(T))
      BY <3>1
    <3>3. CASE StartAttempts(i, T, g)
      BY <3>2, <3>3, CountClaim
    <3>4. CASE StartNothing(T)
      <4>1. SlotsFit'
        BY <1>0, <3>2, <3>4 DEF TakeRows, StartNothing, SlotsFit, TypeOK, CountInv, WithinConcurrency
      <4>2. \A t \in Token : phase'[t] \in LivePhase <=> phase[t] \in LivePhase
        BY <3>4 DEF StartNothing, FreshTokens, LivePhase
      <4>. QED
        BY <3>4, <4>1, <4>2, CountQuiet DEF StartNothing
    <3>. QED
      BY <3>2, <3>3, <3>4
  <2>4. CASE ClaimNothing(i)
    <3>1. SlotsFit'
      BY <1>0, <2>4 DEF ClaimNothing, SlotsFit, TypeOK, CountInv, WithinConcurrency
    <3>. QED
      BY <2>4, <3>1, CountQuiet DEF ClaimNothing
  <2>5. CASE Stop(i)
    <3>1. SlotsFit'
      BY <1>0, <2>5 DEF Stop, SlotsFit, TypeOK, CountInv, WithinConcurrency
    <3>. QED
      BY <2>5, <3>1, CountQuiet DEF Stop
  <2>6. CASE Restart(i)
    <3>1. \A u \in Token :
            /\ phase'[u] = IF u \in AttemptsOn(i) THEN "done" ELSE phase[u]
            /\ docOf'[u] = IF u \in AttemptsOn(i) THEN None ELSE docOf[u]
            /\ hostOf'[u] = IF u \in AttemptsOn(i) THEN None ELSE hostOf[u]
      BY <2>6 DEF Restart
    <3>2. \A j \in Instance :
            /\ activeCount'[j] = IF j = i THEN 0 ELSE activeCount[j]
            /\ activeDocs'[j] = IF j = i THEN {} ELSE activeDocs[j]
            /\ slots'[j] = IF j = i THEN 0 ELSE slots[j]
            /\ tick'[j] = IF j = i THEN "idle" ELSE tick[j]
      BY <2>6 DEF Restart, TypeOK
    <3>3. AttemptsOn(i)' = {}
      BY <3>1, NoneAssumption DEF AttemptsOn, Live, LivePhase
    <3>4. ASSUME NEW j \in Instance, j # i
          PROVE  AttemptsOn(j)' = AttemptsOn(j) /\ \A u \in AttemptsOn(j) : docOf'[u] = docOf[u]
      <4>1. AttemptsOn(j) \cap AttemptsOn(i) = {}
        BY <3>4 DEF AttemptsOn
      <4>. QED
        BY <3>1, <4>1, <3>4, NoneAssumption DEF AttemptsOn, Live, LivePhase
    <3>5. Cardinality({}) = 0
      BY FS_EmptySet
    <3>6. WithinConcurrency'
      BY <3>2, <3>3, <3>4, <3>5, ConcurrencyAssumption DEF CountInv, WithinConcurrency
    <3>7. SlotsFit'
      BY <1>0, <3>2, ConcurrencyAssumption DEF SlotsFit
    <3>. QED
      BY <3>6, <3>7 DEF CountInv
  <2>. QED
    BY <1>2, <2>1, <2>2, <2>3, <2>4, <2>5, <2>6 DEF WorkerStep
<1>3. ASSUME NEW t \in Token, Heartbeat(t) PROVE CountInv'
  BY <1>0, <1>3, CountQuiet DEF Heartbeat, SlotsFit
<1>4. ASSUME NEW t \in Token, AttemptStep(t) PROVE CountInv'
  <2>1. Live(t) /\ UNCHANGED <<tick, slots>>
    BY <1>4 DEF AttemptStep, Download, PipelineFails, PipelineDone, StoreArtifacts, CompleteProcessing, CompleteRefused, MarkFailed, MarkFailedRefused, CleanArtifacts, Live
  <2>2. Finish(t) \/ \E p \in LivePhase : Goto(t, p)
    BY <1>4 DEF AttemptStep, Download, PipelineFails, PipelineDone, StoreArtifacts, CompleteProcessing, CompleteRefused, MarkFailed, MarkFailedRefused, CleanArtifacts, GotoSame
  <2>3. CASE Finish(t)
    BY <1>0, <2>1, <2>3, CountFinish
  <2>4. ASSUME NEW p \in LivePhase, Goto(t, p) PROVE CountInv'
    BY <1>0, <2>1, <2>4, CountQuiet DEF Goto, Live, SlotsFit, TypeOK
  <2>. QED
    BY <2>2, <2>3, <2>4
<1>5. CASE UNCHANGED vars
  BY <1>0, <1>5, CountQuiet DEF vars, SlotsFit
<1>. QED
  BY <1>1, <1>2, <1>3, <1>4, <1>5 DEF Next

(* No worker ever runs more attempts than PDF_PROCESSOR_CONCURRENCY. *)
THEOREM QueueWithinConcurrency == Spec => []WithinConcurrency
<1>1. CountInv => WithinConcurrency
  BY DEF CountInv
<1>. QED
  BY <1>1, CountInit, CountNext, SafetyInductive, PTL DEF Spec

(* An attempt whose row was requeued, deleted or rolled back never publishes. *)
THEOREM QueueRevokedNeverPublishes == Spec => []RevokedNeverPublishes
<1>1. RowInv => RevokedNeverPublishes
  BY DEF RowInv
<1>. QED
  BY <1>1, SafetyInductive, PTL

(* The token of a row is the lease the code compares: it is on the row exactly
   while an attempt may publish, and names that attempt alone. *)
THEOREM QueueLeaseConsistent == Spec => []LeaseConsistent
<1>1. RowInv => LeaseConsistent
  BY DEF RowInv
<1>. QED
  BY <1>1, SafetyInductive, PTL

(* A document has chunks exactly while it is `ready'. *)
THEOREM QueueChunksIffReady == Spec => []ChunksIffReady
<1>1. RowInv => ChunksIffReady
  BY DEF RowInv
<1>. QED
  BY <1>1, SafetyInductive, PTL
=============================================================================
