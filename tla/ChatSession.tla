----------------------------- MODULE ChatSession -----------------------------
(***************************************************************************)
(* One widget session: its messages, and the turns that ask a question,     *)
(* store a message or regenerate an answer (chat.controller.ts,             *)
(* chat.service.ts, chat-orchestration.service.ts,                          *)
(* chat-stream.transport.ts).                                               *)
(*                                                                         *)
(* Nothing keeps the turns of a session apart: each is a sequence of awaited *)
(* calls, and others run between any two of them.  Messages are numbered by  *)
(* created_at; that of an answer is the start of its transaction, so it is   *)
(* seen later than its number says.  What a turn retrieves and what its      *)
(* answer does to the counters is in Retrieval and in UsageAggregates.       *)
(***************************************************************************)
EXTENDS Integers, Sequences, FiniteSets

CONSTANTS
  Turn,          \* requests in flight
  MaxQuestions,  \* MAX_QUESTIONS_PER_SESSION
  MaxMessages    \* bound: no turn begins that might store a message beyond it

ASSUME LimitsAssumption == MaxQuestions \in Nat /\ MaxMessages \in Nat
ASSUME TurnAssumption == IsFiniteSet(Turn)

VARIABLES
  messages,   \* in the order of created_at
  rating,     \* message_feedbacks.rating of a message
  claimed,    \* messages whose metadata has regenerationClaimedAt
  turn,       \* what a request is doing, or has done
  response    \* its event stream, as the reader sees it

vars == <<messages, rating, claimed, turn, response>>

Index == 1 .. MaxMessages
Rating == {"GOOD", "BAD", "none"}
Pc == {"idle", "post", "claim", "history", "question", "retrieve", "stream", "answer", "saving", "finish"}

(* `from' is metadata.regeneratedFromMessageId; 0 is none.  `posted' only
   remembers who wrote the message, a client's POST or a turn; no action reads it. *)
Message == [role : {"user", "assistant"}, state : {"pending", "stored", "undone"},
            from : Index \cup {0}, posted : BOOLEAN]

(* `seen' is the rating that the claim's query has read. *)
TurnRecord == [pc : Pc, kind : {"none", "ask", "post", "regenerate"}, source : Index \cup {0},
               seen : Rating, question : Index \cup {0}, history : SUBSET Index,
               text : BOOLEAN, answer : Index \cup {0}]

NoTurn == [pc |-> "idle", kind |-> "none", source |-> 0, seen |-> "none", question |-> 0,
           history |-> {}, text |-> FALSE, answer |-> 0]

Init ==
  /\ messages = <<>>
  /\ rating = [i \in Index |-> "none"]
  /\ claimed = {}
  /\ turn = [t \in Turn |-> NoTurn]
  /\ response = [t \in Turn |-> "none"]

-----------------------------------------------------------------------------
Stored(i) == i \in DOMAIN messages /\ messages[i].state = "stored"
Questions == {i \in DOMAIN messages : Stored(i) /\ messages[i].role = "user"}
IsAnswer(i) == Stored(i) /\ messages[i].role = "assistant"

LargestOf(S, n) == {i \in S : Cardinality({j \in S : j > i}) < n}

(* The user message before an answer, or 0. *)
PreviousQuestion(i) ==
  LET before == {q \in Questions : q < i}
  IN IF before = {} THEN 0 ELSE CHOOSE q \in before : \A p \in before : p <= q

Busy(t) == turn[t].pc # "idle"

(* The turns that may still store a message, and those that may store two. *)
Storing == {t \in Turn : turn[t].pc \notin {"idle", "saving", "finish"}}
StoringTwo == {t \in Turn : turn[t].kind = "ask" /\ turn[t].pc \in {"history", "question"}}

(* There is room for n more messages besides. *)
Room(n) == Len(messages) + Cardinality(Storing) + Cardinality(StoringTwo) + n <= MaxMessages

Goto(t, p) == turn' = [turn EXCEPT ![t].pc = p]

(* The request is over; what it has said and stored is remembered. *)
Over(t) == [NoTurn EXCEPT !.text = turn[t].text, !.answer = turn[t].answer]
End(t) == turn' = [turn EXCEPT ![t] = Over(t)]

Append1(role, state, from, posted) ==
  messages' = Append(messages, [role |-> role, state |-> state, from |-> from, posted |-> posted])

Open(t) == response' = [response EXCEPT ![t] = "open"]

(* writeDone, writeError and the end that consumeAndForward writes itself: a
   reader who has left sees none of it. *)
EndResponse(t, how) ==
  response' = [response EXCEPT ![t] = IF @ = "open" THEN how ELSE @]

-----------------------------------------------------------------------------
(* Mutant: the limit is compared with the answers of the session. *)
AdmitByAnswers ==
  Cardinality({i \in DOMAIN messages : IsAnswer(i)}) <= MaxQuestions

(* The check of chatStream and createMessage: userMessageCount > MAX is refused. *)
Admit == Cardinality(Questions) <= MaxQuestions

Ask(t) ==
  /\ ~ Busy(t) /\ Room(2)
  /\ Admit
  /\ turn' = [turn EXCEPT ![t] = [NoTurn EXCEPT !.pc = "history", !.kind = "ask"]]
  /\ Open(t)
  /\ UNCHANGED <<messages, rating, claimed>>

(* POST with role user: the check, and then the insert. *)
Post(t) ==
  /\ ~ Busy(t) /\ Room(1)
  /\ Admit
  /\ turn' = [turn EXCEPT ![t] = [NoTurn EXCEPT !.pc = "post", !.kind = "post"]]
  /\ response' = [response EXCEPT ![t] = "none"]
  /\ UNCHANGED <<messages, rating, claimed>>

StorePosted(t) ==
  /\ turn[t].pc = "post"
  /\ Append1("user", "stored", 0, TRUE)
  /\ End(t)
  /\ UNCHANGED <<rating, claimed, response>>

(* POST with role assistant has no check, and its metadata are stored as they
   are sent: the client may say that its message was regenerated from another,
   or that it is claimed itself (an id that no message has says no more than
   that, nor does a claim besides a source: each keeps the message from being
   regenerated).  The metadata of a question (StorePosted) are never read. *)
PostAnswer ==
  /\ Room(1)
  /\ \/ /\ \E from \in {0} \cup DOMAIN messages : Append1("assistant", "stored", from, TRUE)
        /\ UNCHANGED claimed
     \/ /\ Append1("assistant", "stored", 0, TRUE)
        /\ claimed' = claimed \cup {Len(messages) + 1}
  /\ UNCHANGED <<rating, turn, response>>

(* upsertMessageFeedback; its counters are in UsageAggregates. *)
Rate(i, r) ==
  /\ IsAnswer(i)
  /\ rating' = [rating EXCEPT ![i] = r]
  /\ UNCHANGED <<messages, claimed, turn, response>>

-----------------------------------------------------------------------------
(* getAnswerRegenerationTarget.  Its query reads the rating when it starts and
   the message itself once it holds it FOR UPDATE. *)
Regenerate(t, i) ==
  /\ ~ Busy(t) /\ Room(1)
  /\ Stored(i)
  /\ turn' = [turn EXCEPT ![t] = [NoTurn EXCEPT !.pc = "claim", !.kind = "regenerate",
                                                !.source = i, !.seen = rating[i]]]
  /\ response' = [response EXCEPT ![t] = "none"]
  /\ UNCHANGED <<messages, rating, claimed>>

Regenerated(i) == \E j \in DOMAIN messages : IsAnswer(j) /\ messages[j].from = i

(* Mutant: whether the answer is claimed already is not looked at again. *)
ClaimableIfNotRegenerated(t) ==
  LET i == turn[t].source
  IN /\ IsAnswer(i)
     /\ turn[t].seen = "BAD"
     /\ messages[i].from = 0
     /\ ~ Regenerated(i)
     /\ PreviousQuestion(i) # 0

Claimable(t) ==
  LET i == turn[t].source
  IN /\ IsAnswer(i)
     /\ turn[t].seen = "BAD"
     /\ messages[i].from = 0 /\ i \notin claimed
     /\ ~ Regenerated(i)
     /\ PreviousQuestion(i) # 0

Claim(t) ==
  /\ turn[t].pc = "claim"
  /\ Claimable(t)
  /\ claimed' = claimed \cup {turn[t].source}
  /\ turn' = [turn EXCEPT ![t].pc = "history", ![t].question = PreviousQuestion(turn[t].source)]
  /\ Open(t)
  /\ UNCHANGED <<messages, rating>>

RefuseClaim(t) ==
  /\ turn[t].pc = "claim"
  /\ ~ Claimable(t)
  /\ End(t)
  /\ UNCHANGED <<messages, rating, claimed, response>>

-----------------------------------------------------------------------------
(* Mutant: historyBefore is ignored. *)
ReadWholeHistory(t) ==
  /\ turn[t].pc = "history"
  /\ turn' = [turn EXCEPT ![t].pc = IF turn[t].kind = "ask" THEN "question" ELSE "retrieve",
                          ![t].history = LargestOf({i \in DOMAIN messages : Stored(i)}, MaxQuestions)]
  /\ UNCHANGED <<messages, rating, claimed, response>>

(* handleStreamingResponse and processUserQuestionStream.  The history is the
   last messages, for a regeneration those before its question. *)
ReadHistory(t) ==
  LET before == IF turn[t].kind = "regenerate" THEN turn[t].question ELSE MaxMessages + 1
      past == {i \in DOMAIN messages : Stored(i) /\ i < before}
  IN /\ turn[t].pc = "history"
     /\ turn' = [turn EXCEPT ![t].pc = IF turn[t].kind = "ask" THEN "question" ELSE "retrieve",
                             ![t].history = LargestOf(past, MaxQuestions)]
     /\ UNCHANGED <<messages, rating, claimed, response>>

StoreQuestion(t) ==
  /\ turn[t].pc = "question"
  /\ Append1("user", "stored", 0, FALSE)
  /\ turn' = [turn EXCEPT ![t].pc = "retrieve", ![t].question = Len(messages) + 1]
  /\ UNCHANGED <<rating, claimed, response>>

(* The catalogue, the selection, the contents and the request to the model. *)
Generate(t) ==
  /\ turn[t].pc = "retrieve"
  /\ Goto(t, "stream")
  /\ UNCHANGED <<messages, rating, claimed, response>>

(* consumeAndForward resolves, with what the model said or with nothing. *)
StreamEnds(t) ==
  /\ turn[t].pc = "stream"
  /\ \E text \in BOOLEAN :
       turn' = [turn EXCEPT ![t].pc = IF text THEN "answer" ELSE "finish", ![t].text = text]
  /\ UNCHANGED <<messages, rating, claimed, response>>

(* createMessage: the answer's transaction begins ... *)
BeginSave(t) ==
  /\ turn[t].pc = "answer"
  /\ Append1("assistant", "pending", turn[t].source, FALSE)
  /\ turn' = [turn EXCEPT ![t].pc = "saving", ![t].answer = Len(messages) + 1]
  /\ UNCHANGED <<rating, claimed, response>>

(* ... and commits. *)
CommitSave(t) ==
  /\ turn[t].pc = "saving"
  /\ messages' = [messages EXCEPT ![turn[t].answer].state = "stored"]
  /\ Goto(t, "finish")
  /\ UNCHANGED <<rating, claimed, response>>

(* recordUsage, whose errors are only logged, writeResources and writeDone. *)
Finish(t) ==
  /\ turn[t].pc = "finish"
  /\ EndResponse(t, "done")
  /\ End(t)
  /\ UNCHANGED <<messages, rating, claimed>>

Undo(M, t) == IF turn[t].pc = "saving" THEN [M EXCEPT ![turn[t].answer].state = "undone"] ELSE M

(* Mutant: the stream's error is passed on and nobody ends the response. *)
FailSilently(t) ==
  /\ Busy(t) /\ turn[t].pc # "finish"
  /\ messages' = Undo(messages, t)
  /\ IF turn[t].pc = "stream" THEN UNCHANGED response ELSE EndResponse(t, "error")
  /\ End(t)
  /\ UNCHANGED <<rating, claimed>>

(* Mutant: an answer that could not be stored is only logged. *)
FailSaveLogged(t) ==
  /\ Busy(t) /\ turn[t].pc # "finish"
  /\ messages' = Undo(messages, t)
  /\ EndResponse(t, IF turn[t].pc = "saving" THEN "done" ELSE "error")
  /\ End(t)
  /\ UNCHANGED <<rating, claimed>>

(* A call fails.  The question and the claim stay; the answer is rolled back. *)
Fail(t) ==
  /\ Busy(t) /\ turn[t].pc # "finish"
  /\ messages' = Undo(messages, t)
  /\ EndResponse(t, "error")
  /\ End(t)
  /\ UNCHANGED <<rating, claimed>>

(* The reader leaves; the turn goes on. *)
Disconnect(t) ==
  /\ response[t] = "open"
  /\ response' = [response EXCEPT ![t] = "gone"]
  /\ UNCHANGED <<messages, rating, claimed, turn>>

(* Mutant: open transactions survive the server. *)
CrashKeepingAnswers ==
  /\ turn' = [t \in Turn |-> Over(t)]
  /\ response' = [t \in Turn |-> IF response[t] = "open" THEN "gone" ELSE response[t]]
  /\ UNCHANGED <<messages, rating, claimed>>

(* The server dies with all its turns. *)
Crash ==
  /\ \E t \in Turn : Busy(t)
  /\ turn' = [t \in Turn |-> Over(t)]
  /\ response' = [t \in Turn |-> IF response[t] = "open" THEN "gone" ELSE response[t]]
  /\ messages' = [i \in DOMAIN messages |->
                    IF messages[i].state = "pending" THEN [messages[i] EXCEPT !.state = "undone"]
                    ELSE messages[i]]
  /\ UNCHANGED <<rating, claimed>>

-----------------------------------------------------------------------------
TurnStep(t) ==
  \/ StorePosted(t) \/ Claim(t) \/ RefuseClaim(t) \/ ReadHistory(t) \/ StoreQuestion(t)
  \/ Generate(t) \/ StreamEnds(t) \/ BeginSave(t) \/ CommitSave(t) \/ Finish(t) \/ Fail(t)

Next ==
  \/ \E t \in Turn : \/ Ask(t) \/ Post(t) \/ TurnStep(t) \/ Disconnect(t)
                     \/ \E i \in DOMAIN messages : Regenerate(t, i)
  \/ \E i \in DOMAIN messages, r \in {"GOOD", "BAD"} : Rate(i, r)
  \/ PostAnswer
  \/ Crash

(* Every awaited call ends: callLLM and generateFinalResponseStream have a
   timeout, a statement of the database succeeds or fails, and a stream that has
   begun is assumed to end or to fail. *)
Fairness == \A t \in Turn : WF_vars(TurnStep(t))

Spec == Init /\ [][Next]_vars /\ Fairness

-----------------------------------------------------------------------------
(* Type correctness; the answers that are not yet committed are exactly those
   of the turns whose transaction is open (createMessage). *)
TypeOK ==
  /\ messages \in Seq(Message) /\ Len(messages) <= MaxMessages
  /\ rating \in [Index -> Rating]
  /\ claimed \in SUBSET DOMAIN messages
  /\ turn \in [Turn -> TurnRecord]
  /\ response \in [Turn -> {"none", "open", "done", "error", "gone"}]
  /\ \A i \in DOMAIN messages :
       messages[i].state = "pending" <=> \E t \in Turn : turn[t].pc = "saving" /\ turn[t].answer = i
  /\ \A t \in Turn : response[t] = "open" =>
       turn[t].pc \in {"history", "question", "retrieve", "stream", "answer", "saving", "finish"}

(* The turns that have passed the check and will store a question. *)
Admitted == {t \in Turn : \/ turn[t].pc = "post"
                          \/ turn[t].kind = "ask" /\ turn[t].pc \in {"history", "question"}}

(* How far the limit of a session holds: the check lets MaxQuestions + 1
   questions through one after the other, and one more for every other request
   in flight, because it counts before the question is stored. *)
QuestionsBounded ==
  Cardinality(Questions) + Cardinality(Admitted) <= MaxQuestions + Cardinality(Turn)

(* "Once": however many requests regenerate an answer at the same time, whatever
   clients say of the messages they post, and whatever fails in between, one of
   them at most gets to the model (getAnswerRegenerationTarget); an answer is
   regenerated only if it was rated and does not say it is a regeneration itself.
   A message that a client posts as one is not counted: the code stores any
   number of those. *)
RegeneratedOnce ==
  \A i \in DOMAIN messages :
    LET live == {t \in Turn : turn[t].kind = "regenerate" /\ turn[t].source = i
                              /\ turn[t].pc \notin {"idle", "claim", "finish"}}
        kept == {j \in DOMAIN messages : Stored(j) /\ messages[j].from = i /\ ~ messages[j].posted}
    IN /\ Cardinality(live) + Cardinality(kept) <= 1
       /\ live # {} \/ kept # {} =>
            messages[i].role = "assistant" /\ messages[i].from = 0 /\ rating[i] # "none"

(* A reader who was told [DONE] after an answer finds that answer in the
   history: the stream is completed only when the answer is stored. *)
DoneMeansStored ==
  \A t \in Turn : response[t] = "done" /\ turn[t].text => IsAnswer(turn[t].answer)

(* A turn's own question is not in the history sent along with it: neither a
   new one nor, for a regeneration, the one that is asked again. *)
HistoryBeforeQuestion ==
  \A t \in Turn : turn[t].question # 0 => \A i \in turn[t].history : i < turn[t].question

(* Every turn ends, and a reader who is still there is told so, whatever call
   failed on the way. *)
TurnsEnd ==
  \A t \in Turn : Busy(t) ~> (~ Busy(t) /\ response[t] # "open")

=============================================================================
