-------------------------- MODULE ChatSessionProofs --------------------------
(***************************************************************************)
(* The promises of a chat session, for any number of concurrent requests,   *)
(* any limit of questions and any length of the session.                    *)
(*                                                                         *)
(* That an answer is regenerated once rests on the claim: whoever is past it *)
(* has its answer in `claimed', so has every regeneration that the model     *)
(* wrote, and a claimed answer cannot be claimed again.  What clients say of *)
(* the messages they post can only claim more.  That [DONE] means stored   *)
(* rests on the turn: it comes to its end by the commit of its answer.       *)
(***************************************************************************)
EXTENDS ChatSession, FiniteSetTheorems, SequenceTheorems, WellFoundedInduction, TLAPS

Saving(t) == turn[t].pc = "saving"

(* A request that has claimed an answer and not yet stored another. *)
Live(t) == turn[t].kind = "regenerate" /\ turn[t].pc \notin {"idle", "claim", "finish"}

(* The bound on the messages holds because the turns in flight have room. *)
Reserved == Len(messages) + Cardinality(Storing) + Cardinality(StoringTwo) <= MaxMessages

(* What a turn knows at each of its steps. *)
Shape ==
  \A t \in Turn :
    /\ turn[t].kind # "regenerate" => turn[t].source = 0
    /\ turn[t].pc \notin {"idle", "post"} => turn[t].kind \in {"ask", "regenerate"}
    /\ turn[t].pc = "question" => turn[t].kind = "ask"
    /\ turn[t].kind = "ask" /\ turn[t].pc \in {"history", "question"} => turn[t].question = 0
    /\ turn[t].history \subseteq DOMAIN messages
    /\ response[t] \in {"done", "error"} => turn[t].pc = "idle"

(* A request that wants to claim, before it has. *)
Claiming ==
  \A t \in Turn : turn[t].pc = "claim" =>
    /\ turn[t].kind = "regenerate" /\ turn[t].source \in DOMAIN messages
    /\ turn[t].history = {} /\ turn[t].question = 0
    /\ turn[t].seen # "none" => rating[turn[t].source] # "none"

(* The open transactions and their answers. *)
OpenAnswers ==
  /\ \A t \in Turn : Saving(t) =>
       /\ turn[t].answer \in DOMAIN messages
       /\ messages[turn[t].answer].role = "assistant"
       /\ messages[turn[t].answer].from = turn[t].source
       /\ ~ messages[turn[t].answer].posted
  /\ \A t, u \in Turn : Saving(t) /\ Saving(u) /\ turn[t].answer = turn[u].answer => t = u

(* A turn that is about to say [DONE] has stored what it has said. *)
Finishing == \A t \in Turn : turn[t].pc = "finish" /\ turn[t].text => IsAnswer(turn[t].answer)

(* A claimed answer that may be regenerated: it was rated and does not say that
   it is a regeneration itself. *)
Proper(i) ==
  /\ i \in claimed
  /\ messages[i].role = "assistant" /\ messages[i].from = 0 /\ rating[i] # "none"

(* The model wrote message j when it regenerated message i. *)
Again(j, i) == messages[j].from = i /\ ~ messages[j].posted

(* The claim comes first, and there is one. *)
ClaimedFirst ==
  /\ \A t \in Turn : Live(t) => Proper(turn[t].source)
  /\ \A j \in DOMAIN messages : messages[j].from # 0 /\ ~ messages[j].posted => Proper(messages[j].from)

OneClaim ==
  /\ \A t, u \in Turn : Live(t) /\ Live(u) /\ turn[t].source = turn[u].source => t = u
  /\ \A t \in Turn, j \in DOMAIN messages :
       Live(t) /\ Again(j, turn[t].source) => messages[j].state # "stored"
  /\ \A i \in Index : \A j, k \in DOMAIN messages :
       /\ Again(j, i) /\ Again(k, i)
       /\ messages[j].state = "stored" /\ messages[k].state = "stored"
       => j = k

IInv ==
  /\ TypeOK /\ Reserved /\ Shape /\ Claiming /\ OpenAnswers /\ Finishing
  /\ ClaimedFirst /\ OneClaim
  /\ QuestionsBounded /\ DoneMeansStored /\ HistoryBeforeQuestion

-----------------------------------------------------------------------------
(* The messages of a session, as a sequence. *)
LEMMA Numbering ==
  ASSUME TypeOK
  PROVE  /\ Len(messages) \in Nat /\ DOMAIN messages = 1 .. Len(messages)
         /\ DOMAIN messages \subseteq Index
         /\ \A i \in DOMAIN messages : messages[i] \in Message
BY LimitsAssumption DEF TypeOK, Index

(* Appending a message. *)
LEMMA Appended ==
  ASSUME TypeOK, NEW role \in {"user", "assistant"}, NEW state \in {"pending", "stored", "undone"},
         NEW from \in Index \cup {0}, NEW posted \in BOOLEAN, Append1(role, state, from, posted)
  PROVE  /\ messages' \in Seq(Message)
         /\ Len(messages') = Len(messages) + 1
         /\ DOMAIN messages' = 1 .. Len(messages) + 1
         /\ \A i \in DOMAIN messages : messages'[i] = messages[i]
         /\ messages'[Len(messages) + 1] = [role |-> role, state |-> state, from |-> from, posted |-> posted]
         /\ Len(messages) + 1 \notin DOMAIN messages
<1> DEFINE m == [role |-> role, state |-> state, from |-> from, posted |-> posted]
<1>1. m \in Message
  BY DEF Message
<1>2. messages \in Seq(Message) /\ messages' = Append(messages, m)
  BY DEF TypeOK, Append1
<1> HIDE DEF m
<1>3. /\ messages' \in Seq(Message) /\ Len(messages') = Len(messages) + 1
      /\ \A i \in 1 .. Len(messages) : messages'[i] = messages[i]
      /\ messages'[Len(messages) + 1] = m
  BY <1>1, <1>2, AppendProperties
<1>4. DOMAIN messages' = 1 .. Len(messages) + 1
  BY <1>3
<1>5. DOMAIN messages = 1 .. Len(messages) /\ Len(messages) + 1 \notin DOMAIN messages
  BY Numbering
<1> QED BY <1>3, <1>4, <1>5 DEF m

(* Only the states of messages change. *)
Marked ==
  /\ messages' \in Seq(Message) /\ Len(messages') = Len(messages)
  /\ DOMAIN messages' = DOMAIN messages
  /\ \A i \in DOMAIN messages :
       /\ messages'[i].role = messages[i].role /\ messages'[i].from = messages[i].from
       /\ messages'[i].posted = messages[i].posted

(* The state of one message changes. *)
LEMMA Mark ==
  ASSUME TypeOK, NEW k \in DOMAIN messages, NEW state \in {"pending", "stored", "undone"},
         messages' = [messages EXCEPT ![k].state = state]
  PROVE  /\ Marked
         /\ messages'[k].state = state
         /\ \A i \in DOMAIN messages \ {k} : messages'[i] = messages[i]
<1>1. messages \in [1 .. Len(messages) -> Message] /\ Len(messages) \in Nat
  BY DEF TypeOK
<1>2. messages' \in [1 .. Len(messages) -> Message]
  BY <1>1 DEF Message
<1>3. messages' \in Seq(Message) /\ Len(messages') = Len(messages)
  BY <1>1, <1>2
<1> QED BY <1>1, <1>2, <1>3 DEF Marked, Message

(* A crash undoes every open answer. *)
LEMMA MarkAll ==
  ASSUME TypeOK,
         messages' = [i \in DOMAIN messages |->
                        IF messages[i].state = "pending" THEN [messages[i] EXCEPT !.state = "undone"]
                        ELSE messages[i]]
  PROVE  /\ Marked
         /\ \A i \in DOMAIN messages :
              messages'[i].state = IF messages[i].state = "pending" THEN "undone" ELSE messages[i].state
<1>1. messages \in [1 .. Len(messages) -> Message] /\ Len(messages) \in Nat
  BY DEF TypeOK
<1>2. messages' \in [1 .. Len(messages) -> Message]
  BY <1>1 DEF Message
<1>3. messages' \in Seq(Message) /\ Len(messages') = Len(messages)
  BY <1>1, <1>2
<1> QED BY <1>1, <1>2, <1>3 DEF Marked, Message

(* The largest of a set of indices exists. *)
LEMMA LargestIndex ==
  ASSUME NEW T \in SUBSET Index, T # {}
  PROVE  \E t \in T : \A o \in T : o <= t
<1> DEFINE R == {ss \in Nat \X Nat : ss[1] < ss[2]}
           U == {MaxMessages - t : t \in T}
<1>1. IsWellFoundedOn(R, Nat)
  BY NatLessThanWellFounded DEF OpToRel
<1>2. U \subseteq Nat /\ U # {}
  <2>1. \A t \in T : MaxMessages - t \in Nat
    BY LimitsAssumption DEF Index
  <2> QED BY <2>1
<1>3. \E u \in U : \A v \in U : ~ (<<v, u>> \in R)
  <2> HIDE DEF U, R
  <2> QED BY <1>1, <1>2, WFMin
<1>4. PICK u \in U : \A v \in U : ~ (v < u)
  BY <1>2, <1>3
<1>5. PICK t \in T : u = MaxMessages - t
  OBVIOUS
<1>6. \A o \in T : ~ (MaxMessages - o < MaxMessages - t)
  BY <1>4, <1>5
<1> QED BY <1>6, LimitsAssumption DEF Index

(* The question before an answer is a message, if there is one. *)
LEMMA PreviousQuestionIsOne ==
  ASSUME TypeOK, NEW i, PreviousQuestion(i) # 0
  PROVE  PreviousQuestion(i) \in Index
<1> DEFINE before == {q \in Questions : q < i}
<1>1. before \in SUBSET Index /\ before # {}
  BY Numbering DEF Questions, PreviousQuestion
<1>2. \E q \in before : \A p \in before : p <= q
  <2> HIDE DEF before
  <2> QED BY <1>1, LargestIndex
<1>3. PreviousQuestion(i) = CHOOSE q \in before : \A p \in before : p <= q
  BY <1>1 DEF PreviousQuestion
<1> HIDE DEF before
<1> QED BY <1>1, <1>2, <1>3

-----------------------------------------------------------------------------
(* Sets that a step makes smaller, or larger by one element. *)
LEMMA Fewer ==
  ASSUME NEW S, IsFiniteSet(S), NEW T, T \subseteq S
  PROVE  IsFiniteSet(T) /\ Cardinality(T) \in Nat /\ Cardinality(S) \in Nat
         /\ Cardinality(T) <= Cardinality(S)
BY FS_Subset, FS_CardinalityType

(* Less one element. *)
LEMMA OneFewer ==
  ASSUME NEW S, IsFiniteSet(S), NEW x \in S, NEW T, T \subseteq S \ {x}
  PROVE  Cardinality(T) \in Nat /\ Cardinality(S) \in Nat
         /\ Cardinality(T) + 1 <= Cardinality(S)
<1>1. IsFiniteSet(S \ {x}) /\ Cardinality(S \ {x}) = Cardinality(S) - 1
  BY FS_RemoveElement
<1>2. Cardinality(T) \in Nat /\ Cardinality(T) <= Cardinality(S \ {x})
  BY <1>1, FS_Subset, FS_CardinalityType
<1>3. Cardinality(S) \in Nat
  BY FS_CardinalityType
<1> QED BY <1>1, <1>2, <1>3

(* One element more. *)
LEMMA OneMore ==
  ASSUME NEW S, IsFiniteSet(S), NEW x, NEW T, T \subseteq S \cup {x}
  PROVE  Cardinality(T) \in Nat /\ Cardinality(S) \in Nat
         /\ Cardinality(T) <= Cardinality(S) + 1
<1>1. IsFiniteSet(S \cup {x}) /\ Cardinality(S \cup {x}) <= Cardinality(S) + 1
  <2>1. Cardinality(S) \in Nat
    BY FS_CardinalityType
  <2>2. CASE x \in S
    <3>1. S \cup {x} = S
      BY <2>2
    <3> QED BY <2>1, <3>1
  <2>3. CASE x \notin S
    <3>1. Cardinality(S \cup {x}) = Cardinality(S) + 1
      BY <2>3, FS_AddElement
    <3>2. IsFiniteSet(S \cup {x})
      BY FS_AddElement
    <3> QED BY <2>1, <3>1, <3>2
  <2> QED BY <2>2, <2>3
<1>2. Cardinality(T) \in Nat /\ Cardinality(T) <= Cardinality(S \cup {x})
      /\ Cardinality(S \cup {x}) \in Nat
  BY <1>1, FS_Subset, FS_CardinalityType
<1>3. Cardinality(S) \in Nat
  BY FS_CardinalityType
<1> QED BY <1>1, <1>2, <1>3

(* A set whose elements are all the same. *)
LEMMA AtMostOne ==
  ASSUME NEW S, \A x, y \in S : x = y
  PROVE  Cardinality(S) \in {0, 1} /\ (S = {} => Cardinality(S) = 0)
<1>1. CASE S = {}
  BY <1>1, FS_EmptySet
<1>2. CASE S # {}
  <2>1. PICK x \in S : TRUE
    BY <1>2
  <2>2. S = {x}
    BY <2>1
  <2> QED BY <1>2, <2>2, FS_Singleton
<1> QED BY <1>1, <1>2

(* The sets that are counted. *)
LEMMA Counted ==
  ASSUME TypeOK
  PROVE  /\ IsFiniteSet(Storing) /\ IsFiniteSet(StoringTwo) /\ IsFiniteSet(Admitted)
         /\ IsFiniteSet(Questions)
         /\ Cardinality(Storing) \in Nat /\ Cardinality(StoringTwo) \in Nat
         /\ Cardinality(Admitted) \in Nat /\ Cardinality(Questions) \in Nat
         /\ Cardinality(Turn) \in Nat
<1>1. IsFiniteSet(Storing) /\ IsFiniteSet(StoringTwo) /\ IsFiniteSet(Admitted)
  <2>1. Storing \subseteq Turn /\ StoringTwo \subseteq Turn /\ Admitted \subseteq Turn
    BY DEF Storing, StoringTwo, Admitted
  <2> QED BY <2>1, TurnAssumption, FS_Subset
<1>2. IsFiniteSet(Questions)
  <2>1. IsFiniteSet(1 .. Len(messages))
    BY Numbering, FS_Interval
  <2>2. Questions \subseteq 1 .. Len(messages)
    BY Numbering DEF Questions
  <2> QED BY <2>1, <2>2, FS_Subset
<1> QED BY <1>1, <1>2, TurnAssumption, FS_CardinalityType

(* A turn that may store a message has a number for it. *)
LEMMA NextNumber ==
  ASSUME TypeOK, Reserved, NEW t \in Storing
  PROVE  Len(messages) + 1 \in Index
<1>1. Cardinality({}) + 1 <= Cardinality(Storing)
  BY Counted, OneFewer
<1>2. Cardinality({}) = 0
  BY FS_EmptySet
<1> QED BY <1>1, <1>2, Counted, Numbering, LimitsAssumption DEF Reserved, Index

-----------------------------------------------------------------------------
(* The bound and the count of questions, for a step that stores nothing ... *)
LEMMA NothingStored ==
  ASSUME TypeOK, Reserved, QuestionsBounded, Len(messages') = Len(messages),
         Storing' \subseteq Storing, StoringTwo' \subseteq StoringTwo,
         Admitted' \subseteq Admitted, Questions' \subseteq Questions
  PROVE  Reserved' /\ QuestionsBounded'
<1>1. Reserved'
  <2>1. Cardinality(Storing') \in Nat /\ Cardinality(Storing') <= Cardinality(Storing)
    BY Counted, Fewer
  <2>2. Cardinality(StoringTwo') \in Nat /\ Cardinality(StoringTwo') <= Cardinality(StoringTwo)
    BY Counted, Fewer
  <2>3. /\ Len(messages) \in Nat /\ MaxMessages \in Nat
        /\ Cardinality(Storing) \in Nat /\ Cardinality(StoringTwo) \in Nat
    BY Counted, Numbering, LimitsAssumption
  <2> QED BY <2>1, <2>2, <2>3 DEF Reserved
<1>2. QuestionsBounded'
  <2>1. Cardinality(Admitted') \in Nat /\ Cardinality(Admitted') <= Cardinality(Admitted)
    BY Counted, Fewer
  <2>2. Cardinality(Questions') \in Nat /\ Cardinality(Questions') <= Cardinality(Questions)
    BY Counted, Fewer
  <2>3. /\ Cardinality(Admitted) \in Nat /\ Cardinality(Questions) \in Nat
        /\ Cardinality(Turn) \in Nat /\ MaxQuestions \in Nat
    BY Counted, LimitsAssumption
  <2> QED BY <2>1, <2>2, <2>3 DEF QuestionsBounded
<1> QED BY <1>1, <1>2

(* ... for one that stores an answer ... *)
LEMMA AnswerStored ==
  ASSUME TypeOK, Reserved, QuestionsBounded, Len(messages') = Len(messages) + 1,
         NEW t \in Storing, Storing' \subseteq Storing \ {t}, StoringTwo' \subseteq StoringTwo,
         Admitted' \subseteq Admitted, Questions' \subseteq Questions
  PROVE  Reserved' /\ QuestionsBounded'
<1>1. Reserved'
  <2>1. Cardinality(Storing') \in Nat /\ Cardinality(Storing') + 1 <= Cardinality(Storing)
    BY Counted, OneFewer
  <2>2. Cardinality(StoringTwo') \in Nat /\ Cardinality(StoringTwo') <= Cardinality(StoringTwo)
    BY Counted, Fewer
  <2>3. /\ Len(messages) \in Nat /\ MaxMessages \in Nat
        /\ Cardinality(Storing) \in Nat /\ Cardinality(StoringTwo) \in Nat
    BY Counted, Numbering, LimitsAssumption
  <2> QED BY <2>1, <2>2, <2>3 DEF Reserved
<1>2. QuestionsBounded'
  <2>1. Cardinality(Admitted') \in Nat /\ Cardinality(Admitted') <= Cardinality(Admitted)
    BY Counted, Fewer
  <2>2. Cardinality(Questions') \in Nat /\ Cardinality(Questions') <= Cardinality(Questions)
    BY Counted, Fewer
  <2>3. /\ Cardinality(Admitted) \in Nat /\ Cardinality(Questions) \in Nat
        /\ Cardinality(Turn) \in Nat /\ MaxQuestions \in Nat
    BY Counted, LimitsAssumption
  <2> QED BY <2>1, <2>2, <2>3 DEF QuestionsBounded
<1> QED BY <1>1, <1>2

(* ... and for one that stores the question it was admitted for. *)
LEMMA QuestionStored ==
  ASSUME TypeOK, Reserved, QuestionsBounded, Len(messages') = Len(messages) + 1,
         NEW t \in Admitted, Admitted' \subseteq Admitted \ {t},
         Questions' \subseteq Questions \cup {Len(messages) + 1},
         \/ t \in Storing /\ Storing' \subseteq Storing \ {t} /\ StoringTwo' \subseteq StoringTwo
         \/ t \in StoringTwo /\ Storing' \subseteq Storing /\ StoringTwo' \subseteq StoringTwo \ {t}
  PROVE  Reserved' /\ QuestionsBounded'
<1>1. Reserved'
  <2>1. /\ Len(messages) \in Nat /\ MaxMessages \in Nat
        /\ Cardinality(Storing) \in Nat /\ Cardinality(StoringTwo) \in Nat
    BY Counted, Numbering, LimitsAssumption
  <2>2. CASE t \in Storing /\ Storing' \subseteq Storing \ {t} /\ StoringTwo' \subseteq StoringTwo
    <3>1. Cardinality(Storing') \in Nat /\ Cardinality(Storing') + 1 <= Cardinality(Storing)
      BY <2>2, Counted, OneFewer
    <3>2. Cardinality(StoringTwo') \in Nat /\ Cardinality(StoringTwo') <= Cardinality(StoringTwo)
      BY <2>2, Counted, Fewer
    <3> QED BY <2>1, <3>1, <3>2 DEF Reserved
  <2>3. CASE t \in StoringTwo /\ Storing' \subseteq Storing /\ StoringTwo' \subseteq StoringTwo \ {t}
    <3>1. Cardinality(StoringTwo') \in Nat /\ Cardinality(StoringTwo') + 1 <= Cardinality(StoringTwo)
      BY <2>3, Counted, OneFewer
    <3>2. Cardinality(Storing') \in Nat /\ Cardinality(Storing') <= Cardinality(Storing)
      BY <2>3, Counted, Fewer
    <3> QED BY <2>1, <3>1, <3>2 DEF Reserved
  <2> QED BY <2>2, <2>3
<1>2. QuestionsBounded'
  <2>1. Cardinality(Admitted') \in Nat /\ Cardinality(Admitted') + 1 <= Cardinality(Admitted)
    BY Counted, OneFewer
  <2>2. Cardinality(Questions') \in Nat /\ Cardinality(Questions') <= Cardinality(Questions) + 1
    BY Counted, OneMore
  <2>3. /\ Cardinality(Admitted) \in Nat /\ Cardinality(Questions) \in Nat
        /\ Cardinality(Turn) \in Nat /\ MaxQuestions \in Nat
    BY Counted, LimitsAssumption
  <2> QED BY <2>1, <2>2, <2>3 DEF QuestionsBounded
<1> QED BY <1>1, <1>2

-----------------------------------------------------------------------------
(* Room is made before a turn begins. *)
LEMMA RoomForOne ==
  ASSUME TypeOK, Room(1), NEW t, Len(messages') = Len(messages),
         Storing' \subseteq Storing \cup {t}, StoringTwo' \subseteq StoringTwo
  PROVE  Reserved'
<1>1. Cardinality(Storing') \in Nat /\ Cardinality(Storing') <= Cardinality(Storing) + 1
  BY Counted, OneMore
<1>2. Cardinality(StoringTwo') \in Nat /\ Cardinality(StoringTwo') <= Cardinality(StoringTwo)
  BY Counted, Fewer
<1>3. /\ Len(messages) \in Nat /\ MaxMessages \in Nat
      /\ Cardinality(Storing) \in Nat /\ Cardinality(StoringTwo) \in Nat
  BY Counted, Numbering, LimitsAssumption
<1> QED BY <1>1, <1>2, <1>3 DEF Reserved, Room

(* Room for a question and its answer. *)
LEMMA RoomForTwo ==
  ASSUME TypeOK, Room(2), NEW t, Len(messages') = Len(messages),
         Storing' \subseteq Storing \cup {t}, StoringTwo' \subseteq StoringTwo \cup {t}
  PROVE  Reserved'
<1>1. Cardinality(Storing') \in Nat /\ Cardinality(Storing') <= Cardinality(Storing) + 1
  BY Counted, OneMore
<1>2. Cardinality(StoringTwo') \in Nat /\ Cardinality(StoringTwo') <= Cardinality(StoringTwo) + 1
  BY Counted, OneMore
<1>3. /\ Len(messages) \in Nat /\ MaxMessages \in Nat
      /\ Cardinality(Storing) \in Nat /\ Cardinality(StoringTwo) \in Nat
  BY Counted, Numbering, LimitsAssumption
<1> QED BY <1>1, <1>2, <1>3 DEF Reserved, Room

(* Whoever passes the check raises the number of questions by itself at most. *)
LEMMA QuestionAdmitted ==
  ASSUME TypeOK, Admit, Questions' = Questions
  PROVE  QuestionsBounded'
<1>1. Admitted' \subseteq Turn
  BY DEF Admitted
<1>2. Cardinality(Admitted') \in Nat /\ Cardinality(Admitted') <= Cardinality(Turn)
  BY <1>1, TurnAssumption, Fewer
<1>3. Cardinality(Turn) \in Nat /\ Cardinality(Questions) \in Nat /\ MaxQuestions \in Nat
  BY Counted, LimitsAssumption
<1>4. Cardinality(Questions') = Cardinality(Questions)
  OBVIOUS
<1> QED BY <1>2, <1>3, <1>4 DEF QuestionsBounded, Admit

-----------------------------------------------------------------------------
(* A step of one request: the others are as they were. *)
Alone(t) ==
  /\ turn' \in [Turn -> TurnRecord]
  /\ response' \in [Turn -> {"none", "open", "done", "error", "gone"}]
  /\ \A u \in Turn \ {t} : turn'[u] = turn[u] /\ response'[u] = response[u]

(* What is remembered of a request that is over. *)
Rested(t) ==
  /\ turn'[t].pc = "idle" /\ turn'[t].kind = "none" /\ turn'[t].question = 0
  /\ turn'[t].source = 0 /\ turn'[t].history = {}
  /\ turn'[t].text = turn[t].text /\ turn'[t].answer = turn[t].answer

(* A request ends: End keeps what Rested says. *)
LEMMA Ended ==
  ASSUME TypeOK, NEW t \in Turn, End(t)
  PROVE  /\ turn' \in [Turn -> TurnRecord] /\ Rested(t)
         /\ \A u \in Turn \ {t} : turn'[u] = turn[u]
<1>1. turn \in [Turn -> TurnRecord] /\ turn[t].text \in BOOLEAN /\ turn[t].answer \in Index \cup {0}
  BY DEF TypeOK, TurnRecord
<1>2. /\ Over(t).pc = "idle" /\ Over(t).kind = "none" /\ Over(t).question = 0
      /\ Over(t).source = 0 /\ Over(t).history = {}
      /\ Over(t).text = turn[t].text /\ Over(t).answer = turn[t].answer
  BY <1>1 DEF Over, NoTurn
<1>3. Over(t) \in TurnRecord
  BY <1>1 DEF Over, NoTurn, TurnRecord, Pc, Rating
<1>4. turn'[t] = Over(t) /\ turn' \in [Turn -> TurnRecord] /\ \A u \in Turn \ {t} : turn'[u] = turn[u]
  BY <1>1, <1>3 DEF End
<1> QED BY <1>2, <1>4 DEF Rested

(* A request goes on to its next step. *)
LEMMA MovedTo ==
  ASSUME turn \in [Turn -> TurnRecord], NEW t \in Turn, NEW p \in Pc, turn' = [turn EXCEPT ![t].pc = p]
  PROVE  /\ turn' \in [Turn -> TurnRecord] /\ turn'[t].pc = p
         /\ turn'[t].kind = turn[t].kind /\ turn'[t].source = turn[t].source
         /\ turn'[t].seen = turn[t].seen /\ turn'[t].question = turn[t].question
         /\ turn'[t].history = turn[t].history /\ turn'[t].text = turn[t].text
         /\ turn'[t].answer = turn[t].answer
         /\ \A u \in Turn \ {t} : turn'[u] = turn[u]
<1> DEFINE next == [turn[t] EXCEPT !.pc = p]
<1>1. turn[t] \in TurnRecord
  OBVIOUS
<1>2. next \in TurnRecord
  BY <1>1 DEF TurnRecord
<1>3. /\ next.pc = p /\ next.kind = turn[t].kind /\ next.source = turn[t].source
      /\ next.seen = turn[t].seen /\ next.question = turn[t].question
      /\ next.history = turn[t].history /\ next.text = turn[t].text /\ next.answer = turn[t].answer
  BY <1>1 DEF TurnRecord
<1>4. turn' = [turn EXCEPT ![t] = next]
  OBVIOUS
<1> HIDE DEF next
<1> QED BY <1>2, <1>3, <1>4

(* The end of a response. *)
LEMMA Responded ==
  ASSUME TypeOK, NEW t \in Turn, NEW how \in {"done", "error"}, EndResponse(t, how)
  PROVE  /\ response' \in [Turn -> {"none", "open", "done", "error", "gone"}]
         /\ response'[t] = IF response[t] = "open" THEN how ELSE response[t]
         /\ \A u \in Turn \ {t} : response'[u] = response[u]
BY DEF TypeOK, EndResponse

(* A message more. *)
Grown(role, state, from, posted) ==
  /\ messages' \in Seq(Message) /\ Len(messages') = Len(messages) + 1
  /\ DOMAIN messages' = DOMAIN messages \cup {Len(messages) + 1}
  /\ Len(messages) + 1 \notin DOMAIN messages
  /\ \A i \in DOMAIN messages : messages'[i] = messages[i]
  /\ messages'[Len(messages) + 1].role = role /\ messages'[Len(messages) + 1].state = state
  /\ messages'[Len(messages) + 1].from = from /\ messages'[Len(messages) + 1].posted = posted

(* Append1 is such a step. *)
LEMMA GrownBy ==
  ASSUME TypeOK, NEW role \in {"user", "assistant"}, NEW state \in {"pending", "stored", "undone"},
         NEW from \in Index \cup {0}, NEW posted \in BOOLEAN, Append1(role, state, from, posted)
  PROVE  Grown(role, state, from, posted)
<1>1. /\ messages' \in Seq(Message) /\ Len(messages') = Len(messages) + 1
      /\ DOMAIN messages' = 1 .. Len(messages) + 1
      /\ \A i \in DOMAIN messages : messages'[i] = messages[i]
      /\ messages'[Len(messages) + 1] = [role |-> role, state |-> state, from |-> from, posted |-> posted]
      /\ Len(messages) + 1 \notin DOMAIN messages
  BY Appended
<1>2. DOMAIN messages' = DOMAIN messages \cup {Len(messages) + 1}
  BY <1>1, Numbering
<1>3. /\ messages'[Len(messages) + 1].role = role /\ messages'[Len(messages) + 1].state = state
      /\ messages'[Len(messages) + 1].from = from /\ messages'[Len(messages) + 1].posted = posted
  BY <1>1
<1> QED BY <1>1, <1>2, <1>3 DEF Grown

(* What a message more leaves of the types ... *)
LEMMA GrownTypes ==
  ASSUME TypeOK, NEW role, NEW state, NEW from, NEW posted, Grown(role, state, from, posted),
         Len(messages) + 1 \in Index, rating' = rating, claimed' \subseteq claimed \cup {Len(messages) + 1}
  PROVE  /\ messages' \in Seq(Message) /\ Len(messages') <= MaxMessages
         /\ rating' \in [Index -> Rating] /\ claimed' \in SUBSET DOMAIN messages'
<1>1. Len(messages) + 1 <= MaxMessages
  BY LimitsAssumption DEF Index
<1> QED BY <1>1 DEF TypeOK, Grown

(* ... of the open transactions, if the message is stored at once ... *)
LEMMA GrownOpen ==
  ASSUME TypeOK, OpenAnswers, NEW role, NEW from, NEW posted, Grown(role, "stored", from, posted),
         \A u \in Turn : /\ turn'[u].pc = "saving" <=> turn[u].pc = "saving"
                         /\ turn[u].pc = "saving" => turn'[u].answer = turn[u].answer
  PROVE  \A i \in DOMAIN messages' :
           messages'[i].state = "pending" <=> \E u \in Turn : turn'[u].pc = "saving" /\ turn'[u].answer = i
<1>1. \A u \in Turn : turn[u].pc = "saving" => turn[u].answer \in DOMAIN messages
  BY DEF OpenAnswers, Saving
<1>2. ASSUME NEW i \in DOMAIN messages
      PROVE  messages'[i].state = "pending" <=> \E u \in Turn : turn'[u].pc = "saving" /\ turn'[u].answer = i
  <2>1. messages'[i] = messages[i]
    BY DEF Grown
  <2>2. messages[i].state = "pending" <=> \E u \in Turn : turn[u].pc = "saving" /\ turn[u].answer = i
    BY DEF TypeOK
  <2> QED BY <2>1, <2>2
<1>3. /\ messages'[Len(messages) + 1].state # "pending"
      /\ ~ \E u \in Turn : turn'[u].pc = "saving" /\ turn'[u].answer = Len(messages) + 1
  BY <1>1 DEF Grown
<1>4. DOMAIN messages' = DOMAIN messages \cup {Len(messages) + 1}
  BY DEF Grown
<1> QED BY <1>2, <1>3, <1>4

(* ... and of the claims: nobody gets past the claim with it, and it is posted,
   or regenerates what is claimed and is not yet stored, or nothing. *)
LEMMA GrownClaims ==
  ASSUME TypeOK, ClaimedFirst, OneClaim,
         NEW role, NEW state, NEW from, NEW posted, Grown(role, state, from, posted),
         rating' = rating, claimed \subseteq claimed',
         ~ posted /\ from # 0 => Proper(from) /\ state # "stored",
         \A u \in Turn : Live(u)' => Live(u) /\ turn'[u].source = turn[u].source
  PROVE  ClaimedFirst' /\ OneClaim'
<1> DEFINE new == Len(messages) + 1
<1>1. /\ DOMAIN messages' = DOMAIN messages \cup {new} /\ new \notin DOMAIN messages
      /\ \A i \in DOMAIN messages : messages'[i] = messages[i]
      /\ messages'[new].state = state /\ messages'[new].from = from /\ messages'[new].posted = posted
  BY DEF Grown
<1>2. claimed \subseteq DOMAIN messages /\ (\A i \in DOMAIN messages : i # 0) /\ 0 \notin Index
  BY Numbering DEF TypeOK, Index
<1> HIDE DEF new
<1>3. \A i : Proper(i) => Proper(i)'
  BY <1>1, <1>2 DEF Proper
<1>4. \A i, j : i # 0 /\ j \in DOMAIN messages' /\ Again(j, i)' /\ messages'[j].state = "stored"
                => j \in DOMAIN messages /\ Again(j, i) /\ messages[j].state = "stored"
  BY <1>1 DEF Again
<1>5. ClaimedFirst'
  <2>1. ASSUME NEW t \in Turn, Live(t)'
        PROVE  Proper(turn[t].source)'
    <3>1. PICK i : i = turn'[t].source /\ Proper(i)
      BY <2>1 DEF ClaimedFirst
    <3> QED BY <1>3, <3>1 DEF Proper
  <2>2. ASSUME NEW j \in DOMAIN messages', messages'[j].from # 0, ~ messages'[j].posted
        PROVE  Proper(messages[j].from)'
    <3>1. PICK i : i = messages'[j].from /\ Proper(i)
      BY <1>1, <2>2 DEF ClaimedFirst
    <3> QED BY <1>3, <3>1 DEF Proper
  <2> QED BY <2>1, <2>2 DEF ClaimedFirst
<1>6. OneClaim'
  <2>1. \A t, u \in Turn : Live(t)' /\ Live(u)' /\ turn'[t].source = turn'[u].source => t = u
    BY DEF OneClaim
  <2>2. ASSUME NEW t \in Turn, NEW j \in DOMAIN messages', Live(t)', Again(j, turn[t].source)'
        PROVE  messages'[j].state # "stored"
    <3>1. Live(t) /\ turn'[t].source = turn[t].source /\ turn[t].source # 0
      BY <1>2, <2>2 DEF ClaimedFirst, Proper
    <3> QED BY <1>4, <2>2, <3>1 DEF OneClaim
  <2>3. ASSUME NEW i \in Index, NEW j \in DOMAIN messages', NEW k \in DOMAIN messages',
               Again(j, i)', Again(k, i)',
               messages'[j].state = "stored", messages'[k].state = "stored"
        PROVE  j = k
    BY <1>2, <1>4, <2>3 DEF OneClaim
  <2> QED BY <2>1, <2>2, <2>3 DEF OneClaim
<1> QED BY <1>5, <1>6

-----------------------------------------------------------------------------
(* The request begins to ask. *)
LEMMA AskKeeps ==
  ASSUME IInv, NEW t \in Turn, Ask(t)
  PROVE  IInv'
<1>1. TypeOK /\ Reserved /\ Shape /\ Claiming /\ OpenAnswers /\ Finishing /\ ClaimedFirst
      /\ OneClaim /\ QuestionsBounded /\ DoneMeansStored /\ HistoryBeforeQuestion
  BY DEF IInv
<1>2. /\ turn[t].pc = "idle" /\ Room(2) /\ Admit
      /\ messages' = messages /\ rating' = rating /\ claimed' = claimed
  BY DEF Ask, Busy
<1>3. /\ Alone(t) /\ response'[t] = "open"
      /\ turn'[t].pc = "history" /\ turn'[t].kind = "ask" /\ turn'[t].question = 0
      /\ turn'[t].source = 0 /\ turn'[t].history = {}
  <2>1. [NoTurn EXCEPT !.pc = "history", !.kind = "ask"] \in TurnRecord
    BY DEF NoTurn, TurnRecord, Pc, Rating
  <2>2. /\ turn' \in [Turn -> TurnRecord] /\ turn'[t] = [NoTurn EXCEPT !.pc = "history", !.kind = "ask"]
        /\ \A u \in Turn \ {t} : turn'[u] = turn[u]
    BY <1>1, <2>1 DEF Ask, TypeOK
  <2>3. /\ response' \in [Turn -> {"none", "open", "done", "error", "gone"}] /\ response'[t] = "open"
        /\ \A u \in Turn \ {t} : response'[u] = response[u]
    BY <1>1 DEF Ask, Open, TypeOK
  <2> QED BY <2>2, <2>3 DEF NoTurn, Alone
<1>4. TypeOK'
  BY <1>1, <1>2, <1>3 DEF TypeOK, Alone
<1>5. Reserved' /\ QuestionsBounded'
  <2>1. /\ Storing' \subseteq Storing \cup {t} /\ StoringTwo' \subseteq StoringTwo \cup {t}
        /\ Questions' = Questions
    BY <1>2, <1>3 DEF Storing, StoringTwo, Questions, Stored, Alone
  <2> QED BY <1>1, <1>2, <2>1, RoomForTwo, QuestionAdmitted
<1>6. Shape'
  BY <1>1, <1>2, <1>3 DEF Shape, Alone
<1>7. Claiming'
  BY <1>1, <1>2, <1>3 DEF Claiming, Alone
<1>8. OpenAnswers'
  BY <1>1, <1>2, <1>3 DEF OpenAnswers, Saving, Alone
<1>9. Finishing' /\ DoneMeansStored'
  BY <1>1, <1>2, <1>3 DEF Finishing, DoneMeansStored, IsAnswer, Stored, Alone
<1>10. ClaimedFirst' /\ OneClaim'
  BY <1>1, <1>2, <1>3 DEF ClaimedFirst, OneClaim, Proper, Again, Live, Alone
<1>11. HistoryBeforeQuestion'
  BY <1>1, <1>2, <1>3 DEF HistoryBeforeQuestion, Alone
<1> QED BY <1>4, <1>5, <1>6, <1>7, <1>8, <1>9, <1>10, <1>11 DEF IInv

(* The request begins to store a question and no more. *)
LEMMA PostKeeps ==
  ASSUME IInv, NEW t \in Turn, Post(t)
  PROVE  IInv'
<1>1. TypeOK /\ Reserved /\ Shape /\ Claiming /\ OpenAnswers /\ Finishing /\ ClaimedFirst
      /\ OneClaim /\ QuestionsBounded /\ DoneMeansStored /\ HistoryBeforeQuestion
  BY DEF IInv
<1>2. /\ turn[t].pc = "idle" /\ Room(1) /\ Admit
      /\ messages' = messages /\ rating' = rating /\ claimed' = claimed
  BY DEF Post, Busy
<1>3. /\ Alone(t) /\ response'[t] = "none"
      /\ turn'[t].pc = "post" /\ turn'[t].kind = "post" /\ turn'[t].question = 0
      /\ turn'[t].source = 0 /\ turn'[t].history = {}
  <2>1. [NoTurn EXCEPT !.pc = "post", !.kind = "post"] \in TurnRecord
    BY DEF NoTurn, TurnRecord, Pc, Rating
  <2>2. /\ turn' \in [Turn -> TurnRecord] /\ turn'[t] = [NoTurn EXCEPT !.pc = "post", !.kind = "post"]
        /\ \A u \in Turn \ {t} : turn'[u] = turn[u]
    BY <1>1, <2>1 DEF Post, TypeOK
  <2>3. /\ response' \in [Turn -> {"none", "open", "done", "error", "gone"}] /\ response'[t] = "none"
        /\ \A u \in Turn \ {t} : response'[u] = response[u]
    BY <1>1 DEF Post, TypeOK
  <2> QED BY <2>2, <2>3 DEF NoTurn, Alone
<1>4. TypeOK'
  BY <1>1, <1>2, <1>3 DEF TypeOK, Alone
<1>5. Reserved' /\ QuestionsBounded'
  <2>1. /\ Storing' \subseteq Storing \cup {t} /\ StoringTwo' \subseteq StoringTwo
        /\ Questions' = Questions
    BY <1>2, <1>3 DEF Storing, StoringTwo, Questions, Stored, Alone
  <2> QED BY <1>1, <1>2, <2>1, RoomForOne, QuestionAdmitted
<1>6. Shape'
  BY <1>1, <1>2, <1>3 DEF Shape, Alone
<1>7. Claiming'
  BY <1>1, <1>2, <1>3 DEF Claiming, Alone
<1>8. OpenAnswers'
  BY <1>1, <1>2, <1>3 DEF OpenAnswers, Saving, Alone
<1>9. Finishing' /\ DoneMeansStored'
  BY <1>1, <1>2, <1>3 DEF Finishing, DoneMeansStored, IsAnswer, Stored, Alone
<1>10. ClaimedFirst' /\ OneClaim'
  BY <1>1, <1>2, <1>3 DEF ClaimedFirst, OneClaim, Proper, Again, Live, Alone
<1>11. HistoryBeforeQuestion'
  BY <1>1, <1>2, <1>3 DEF HistoryBeforeQuestion, Alone
<1> QED BY <1>4, <1>5, <1>6, <1>7, <1>8, <1>9, <1>10, <1>11 DEF IInv

(* The request asks for another answer: it has yet to claim it. *)
LEMMA RegenerateKeeps ==
  ASSUME IInv, NEW t \in Turn, NEW i \in DOMAIN messages, Regenerate(t, i)
  PROVE  IInv'
<1>1. TypeOK /\ Reserved /\ Shape /\ Claiming /\ OpenAnswers /\ Finishing /\ ClaimedFirst
      /\ OneClaim /\ QuestionsBounded /\ DoneMeansStored /\ HistoryBeforeQuestion
  BY DEF IInv
<1>2. /\ turn[t].pc = "idle" /\ Room(1)
      /\ messages' = messages /\ rating' = rating /\ claimed' = claimed
  BY DEF Regenerate, Busy
<1>3. /\ Alone(t) /\ response'[t] = "none"
      /\ turn'[t].pc = "claim" /\ turn'[t].kind = "regenerate" /\ turn'[t].question = 0
      /\ turn'[t].source = i /\ turn'[t].seen = rating[i] /\ turn'[t].history = {}
  <2> DEFINE begun == [NoTurn EXCEPT !.pc = "claim", !.kind = "regenerate", !.source = i, !.seen = rating[i]]
  <2>1. i \in Index /\ rating[i] \in Rating
    BY <1>1, Numbering DEF TypeOK
  <2>2. /\ begun.pc = "claim" /\ begun.kind = "regenerate" /\ begun.question = 0
        /\ begun.source = i /\ begun.seen = rating[i] /\ begun.history = {}
    BY <2>1 DEF NoTurn
  <2>3. begun \in TurnRecord
    BY <2>1 DEF NoTurn, TurnRecord, Pc, Rating
  <2>4. /\ turn' \in [Turn -> TurnRecord] /\ turn'[t] = begun
        /\ \A u \in Turn \ {t} : turn'[u] = turn[u]
    BY <1>1, <2>3 DEF Regenerate, TypeOK
  <2>5. /\ response' \in [Turn -> {"none", "open", "done", "error", "gone"}] /\ response'[t] = "none"
        /\ \A u \in Turn \ {t} : response'[u] = response[u]
    BY <1>1 DEF Regenerate, TypeOK
  <2> HIDE DEF begun
  <2> QED BY <2>2, <2>4, <2>5 DEF Alone
<1>4. TypeOK'
  BY <1>1, <1>2, <1>3 DEF TypeOK, Alone
<1>5. Reserved' /\ QuestionsBounded'
  <2>1. /\ Storing' \subseteq Storing \cup {t} /\ StoringTwo' \subseteq StoringTwo
        /\ Admitted' \subseteq Admitted /\ Questions' \subseteq Questions
    BY <1>2, <1>3 DEF Storing, StoringTwo, Admitted, Questions, Stored, Alone
  <2>2. QuestionsBounded'
    <3>1. /\ Cardinality(Admitted') \in Nat /\ Cardinality(Admitted') <= Cardinality(Admitted)
          /\ Cardinality(Questions') \in Nat /\ Cardinality(Questions') <= Cardinality(Questions)
      BY <1>1, <2>1, Counted, Fewer
    <3> QED BY <1>1, <3>1, Counted, LimitsAssumption DEF QuestionsBounded
  <2> QED BY <1>1, <1>2, <2>1, <2>2, RoomForOne
<1>6. Shape'
  BY <1>1, <1>2, <1>3 DEF Shape, Alone
<1>7. Claiming'
  BY <1>1, <1>2, <1>3 DEF Claiming, Alone
<1>8. OpenAnswers'
  BY <1>1, <1>2, <1>3 DEF OpenAnswers, Saving, Alone
<1>9. Finishing' /\ DoneMeansStored'
  BY <1>1, <1>2, <1>3 DEF Finishing, DoneMeansStored, IsAnswer, Stored, Alone
<1>10. ClaimedFirst' /\ OneClaim'
  BY <1>1, <1>2, <1>3 DEF ClaimedFirst, OneClaim, Proper, Again, Live, Alone
<1>11. HistoryBeforeQuestion'
  BY <1>1, <1>2, <1>3 DEF HistoryBeforeQuestion, Alone
<1> QED BY <1>4, <1>5, <1>6, <1>7, <1>8, <1>9, <1>10, <1>11 DEF IInv

(* The posted question is stored. *)
LEMMA StorePostedKeeps ==
  ASSUME IInv, NEW t \in Turn, StorePosted(t)
  PROVE  IInv'
<1>1. TypeOK /\ Reserved /\ Shape /\ Claiming /\ OpenAnswers /\ Finishing /\ ClaimedFirst
      /\ OneClaim /\ QuestionsBounded /\ DoneMeansStored /\ HistoryBeforeQuestion
  BY DEF IInv
<1>2. /\ turn[t].pc = "post" /\ Grown("user", "stored", 0, TRUE) /\ Len(messages) + 1 \in Index
      /\ rating' = rating /\ claimed' = claimed
  <2>1. turn[t].pc = "post" /\ Append1("user", "stored", 0, TRUE) /\ rating' = rating /\ claimed' = claimed
    BY DEF StorePosted
  <2>2. 0 \in Index \cup {0}
    BY <1>1 DEF TypeOK, TurnRecord
  <2>3. Grown("user", "stored", 0, TRUE)
    BY <1>1, <2>1, <2>2, GrownBy
  <2>4. t \in Storing
    BY <2>1 DEF Storing
  <2> QED BY <1>1, <2>1, <2>3, <2>4, NextNumber
<1>3. Alone(t) /\ Rested(t) /\ response' = response
  <2>1. End(t) /\ response' = response
    BY DEF StorePosted
  <2> QED BY <1>1, <2>1, Ended DEF Alone, TypeOK
<1>4. TypeOK'
  <2>1. /\ messages' \in Seq(Message) /\ Len(messages') <= MaxMessages
        /\ rating' \in [Index -> Rating] /\ claimed' \in SUBSET DOMAIN messages'
    BY <1>1, <1>2, GrownTypes
  <2>2. \A i \in DOMAIN messages' :
          messages'[i].state = "pending" <=> \E u \in Turn : turn'[u].pc = "saving" /\ turn'[u].answer = i
    <3>1. \A u \in Turn : /\ turn'[u].pc = "saving" <=> turn[u].pc = "saving"
                          /\ turn'[u].answer = turn[u].answer
      BY <1>2, <1>3 DEF Alone, Rested
    <3> QED BY <1>1, <1>2, <3>1, GrownOpen
  <2>3. \A u \in Turn : response'[u] = "open" =>
          turn'[u].pc \in {"history", "question", "retrieve", "stream", "answer", "saving", "finish"}
    BY <1>1, <1>2, <1>3 DEF TypeOK, Alone, Rested
  <2> QED BY <1>3, <2>1, <2>2, <2>3 DEF TypeOK, Alone
<1>5. Reserved' /\ QuestionsBounded'
  <2>1. /\ t \in Storing /\ Storing' \subseteq Storing \ {t} /\ StoringTwo' \subseteq StoringTwo
        /\ t \in Admitted /\ Admitted' \subseteq Admitted \ {t}
        /\ Questions' \subseteq Questions \cup {Len(messages) + 1}
        /\ Len(messages') = Len(messages) + 1
    BY <1>1, <1>2, <1>3 DEF Storing, StoringTwo, Admitted, Questions, Stored, Alone, Grown, Shape, Rested
  <2> QED BY <1>1, <2>1, QuestionStored
<1>6. Shape'
  BY <1>1, <1>2, <1>3 DEF Shape, Alone, Grown, Rested
<1>7. Claiming'
  BY <1>1, <1>2, <1>3 DEF Claiming, Alone, Grown, Rested
<1>8. OpenAnswers'
  BY <1>1, <1>2, <1>3 DEF OpenAnswers, Saving, Alone, Grown, Rested
<1>9. Finishing' /\ DoneMeansStored'
  BY <1>1, <1>2, <1>3 DEF Finishing, DoneMeansStored, IsAnswer, Stored, Alone, Grown, Shape, Rested
<1>10. ClaimedFirst' /\ OneClaim'
  <2>1. \A u \in Turn : Live(u)' => Live(u) /\ turn'[u].source = turn[u].source
    BY <1>2, <1>3 DEF Live, Alone, Rested
  <2> QED BY <1>1, <1>2, <2>1, GrownClaims
<1>11. HistoryBeforeQuestion'
  BY <1>1, <1>2, <1>3 DEF HistoryBeforeQuestion, Alone, Rested
<1> QED BY <1>4, <1>5, <1>6, <1>7, <1>8, <1>9, <1>10, <1>11 DEF IInv

(* The question is stored. *)
LEMMA StoreQuestionKeeps ==
  ASSUME IInv, NEW t \in Turn, StoreQuestion(t)
  PROVE  IInv'
<1>1. TypeOK /\ Reserved /\ Shape /\ Claiming /\ OpenAnswers /\ Finishing /\ ClaimedFirst
      /\ OneClaim /\ QuestionsBounded /\ DoneMeansStored /\ HistoryBeforeQuestion
  BY DEF IInv
<1>2. /\ turn[t].pc = "question" /\ Grown("user", "stored", 0, FALSE) /\ Len(messages) + 1 \in Index
      /\ rating' = rating /\ claimed' = claimed
  <2>1. turn[t].pc = "question" /\ Append1("user", "stored", 0, FALSE) /\ rating' = rating /\ claimed' = claimed
    BY DEF StoreQuestion
  <2>2. 0 \in Index \cup {0}
    BY <1>1 DEF TypeOK, TurnRecord
  <2>3. Grown("user", "stored", 0, FALSE)
    BY <1>1, <2>1, <2>2, GrownBy
  <2>4. t \in Storing
    BY <2>1 DEF Storing
  <2> QED BY <1>1, <2>1, <2>3, <2>4, NextNumber
<1>3. /\ Alone(t) /\ response' = response
      /\ turn'[t].pc = "retrieve" /\ turn'[t].question = Len(messages) + 1
      /\ turn'[t].kind = turn[t].kind /\ turn'[t].source = turn[t].source /\ turn'[t].history = turn[t].history
  <2>1. turn' = [turn EXCEPT ![t].pc = "retrieve", ![t].question = Len(messages) + 1]
    BY DEF StoreQuestion
  <2> DEFINE next == [turn[t] EXCEPT !.pc = "retrieve", !.question = Len(messages) + 1]
  <2>2. turn[t] \in TurnRecord
    BY <1>1 DEF TypeOK
  <2>3. next \in TurnRecord
    BY <1>2, <2>2 DEF TurnRecord, Pc
  <2>4. /\ next.pc = "retrieve" /\ next.question = Len(messages) + 1
        /\ next.kind = turn[t].kind /\ next.source = turn[t].source /\ next.history = turn[t].history
        /\ next.text = turn[t].text /\ next.answer = turn[t].answer
    BY <2>2 DEF TurnRecord
  <2>5. turn' = [turn EXCEPT ![t] = next]
    BY <2>1
  <2>6. response' = response
    BY DEF StoreQuestion
  <2> HIDE DEF next
  <2> QED BY <1>1, <2>3, <2>4, <2>5, <2>6 DEF Alone, TypeOK
<1>4. TypeOK'
  <2>1. /\ messages' \in Seq(Message) /\ Len(messages') <= MaxMessages
        /\ rating' \in [Index -> Rating] /\ claimed' \in SUBSET DOMAIN messages'
    BY <1>1, <1>2, GrownTypes
  <2>2. \A i \in DOMAIN messages' :
          messages'[i].state = "pending" <=> \E u \in Turn : turn'[u].pc = "saving" /\ turn'[u].answer = i
    <3>1. \A u \in Turn \ {t} : turn'[u] = turn[u]
      BY <1>3 DEF Alone
    <3> QED BY <1>1, <1>2, <1>3, <3>1, GrownOpen
  <2>3. \A u \in Turn : response'[u] = "open" =>
          turn'[u].pc \in {"history", "question", "retrieve", "stream", "answer", "saving", "finish"}
    BY <1>1, <1>2, <1>3 DEF TypeOK, Alone
  <2> QED BY <1>3, <2>1, <2>2, <2>3 DEF TypeOK, Alone
<1>5. Reserved' /\ QuestionsBounded'
  <2>1. /\ t \in StoringTwo /\ Storing' \subseteq Storing /\ StoringTwo' \subseteq StoringTwo \ {t}
        /\ t \in Admitted /\ Admitted' \subseteq Admitted \ {t}
        /\ Questions' \subseteq Questions \cup {Len(messages) + 1}
        /\ Len(messages') = Len(messages) + 1
    BY <1>1, <1>2, <1>3 DEF Storing, StoringTwo, Admitted, Questions, Stored, Alone, Grown, Shape
  <2> QED BY <1>1, <2>1, QuestionStored
<1>6. Shape'
  BY <1>1, <1>2, <1>3 DEF Shape, Alone, Grown
<1>7. Claiming'
  BY <1>1, <1>2, <1>3 DEF Claiming, Alone, Grown
<1>8. OpenAnswers'
  BY <1>1, <1>2, <1>3 DEF OpenAnswers, Saving, Alone, Grown
<1>9. Finishing' /\ DoneMeansStored'
  BY <1>1, <1>2, <1>3 DEF Finishing, DoneMeansStored, IsAnswer, Stored, Alone, Grown, Shape
<1>10. ClaimedFirst' /\ OneClaim'
  <2>1. \A u \in Turn : Live(u)' => Live(u) /\ turn'[u].source = turn[u].source
    BY <1>2, <1>3 DEF Live, Alone
  <2> QED BY <1>1, <1>2, <2>1, GrownClaims
<1>11. HistoryBeforeQuestion'
  <2>1. \A i \in turn[t].history : i < Len(messages) + 1
    BY <1>1, Numbering DEF Shape
  <2> QED BY <1>1, <1>3, <2>1 DEF HistoryBeforeQuestion, Alone
<1> QED BY <1>4, <1>5, <1>6, <1>7, <1>8, <1>9, <1>10, <1>11 DEF IInv

(* The transaction of the answer begins. *)
LEMMA BeginSaveKeeps ==
  ASSUME IInv, NEW t \in Turn, BeginSave(t)
  PROVE  IInv'
<1>1. TypeOK /\ Reserved /\ Shape /\ Claiming /\ OpenAnswers /\ Finishing /\ ClaimedFirst
      /\ OneClaim /\ QuestionsBounded /\ DoneMeansStored /\ HistoryBeforeQuestion
  BY DEF IInv
<1>2. /\ turn[t].pc = "answer" /\ Grown("assistant", "pending", turn[t].source, FALSE) /\ Len(messages) + 1 \in Index
      /\ rating' = rating /\ claimed' = claimed
  <2>1. turn[t].pc = "answer" /\ Append1("assistant", "pending", turn[t].source, FALSE) /\ rating' = rating /\ claimed' = claimed
    BY DEF BeginSave
  <2>2. turn[t].source \in Index \cup {0}
    BY <1>1 DEF TypeOK, TurnRecord
  <2>3. Grown("assistant", "pending", turn[t].source, FALSE)
    BY <1>1, <2>1, <2>2, GrownBy
  <2>4. t \in Storing
    BY <2>1 DEF Storing
  <2> QED BY <1>1, <2>1, <2>3, <2>4, NextNumber
<1>3. /\ Alone(t) /\ response' = response
      /\ turn'[t].pc = "saving" /\ turn'[t].answer = Len(messages) + 1
      /\ turn'[t].kind = turn[t].kind /\ turn'[t].source = turn[t].source
      /\ turn'[t].history = turn[t].history /\ turn'[t].question = turn[t].question
  <2>1. turn' = [turn EXCEPT ![t].pc = "saving", ![t].answer = Len(messages) + 1]
    BY DEF BeginSave
  <2> DEFINE next == [turn[t] EXCEPT !.pc = "saving", !.answer = Len(messages) + 1]
  <2>2. turn[t] \in TurnRecord
    BY <1>1 DEF TypeOK
  <2>3. next \in TurnRecord
    BY <1>2, <2>2 DEF TurnRecord, Pc
  <2>4. /\ next.pc = "saving" /\ next.answer = Len(messages) + 1
        /\ next.kind = turn[t].kind /\ next.source = turn[t].source /\ next.history = turn[t].history
        /\ next.question = turn[t].question
    BY <2>2 DEF TurnRecord
  <2>5. turn' = [turn EXCEPT ![t] = next]
    BY <2>1
  <2>6. response' = response
    BY DEF BeginSave
  <2> HIDE DEF next
  <2> QED BY <1>1, <2>3, <2>4, <2>5, <2>6 DEF Alone, TypeOK
<1>4. TypeOK'
  <2>1. /\ messages' \in Seq(Message) /\ Len(messages') <= MaxMessages
        /\ rating' \in [Index -> Rating] /\ claimed' \in SUBSET DOMAIN messages'
    BY <1>1, <1>2, GrownTypes
  <2>2. \A i \in DOMAIN messages' :
          messages'[i].state = "pending" <=> \E u \in Turn : turn'[u].pc = "saving" /\ turn'[u].answer = i
    <3>1. \A u \in Turn \ {t} : turn'[u].pc = turn[u].pc /\ turn'[u].answer = turn[u].answer
      BY <1>3 DEF Alone
    <3>2. \A u \in Turn : turn[u].pc = "saving" => turn[u].answer \in DOMAIN messages /\ u # t
      BY <1>1, <1>2 DEF OpenAnswers, Saving
    <3>3. ASSUME NEW i \in DOMAIN messages
          PROVE  messages'[i].state = "pending" <=> \E u \in Turn : turn'[u].pc = "saving" /\ turn'[u].answer = i
      <4>1. messages'[i] = messages[i] /\ i # turn'[t].answer
        BY <1>2, <1>3 DEF Grown
      <4>2. messages[i].state = "pending" <=> \E u \in Turn : turn[u].pc = "saving" /\ turn[u].answer = i
        BY <1>1 DEF TypeOK
      <4> QED BY <3>1, <3>2, <4>1, <4>2
    <3>4. /\ messages'[Len(messages) + 1].state = "pending"
          /\ turn'[t].pc = "saving" /\ turn'[t].answer = Len(messages) + 1
      BY <1>2, <1>3 DEF Grown
    <3> QED BY <1>2, <3>3, <3>4 DEF Grown
  <2>3. \A u \in Turn : response'[u] = "open" =>
          turn'[u].pc \in {"history", "question", "retrieve", "stream", "answer", "saving", "finish"}
    BY <1>1, <1>2, <1>3 DEF TypeOK, Alone
  <2> QED BY <1>3, <2>1, <2>2, <2>3 DEF TypeOK, Alone
<1>5. Reserved' /\ QuestionsBounded'
  <2>1. /\ t \in Storing /\ Storing' \subseteq Storing \ {t} /\ StoringTwo' \subseteq StoringTwo
        /\ Admitted' \subseteq Admitted /\ Questions' \subseteq Questions /\ Len(messages') = Len(messages) + 1
    BY <1>1, <1>2, <1>3 DEF Storing, StoringTwo, Admitted, Questions, Stored, Alone, Grown
  <2> QED BY <1>1, <2>1, AnswerStored
<1>6. Shape'
  BY <1>1, <1>2, <1>3 DEF Shape, Alone, Grown
<1>7. Claiming'
  BY <1>1, <1>2, <1>3 DEF Claiming, Alone, Grown
<1>8. OpenAnswers'
  BY <1>1, <1>2, <1>3 DEF OpenAnswers, Saving, Alone, Grown
<1>9. Finishing' /\ DoneMeansStored'
  BY <1>1, <1>2, <1>3 DEF Finishing, DoneMeansStored, IsAnswer, Stored, Alone, Grown, Shape
<1>10. ClaimedFirst' /\ OneClaim'
  <2>1. \A u \in Turn : Live(u)' => Live(u) /\ turn'[u].source = turn[u].source
    BY <1>2, <1>3 DEF Live, Alone
  <2>2. turn[t].source # 0 => Proper(turn[t].source)
    BY <1>1, <1>2 DEF Shape, ClaimedFirst, Live
  <2> QED BY <1>1, <1>2, <2>1, <2>2, GrownClaims
<1>11. HistoryBeforeQuestion'
  BY <1>1, <1>2, <1>3 DEF HistoryBeforeQuestion, Alone
<1> QED BY <1>4, <1>5, <1>6, <1>7, <1>8, <1>9, <1>10, <1>11 DEF IInv

(* The claim is refused. *)
LEMMA RefuseClaimKeeps ==
  ASSUME IInv, NEW t \in Turn, RefuseClaim(t)
  PROVE  IInv'
<1>1. TypeOK /\ Reserved /\ Shape /\ Claiming /\ OpenAnswers /\ Finishing /\ ClaimedFirst
      /\ OneClaim /\ QuestionsBounded /\ DoneMeansStored /\ HistoryBeforeQuestion
  BY DEF IInv
<1>2. /\ turn[t].pc = "claim"
      /\ messages' = messages /\ rating' = rating /\ claimed' = claimed
  BY DEF RefuseClaim
<1>3. Alone(t) /\ Rested(t) /\ response' = response
  <2>1. End(t) /\ response' = response
    BY DEF RefuseClaim
  <2> QED BY <1>1, <2>1, Ended DEF Alone, TypeOK
<1>4. TypeOK'
  BY <1>1, <1>2, <1>3 DEF TypeOK, Alone, Rested
<1>5. Reserved' /\ QuestionsBounded'
  <2>1. /\ Storing' \subseteq Storing /\ StoringTwo' \subseteq StoringTwo
        /\ Admitted' \subseteq Admitted /\ Questions' \subseteq Questions
    BY <1>1, <1>2, <1>3 DEF Storing, StoringTwo, Admitted, Questions, Stored, Alone, Rested
  <2> QED BY <1>1, <1>2, <2>1, NothingStored
<1>6. Shape'
  BY <1>1, <1>2, <1>3 DEF Shape, Alone, Rested
<1>7. Claiming'
  BY <1>1, <1>2, <1>3 DEF Claiming, Alone, Rested
<1>8. OpenAnswers'
  BY <1>1, <1>2, <1>3 DEF OpenAnswers, Saving, Alone, Rested
<1>9. Finishing' /\ DoneMeansStored'
  BY <1>1, <1>2, <1>3 DEF Finishing, DoneMeansStored, IsAnswer, Stored, Alone, Shape, Rested
<1>10. ClaimedFirst' /\ OneClaim'
  BY <1>1, <1>2, <1>3 DEF ClaimedFirst, OneClaim, Proper, Again, Live, Alone, Rested
<1>11. HistoryBeforeQuestion'
  BY <1>1, <1>2, <1>3 DEF HistoryBeforeQuestion, Alone, Rested
<1> QED BY <1>4, <1>5, <1>6, <1>7, <1>8, <1>9, <1>10, <1>11 DEF IInv

(* The turn is over, and its reader is told so. *)
LEMMA FinishKeeps ==
  ASSUME IInv, NEW t \in Turn, Finish(t)
  PROVE  IInv'
<1>1. TypeOK /\ Reserved /\ Shape /\ Claiming /\ OpenAnswers /\ Finishing /\ ClaimedFirst
      /\ OneClaim /\ QuestionsBounded /\ DoneMeansStored /\ HistoryBeforeQuestion
  BY DEF IInv
<1>2. /\ turn[t].pc = "finish"
      /\ messages' = messages /\ rating' = rating /\ claimed' = claimed
  BY DEF Finish
<1>3. /\ Alone(t) /\ Rested(t)
      /\ response'[t] = IF response[t] = "open" THEN "done" ELSE response[t]
  <2>1. End(t) /\ EndResponse(t, "done")
    BY DEF Finish
  <2> QED BY <1>1, <2>1, Ended, Responded DEF Alone
<1>4. TypeOK'
  BY <1>1, <1>2, <1>3 DEF TypeOK, Alone, Rested
<1>5. Reserved' /\ QuestionsBounded'
  <2>1. /\ Storing' \subseteq Storing /\ StoringTwo' \subseteq StoringTwo
        /\ Admitted' \subseteq Admitted /\ Questions' \subseteq Questions
    BY <1>1, <1>2, <1>3 DEF Storing, StoringTwo, Admitted, Questions, Stored, Alone, Rested
  <2> QED BY <1>1, <1>2, <2>1, NothingStored
<1>6. Shape'
  BY <1>1, <1>2, <1>3 DEF Shape, Alone, Rested
<1>7. Claiming'
  BY <1>1, <1>2, <1>3 DEF Claiming, Alone, Rested
<1>8. OpenAnswers'
  BY <1>1, <1>2, <1>3 DEF OpenAnswers, Saving, Alone, Rested
<1>9. Finishing' /\ DoneMeansStored'
  BY <1>1, <1>2, <1>3 DEF Finishing, DoneMeansStored, IsAnswer, Stored, Alone, Shape, Rested
<1>10. ClaimedFirst' /\ OneClaim'
  BY <1>1, <1>2, <1>3 DEF ClaimedFirst, OneClaim, Proper, Again, Live, Alone, Rested
<1>11. HistoryBeforeQuestion'
  BY <1>1, <1>2, <1>3 DEF HistoryBeforeQuestion, Alone, Rested
<1> QED BY <1>4, <1>5, <1>6, <1>7, <1>8, <1>9, <1>10, <1>11 DEF IInv

(* The model is asked. *)
LEMMA GenerateKeeps ==
  ASSUME IInv, NEW t \in Turn, Generate(t)
  PROVE  IInv'
<1>1. TypeOK /\ Reserved /\ Shape /\ Claiming /\ OpenAnswers /\ Finishing /\ ClaimedFirst
      /\ OneClaim /\ QuestionsBounded /\ DoneMeansStored /\ HistoryBeforeQuestion
  BY DEF IInv
<1>2. /\ turn[t].pc = "retrieve"
      /\ messages' = messages /\ rating' = rating /\ claimed' = claimed
  BY DEF Generate
<1>3. /\ Alone(t) /\ response' = response
      /\ turn'[t].pc = "stream" /\ turn'[t].kind = turn[t].kind /\ turn'[t].source = turn[t].source
      /\ turn'[t].history = turn[t].history /\ turn'[t].question = turn[t].question
  <2>1. turn' = [turn EXCEPT ![t].pc = "stream"] /\ response' = response
    BY DEF Generate, Goto
  <2>2. turn \in [Turn -> TurnRecord] /\ "stream" \in Pc
    BY <1>1 DEF TypeOK, Pc
  <2>3. /\ turn' \in [Turn -> TurnRecord] /\ \A u \in Turn \ {t} : turn'[u] = turn[u]
        /\ turn'[t].pc = "stream" /\ turn'[t].kind = turn[t].kind /\ turn'[t].source = turn[t].source
        /\ turn'[t].history = turn[t].history /\ turn'[t].question = turn[t].question
    BY <2>1, <2>2, MovedTo
  <2>4. response' = response
    BY <2>1
  <2> QED BY <1>1, <2>3, <2>4 DEF Alone, TypeOK
<1>4. TypeOK'
  BY <1>1, <1>2, <1>3 DEF TypeOK, Alone
<1>5. Reserved' /\ QuestionsBounded'
  <2>1. /\ Storing' \subseteq Storing /\ StoringTwo' \subseteq StoringTwo
        /\ Admitted' \subseteq Admitted /\ Questions' \subseteq Questions
    BY <1>1, <1>2, <1>3 DEF Storing, StoringTwo, Admitted, Questions, Stored, Alone
  <2> QED BY <1>1, <1>2, <2>1, NothingStored
<1>6. Shape'
  BY <1>1, <1>2, <1>3 DEF Shape, Alone
<1>7. Claiming'
  BY <1>1, <1>2, <1>3 DEF Claiming, Alone
<1>8. OpenAnswers'
  BY <1>1, <1>2, <1>3 DEF OpenAnswers, Saving, Alone
<1>9. Finishing' /\ DoneMeansStored'
  BY <1>1, <1>2, <1>3 DEF Finishing, DoneMeansStored, IsAnswer, Stored, Alone, Shape
<1>10. ClaimedFirst' /\ OneClaim'
  BY <1>1, <1>2, <1>3 DEF ClaimedFirst, OneClaim, Proper, Again, Live, Alone
<1>11. HistoryBeforeQuestion'
  BY <1>1, <1>2, <1>3 DEF HistoryBeforeQuestion, Alone
<1> QED BY <1>4, <1>5, <1>6, <1>7, <1>8, <1>9, <1>10, <1>11 DEF IInv

(* The claim is made. *)
LEMMA ClaimKeeps ==
  ASSUME IInv, NEW t \in Turn, Claim(t)
  PROVE  IInv'
<1>1. TypeOK /\ Reserved /\ Shape /\ Claiming /\ OpenAnswers /\ Finishing /\ ClaimedFirst
      /\ OneClaim /\ QuestionsBounded /\ DoneMeansStored /\ HistoryBeforeQuestion
  BY DEF IInv
<1>2. /\ turn[t].pc = "claim" /\ messages' = messages /\ rating' = rating
      /\ claimed' = claimed \cup {turn[t].source}
      /\ turn[t].source \in DOMAIN messages /\ turn[t].source \notin claimed
      /\ messages[turn[t].source].role = "assistant" /\ messages[turn[t].source].from = 0
      /\ rating[turn[t].source] # "none"
  <2>1. /\ turn[t].pc = "claim" /\ messages' = messages /\ rating' = rating
        /\ claimed' = claimed \cup {turn[t].source} /\ Claimable(t)
    BY DEF Claim
  <2> QED BY <1>1, <2>1 DEF Claimable, IsAnswer, Stored, Claiming
<1>3. /\ Alone(t) /\ response'[t] = "open"
      /\ turn'[t].pc = "history" /\ turn'[t].kind = turn[t].kind /\ turn'[t].source = turn[t].source
      /\ turn'[t].history = turn[t].history
  <2> DEFINE q == PreviousQuestion(turn[t].source)
  <2>1. turn' = [turn EXCEPT ![t].pc = "history", ![t].question = q] /\ q # 0
    BY DEF Claim, Claimable
  <2>2. q \in Index
    BY <1>1, <2>1, PreviousQuestionIsOne
  <2>3. turn[t] \in TurnRecord
    BY <1>1 DEF TypeOK
  <2> DEFINE next == [turn[t] EXCEPT !.pc = "history", !.question = q]
  <2> HIDE DEF q
  <2>4. next \in TurnRecord
    BY <2>2, <2>3 DEF TurnRecord, Pc
  <2>5. /\ next.pc = "history" /\ next.kind = turn[t].kind /\ next.source = turn[t].source
        /\ next.history = turn[t].history
    BY <2>3 DEF TurnRecord
  <2>6. turn' = [turn EXCEPT ![t] = next]
    BY <2>1
  <2>7. response' = [response EXCEPT ![t] = "open"]
    BY DEF Claim, Open
  <2> HIDE DEF next
  <2> QED BY <1>1, <2>4, <2>5, <2>6, <2>7 DEF Alone, TypeOK
<1>4. TypeOK'
  BY <1>1, <1>2, <1>3 DEF TypeOK, Alone
<1>5. Reserved' /\ QuestionsBounded'
  <2>1. /\ Storing' \subseteq Storing /\ StoringTwo' \subseteq StoringTwo
        /\ Admitted' \subseteq Admitted /\ Questions' \subseteq Questions
    BY <1>1, <1>2, <1>3 DEF Storing, StoringTwo, Admitted, Questions, Stored, Alone, Claiming
  <2> QED BY <1>1, <1>2, <2>1, NothingStored
<1>6. Shape'
  BY <1>1, <1>2, <1>3 DEF Shape, Claiming, Alone
<1>7. Claiming'
  BY <1>1, <1>2, <1>3 DEF Claiming, Alone
<1>8. OpenAnswers'
  BY <1>1, <1>2, <1>3 DEF OpenAnswers, Saving, Alone
<1>9. Finishing' /\ DoneMeansStored'
  BY <1>1, <1>2, <1>3 DEF Finishing, DoneMeansStored, IsAnswer, Stored, Alone, Shape
<1>10. ClaimedFirst' /\ OneClaim'
  <2> DEFINE i == turn[t].source
  <2>1. i \in Index /\ \A j \in DOMAIN messages : ~ Again(j, i)
    <3>1. i \in Index /\ i # 0
      BY <1>1, <1>2, Numbering DEF Index
    <3> QED BY <1>1, <1>2, <3>1 DEF ClaimedFirst, Proper, Again
  <2>2. ClaimedFirst'
    BY <1>1, <1>2, <1>3 DEF ClaimedFirst, Proper, Live, Alone
  <2>3. ASSUME NEW u \in Turn \ {t}, Live(u)'
        PROVE  Live(u) /\ turn'[u].source = turn[u].source /\ turn[u].source # i
    BY <1>1, <1>2, <1>3, <2>3 DEF Live, Alone, ClaimedFirst, Proper
  <2>4. \A u, v \in Turn : Live(u)' /\ Live(v)' /\ turn'[u].source = turn'[v].source => u = v
    BY <1>1, <1>3, <2>3 DEF OneClaim
  <2>5. \A u \in Turn, j \in DOMAIN messages' :
          Live(u)' /\ Again(j, turn[u].source)' => messages'[j].state # "stored"
    BY <1>1, <1>2, <1>3, <2>1, <2>3 DEF OneClaim, Again
  <2> HIDE DEF i
  <2> QED BY <1>1, <1>2, <2>2, <2>4, <2>5 DEF OneClaim, Again
<1>11. HistoryBeforeQuestion'
  BY <1>1, <1>2, <1>3 DEF HistoryBeforeQuestion, Claiming, Alone
<1> QED BY <1>4, <1>5, <1>6, <1>7, <1>8, <1>9, <1>10, <1>11 DEF IInv

(* The history is read. *)
LEMMA ReadHistoryKeeps ==
  ASSUME IInv, NEW t \in Turn, ReadHistory(t)
  PROVE  IInv'
<1>1. TypeOK /\ Reserved /\ Shape /\ Claiming /\ OpenAnswers /\ Finishing /\ ClaimedFirst
      /\ OneClaim /\ QuestionsBounded /\ DoneMeansStored /\ HistoryBeforeQuestion
  BY DEF IInv
<1>2. /\ turn[t].pc = "history"
      /\ messages' = messages /\ rating' = rating /\ claimed' = claimed
  BY DEF ReadHistory
<1>3. /\ Alone(t) /\ response' = response
      /\ turn'[t].pc = (IF turn[t].kind = "ask" THEN "question" ELSE "retrieve")
      /\ turn'[t].kind = turn[t].kind /\ turn'[t].source = turn[t].source
      /\ turn'[t].question = turn[t].question /\ turn'[t].history \subseteq DOMAIN messages
      /\ turn[t].kind = "regenerate" => \A i \in turn'[t].history : i < turn[t].question
  <2> DEFINE before == IF turn[t].kind = "regenerate" THEN turn[t].question ELSE MaxMessages + 1
             past == {i \in DOMAIN messages : Stored(i) /\ i < before}
             read == LargestOf(past, MaxQuestions)
             p == IF turn[t].kind = "ask" THEN "question" ELSE "retrieve"
             next == [turn[t] EXCEPT !.pc = p, !.history = read]
  <2>1. turn' = [turn EXCEPT ![t].pc = p, ![t].history = read] /\ response' = response
    BY DEF ReadHistory
  <2>2. /\ read \subseteq DOMAIN messages
        /\ turn[t].kind = "regenerate" => \A i \in read : i < turn[t].question
    BY DEF LargestOf
  <2>3. turn[t] \in TurnRecord /\ p \in Pc /\ read \in SUBSET Index
    BY <1>1, <2>2, Numbering DEF TypeOK, Pc
  <2>4. p = (IF turn[t].kind = "ask" THEN "question" ELSE "retrieve")
    OBVIOUS
  <2> HIDE DEF read, p
  <2>5. next \in TurnRecord
    BY <2>3 DEF TurnRecord
  <2>6. /\ next.pc = p /\ next.history = read /\ next.kind = turn[t].kind
        /\ next.source = turn[t].source /\ next.question = turn[t].question
    BY <2>3 DEF TurnRecord
  <2>7. turn' = [turn EXCEPT ![t] = next]
    BY <2>1
  <2>8. response' = response
    BY <2>1
  <2> HIDE DEF next
  <2> QED BY <1>1, <2>2, <2>4, <2>5, <2>6, <2>7, <2>8 DEF Alone, TypeOK
<1>4. TypeOK'
  BY <1>1, <1>2, <1>3 DEF TypeOK, Alone
<1>5. Reserved' /\ QuestionsBounded'
  <2>1. /\ Storing' \subseteq Storing /\ StoringTwo' \subseteq StoringTwo
        /\ Admitted' \subseteq Admitted /\ Questions' \subseteq Questions
    BY <1>1, <1>2, <1>3 DEF Storing, StoringTwo, Admitted, Questions, Stored, Alone
  <2> QED BY <1>1, <1>2, <2>1, NothingStored
<1>6. Shape'
  BY <1>1, <1>2, <1>3 DEF Shape, Alone
<1>7. Claiming'
  BY <1>1, <1>2, <1>3 DEF Claiming, Alone
<1>8. OpenAnswers'
  BY <1>1, <1>2, <1>3 DEF OpenAnswers, Saving, Alone
<1>9. Finishing' /\ DoneMeansStored'
  BY <1>1, <1>2, <1>3 DEF Finishing, DoneMeansStored, IsAnswer, Stored, Alone, Shape
<1>10. ClaimedFirst' /\ OneClaim'
  BY <1>1, <1>2, <1>3 DEF ClaimedFirst, OneClaim, Proper, Again, Live, Alone
<1>11. HistoryBeforeQuestion'
  BY <1>1, <1>2, <1>3 DEF HistoryBeforeQuestion, Alone, Shape
<1> QED BY <1>4, <1>5, <1>6, <1>7, <1>8, <1>9, <1>10, <1>11 DEF IInv

(* The stream of the model ends. *)
LEMMA StreamEndsKeeps ==
  ASSUME IInv, NEW t \in Turn, StreamEnds(t)
  PROVE  IInv'
<1>1. TypeOK /\ Reserved /\ Shape /\ Claiming /\ OpenAnswers /\ Finishing /\ ClaimedFirst
      /\ OneClaim /\ QuestionsBounded /\ DoneMeansStored /\ HistoryBeforeQuestion
  BY DEF IInv
<1>2. /\ turn[t].pc = "stream"
      /\ messages' = messages /\ rating' = rating /\ claimed' = claimed
  BY DEF StreamEnds
<1>3. /\ Alone(t) /\ response' = response
      /\ turn'[t].pc \in {"answer", "finish"} /\ (turn'[t].pc = "finish" => ~ turn'[t].text)
      /\ turn'[t].kind = turn[t].kind /\ turn'[t].source = turn[t].source
      /\ turn'[t].history = turn[t].history /\ turn'[t].question = turn[t].question
  <2>1. PICK text \in BOOLEAN :
          turn' = [turn EXCEPT ![t].pc = IF text THEN "answer" ELSE "finish", ![t].text = text]
    BY DEF StreamEnds
  <2> DEFINE p == IF text THEN "answer" ELSE "finish"
             next == [turn[t] EXCEPT !.pc = p, !.text = text]
  <2>2. p \in {"answer", "finish"} /\ p \in Pc /\ (p = "finish" => text = FALSE)
    BY DEF Pc
  <2>3. turn[t] \in TurnRecord
    BY <1>1 DEF TypeOK
  <2>4. turn' = [turn EXCEPT ![t] = next]
    BY <2>1
  <2> HIDE DEF p
  <2>5. next \in TurnRecord
    BY <2>2, <2>3 DEF TurnRecord
  <2>6. /\ next.pc = p /\ next.text = text /\ next.kind = turn[t].kind /\ next.source = turn[t].source
        /\ next.history = turn[t].history /\ next.question = turn[t].question
    BY <2>3 DEF TurnRecord
  <2>7. response' = response
    BY DEF StreamEnds
  <2> HIDE DEF next
  <2> QED BY <1>1, <2>2, <2>4, <2>5, <2>6, <2>7 DEF Alone, TypeOK
<1>4. TypeOK'
  BY <1>1, <1>2, <1>3 DEF TypeOK, Alone
<1>5. Reserved' /\ QuestionsBounded'
  <2>1. /\ Storing' \subseteq Storing /\ StoringTwo' \subseteq StoringTwo
        /\ Admitted' \subseteq Admitted /\ Questions' \subseteq Questions
    BY <1>1, <1>2, <1>3 DEF Storing, StoringTwo, Admitted, Questions, Stored, Alone
  <2> QED BY <1>1, <1>2, <2>1, NothingStored
<1>6. Shape'
  BY <1>1, <1>2, <1>3 DEF Shape, Alone
<1>7. Claiming'
  BY <1>1, <1>2, <1>3 DEF Claiming, Alone
<1>8. OpenAnswers'
  BY <1>1, <1>2, <1>3 DEF OpenAnswers, Saving, Alone
<1>9. Finishing' /\ DoneMeansStored'
  BY <1>1, <1>2, <1>3 DEF Finishing, DoneMeansStored, IsAnswer, Stored, Alone, Shape
<1>10. ClaimedFirst' /\ OneClaim'
  BY <1>1, <1>2, <1>3 DEF ClaimedFirst, OneClaim, Proper, Again, Live, Alone
<1>11. HistoryBeforeQuestion'
  BY <1>1, <1>2, <1>3 DEF HistoryBeforeQuestion, Alone
<1> QED BY <1>4, <1>5, <1>6, <1>7, <1>8, <1>9, <1>10, <1>11 DEF IInv

(* The reader leaves. *)
LEMMA DisconnectKeeps ==
  ASSUME IInv, NEW t \in Turn, Disconnect(t)
  PROVE  IInv'
<1>1. TypeOK /\ Reserved /\ Shape /\ Claiming /\ OpenAnswers /\ Finishing /\ ClaimedFirst
      /\ OneClaim /\ QuestionsBounded /\ DoneMeansStored /\ HistoryBeforeQuestion
  BY DEF IInv
<1>2. messages' = messages /\ rating' = rating /\ claimed' = claimed /\ turn' = turn
  BY DEF Disconnect
<1>3. /\ response' \in [Turn -> {"none", "open", "done", "error", "gone"}]
      /\ response'[t] = "gone" /\ \A u \in Turn \ {t} : response'[u] = response[u]
  BY <1>1 DEF Disconnect, TypeOK
<1>4. TypeOK'
  BY <1>1, <1>2, <1>3 DEF TypeOK
<1>5. Reserved' /\ QuestionsBounded'
  <2>1. /\ Storing' \subseteq Storing /\ StoringTwo' \subseteq StoringTwo
        /\ Admitted' \subseteq Admitted /\ Questions' \subseteq Questions
    BY <1>2 DEF Storing, StoringTwo, Admitted, Questions, Stored
  <2> QED BY <1>1, <1>2, <2>1, NothingStored
<1>6. Shape' /\ DoneMeansStored'
  BY <1>1, <1>2, <1>3 DEF Shape, DoneMeansStored, IsAnswer, Stored
<1>7. Claiming' /\ OpenAnswers' /\ Finishing' /\ ClaimedFirst' /\ OneClaim' /\ HistoryBeforeQuestion'
  BY <1>1, <1>2 DEF Claiming, OpenAnswers, Saving, Finishing, IsAnswer, Stored, ClaimedFirst, OneClaim,
                    Proper, Again, Live, HistoryBeforeQuestion
<1> QED BY <1>4, <1>5, <1>6, <1>7 DEF IInv

(* A rating: it is changed, but never withdrawn. *)
LEMMA RateKeeps ==
  ASSUME IInv, NEW i \in DOMAIN messages, NEW r \in {"GOOD", "BAD"}, Rate(i, r)
  PROVE  IInv'
<1>1. TypeOK /\ Reserved /\ Shape /\ Claiming /\ OpenAnswers /\ Finishing /\ ClaimedFirst
      /\ OneClaim /\ QuestionsBounded /\ DoneMeansStored /\ HistoryBeforeQuestion
  BY DEF IInv
<1>2. messages' = messages /\ claimed' = claimed /\ turn' = turn /\ response' = response
  BY DEF Rate
<1>3. /\ rating' \in [Index -> Rating]
      /\ \A j \in Index : rating[j] # "none" => rating'[j] # "none"
  BY <1>1 DEF Rate, TypeOK, Rating
<1>4. TypeOK'
  BY <1>1, <1>2, <1>3 DEF TypeOK
<1>5. Reserved' /\ QuestionsBounded'
  <2>1. /\ Storing' \subseteq Storing /\ StoringTwo' \subseteq StoringTwo
        /\ Admitted' \subseteq Admitted /\ Questions' \subseteq Questions
    BY <1>2 DEF Storing, StoringTwo, Admitted, Questions, Stored
  <2> QED BY <1>1, <1>2, <2>1, NothingStored
<1>6. Claiming'
  BY <1>1, <1>2, <1>3, Numbering DEF Claiming
<1>7. ClaimedFirst'
  <2>1. claimed \subseteq Index
    BY <1>1, Numbering DEF TypeOK
  <2> QED BY <1>1, <1>2, <1>3, <2>1 DEF ClaimedFirst, Proper, Live
<1>8. Shape' /\ OpenAnswers' /\ Finishing' /\ OneClaim' /\ HistoryBeforeQuestion' /\ DoneMeansStored'
  BY <1>1, <1>2 DEF Shape, OpenAnswers, Saving, Finishing, IsAnswer, Stored, OneClaim,
                    Again, Live, HistoryBeforeQuestion, DoneMeansStored
<1> QED BY <1>4, <1>5, <1>6, <1>7, <1>8 DEF IInv

(* An answer is posted. *)
LEMMA PostAnswerKeeps ==
  ASSUME IInv, PostAnswer
  PROVE  IInv'
<1>1. TypeOK /\ Reserved /\ Shape /\ Claiming /\ OpenAnswers /\ Finishing /\ ClaimedFirst
      /\ OneClaim /\ QuestionsBounded /\ DoneMeansStored /\ HistoryBeforeQuestion
  BY DEF IInv
<1>2. PICK from \in Index \cup {0} :
        /\ Append1("assistant", "stored", from, TRUE) /\ rating' = rating /\ Room(1)
        /\ claimed' = claimed \/ claimed' = claimed \cup {Len(messages) + 1}
  BY <1>1, Numbering DEF PostAnswer
<1>3. Len(messages) + 1 \in Index
  BY <1>1, <1>2, Counted, Numbering, LimitsAssumption DEF Room, Index
<1>4. Grown("assistant", "stored", from, TRUE)
  BY <1>1, <1>2, GrownBy
<1>5. turn' = turn /\ response' = response
  BY DEF PostAnswer
<1>6. TypeOK'
  <2>1. /\ messages' \in Seq(Message) /\ Len(messages') <= MaxMessages
        /\ rating' \in [Index -> Rating] /\ claimed' \in SUBSET DOMAIN messages'
    BY <1>1, <1>2, <1>3, <1>4, GrownTypes
  <2>2. \A i \in DOMAIN messages' :
          messages'[i].state = "pending" <=> \E u \in Turn : turn'[u].pc = "saving" /\ turn'[u].answer = i
    BY <1>1, <1>4, <1>5, GrownOpen
  <2> QED BY <1>1, <1>5, <2>1, <2>2 DEF TypeOK
<1>7. Reserved' /\ QuestionsBounded'
  <2>1. /\ Storing' = Storing /\ StoringTwo' = StoringTwo /\ Admitted' = Admitted
        /\ Questions' = Questions /\ Len(messages') = Len(messages) + 1
    BY <1>4, <1>5 DEF Storing, StoringTwo, Admitted, Questions, Stored, Grown
  <2>2. Room(1)
    BY DEF PostAnswer
  <2>3. /\ Len(messages) \in Nat /\ MaxMessages \in Nat
        /\ Cardinality(Storing) \in Nat /\ Cardinality(StoringTwo) \in Nat
    BY <1>1, Counted, Numbering, LimitsAssumption
  <2>4. Reserved'
    BY <2>1, <2>2, <2>3 DEF Reserved, Room
  <2>5. QuestionsBounded'
    BY <1>1, <2>1 DEF QuestionsBounded
  <2> QED BY <2>4, <2>5
<1>8. Shape' /\ Claiming' /\ HistoryBeforeQuestion'
  BY <1>1, <1>2, <1>4, <1>5 DEF Shape, Claiming, HistoryBeforeQuestion, Grown
<1>9. OpenAnswers'
  BY <1>1, <1>4, <1>5 DEF OpenAnswers, Saving, Grown
<1>10. Finishing' /\ DoneMeansStored'
  BY <1>1, <1>4, <1>5 DEF Finishing, DoneMeansStored, IsAnswer, Stored, Grown
<1>11. ClaimedFirst' /\ OneClaim'
  <2>1. \A u \in Turn : Live(u)' => Live(u) /\ turn'[u].source = turn[u].source
    BY <1>5 DEF Live
  <2> QED BY <1>1, <1>2, <1>4, <2>1, GrownClaims
<1> QED BY <1>6, <1>7, <1>8, <1>9, <1>10, <1>11 DEF IInv

-----------------------------------------------------------------------------
(* Answers are undone, and nothing that is stored. *)
Undone ==
  Marked /\ \A i \in DOMAIN messages : messages'[i].state = "stored" <=> messages[i].state = "stored"

(* What holds of the stored messages and of the claims is kept by it. *)
LEMMA UndoneKeeps ==
  ASSUME TypeOK, Reserved, QuestionsBounded, ClaimedFirst, OneClaim, Undone,
         rating' = rating, claimed' = claimed,
         Storing' \subseteq Storing, StoringTwo' \subseteq StoringTwo, Admitted' \subseteq Admitted,
         \A u \in Turn : Live(u)' => Live(u) /\ turn'[u].source = turn[u].source
  PROVE  /\ Reserved' /\ QuestionsBounded' /\ ClaimedFirst' /\ OneClaim'
         /\ \A i : Stored(i)' = Stored(i) /\ IsAnswer(i)' = IsAnswer(i)
<1>1. /\ DOMAIN messages' = DOMAIN messages /\ Len(messages') = Len(messages)
      /\ \A i \in DOMAIN messages :
           /\ messages'[i].role = messages[i].role /\ messages'[i].from = messages[i].from
           /\ messages'[i].posted = messages[i].posted
           /\ messages'[i].state = "stored" <=> messages[i].state = "stored"
  BY DEF Undone, Marked
<1>2. claimed \subseteq DOMAIN messages
  BY DEF TypeOK
<1>3. \A i : Stored(i)' = Stored(i) /\ IsAnswer(i)' = IsAnswer(i)
  BY <1>1 DEF Stored, IsAnswer
<1>4. Questions' \subseteq Questions
  BY <1>1 DEF Questions, Stored
<1>5. Reserved' /\ QuestionsBounded'
  BY <1>1, <1>4, NothingStored
<1>6. ClaimedFirst'
  BY <1>1, <1>2 DEF ClaimedFirst, Proper
<1>7. OneClaim'
  BY <1>1 DEF OneClaim, Again
<1> QED BY <1>3, <1>5, <1>6, <1>7

(* A call of the turn fails. *)
LEMMA FailKeeps ==
  ASSUME IInv, NEW t \in Turn, Fail(t)
  PROVE  IInv'
<1>1. TypeOK /\ Reserved /\ Shape /\ Claiming /\ OpenAnswers /\ Finishing /\ ClaimedFirst
      /\ OneClaim /\ QuestionsBounded /\ DoneMeansStored /\ HistoryBeforeQuestion
  BY DEF IInv
<1>2. /\ rating' = rating /\ claimed' = claimed /\ messages' = Undo(messages, t)
      /\ turn[t].pc \notin {"idle", "finish"}
  BY DEF Fail, Busy
<1>3. /\ Alone(t) /\ Rested(t)
      /\ response'[t] = IF response[t] = "open" THEN "error" ELSE response[t]
  <2>1. End(t) /\ EndResponse(t, "error")
    BY DEF Fail
  <2> QED BY <1>1, <2>1, Ended, Responded DEF Alone
<1>4. /\ Undone
      /\ \A i \in DOMAIN messages : messages'[i].state =
           IF Saving(t) /\ turn[t].answer = i THEN "undone" ELSE messages[i].state
  <2>1. CASE Saving(t)
    <3> DEFINE k == turn[t].answer
    <3>1. messages' = [messages EXCEPT ![k].state = "undone"]
      BY <1>2, <2>1 DEF Undo, Saving
    <3>2. k \in DOMAIN messages /\ messages[k].state = "pending"
      BY <1>1, <2>1 DEF OpenAnswers, Saving, TypeOK
    <3> HIDE DEF k
    <3>3. /\ Marked /\ messages'[k].state = "undone"
          /\ \A i \in DOMAIN messages \ {k} : messages'[i] = messages[i]
      BY <1>1, <3>1, <3>2, Mark
    <3> QED BY <2>1, <3>2, <3>3 DEF Undone, k
  <2>2. CASE ~ Saving(t)
    <3>1. messages' = messages
      BY <1>2, <2>2 DEF Undo, Saving
    <3> QED BY <1>1, <2>2, <3>1 DEF Undone, Marked, TypeOK
  <2> QED BY <2>1, <2>2
<1>5. \A u \in Turn : Saving(u)' <=> Saving(u) /\ u # t
  BY <1>3 DEF Saving, Alone, Rested
<1>6. TypeOK'
  <2>1. /\ messages' \in Seq(Message) /\ Len(messages') <= MaxMessages
        /\ rating' \in [Index -> Rating] /\ claimed' \in SUBSET DOMAIN messages'
    BY <1>1, <1>2, <1>4 DEF TypeOK, Undone, Marked
  <2>2. ASSUME NEW i \in DOMAIN messages
        PROVE  messages'[i].state = "pending" <=> \E u \in Turn : Saving(u)' /\ turn'[u].answer = i
    <3>1. messages[i].state = "pending" <=> \E u \in Turn : Saving(u) /\ turn[u].answer = i
      BY <1>1 DEF TypeOK, Saving
    <3>2. \A u \in Turn : turn'[u].answer = turn[u].answer
      BY <1>3 DEF Alone, Rested
    <3>3. \A u \in Turn : Saving(u) /\ Saving(t) /\ turn[u].answer = turn[t].answer => u = t
      BY <1>1 DEF OpenAnswers
    <3> QED BY <1>4, <1>5, <3>1, <3>2, <3>3
  <2>3. \A u \in Turn : response'[u] = "open" =>
          turn'[u].pc \in {"history", "question", "retrieve", "stream", "answer", "saving", "finish"}
    BY <1>1, <1>3 DEF TypeOK, Alone
  <2>4. DOMAIN messages' = DOMAIN messages
    BY <1>4 DEF Undone, Marked
  <2> QED BY <1>3, <2>1, <2>2, <2>3, <2>4 DEF TypeOK, Alone, Saving
<1>7. /\ Reserved' /\ QuestionsBounded' /\ ClaimedFirst' /\ OneClaim'
      /\ \A i : IsAnswer(i)' = IsAnswer(i)
  <2>1. Storing' \subseteq Storing /\ StoringTwo' \subseteq StoringTwo /\ Admitted' \subseteq Admitted
    BY <1>3 DEF Storing, StoringTwo, Admitted, Alone, Rested
  <2>2. \A u \in Turn : Live(u)' => Live(u) /\ turn'[u].source = turn[u].source
    BY <1>3 DEF Live, Alone, Rested
  <2> QED BY <1>1, <1>2, <1>4, <2>1, <2>2, UndoneKeeps
<1>8. Shape' /\ Claiming'
  BY <1>1, <1>2, <1>3, <1>4 DEF Shape, Claiming, Alone, Rested, Undone, Marked
<1>9. OpenAnswers'
  BY <1>1, <1>3, <1>4, <1>5 DEF OpenAnswers, Alone, Undone, Marked
<1>10. Finishing' /\ DoneMeansStored'
  BY <1>1, <1>2, <1>3, <1>7 DEF Finishing, DoneMeansStored, Shape, Alone, Rested
<1>11. HistoryBeforeQuestion'
  BY <1>1, <1>3 DEF HistoryBeforeQuestion, Alone, Rested
<1> QED BY <1>6, <1>7, <1>8, <1>9, <1>10, <1>11 DEF IInv

(* The server dies. *)
LEMMA CrashKeeps ==
  ASSUME IInv, Crash
  PROVE  IInv'
<1>1. TypeOK /\ Reserved /\ Shape /\ Claiming /\ OpenAnswers /\ Finishing /\ ClaimedFirst
      /\ OneClaim /\ QuestionsBounded /\ DoneMeansStored /\ HistoryBeforeQuestion
  BY DEF IInv
<1>2. rating' = rating /\ claimed' = claimed /\ turn' = [u \in Turn |-> Over(u)]
  BY DEF Crash
<1>3. /\ turn' \in [Turn -> TurnRecord]
      /\ \A u \in Turn : Rested(u)
  <2>1. ASSUME NEW u \in Turn
        PROVE  Over(u) \in TurnRecord /\ Rested(u)
    <3>1. turn[u].text \in BOOLEAN /\ turn[u].answer \in Index \cup {0}
      BY <1>1 DEF TypeOK, TurnRecord
    <3>2. /\ Over(u).pc = "idle" /\ Over(u).kind = "none" /\ Over(u).question = 0
          /\ Over(u).source = 0 /\ Over(u).history = {}
          /\ Over(u).text = turn[u].text /\ Over(u).answer = turn[u].answer
      BY <3>1 DEF Over, NoTurn
    <3>3. Over(u) \in TurnRecord
      BY <3>1 DEF Over, NoTurn, TurnRecord, Pc, Rating
    <3>4. turn'[u] = Over(u)
      BY <1>2
    <3> QED BY <3>2, <3>3, <3>4 DEF Rested
  <2> QED BY <1>2, <2>1
<1>4. /\ response' \in [Turn -> {"none", "open", "done", "error", "gone"}]
      /\ \A u \in Turn : response'[u] = IF response[u] = "open" THEN "gone" ELSE response[u]
  BY <1>1 DEF Crash, TypeOK
<1>5. /\ Undone
      /\ \A i \in DOMAIN messages : messages'[i].state # "pending"
  <2>1. /\ Marked
        /\ \A i \in DOMAIN messages :
             messages'[i].state = IF messages[i].state = "pending" THEN "undone" ELSE messages[i].state
    BY <1>1, MarkAll DEF Crash
  <2> QED BY <2>1 DEF Undone
<1>6. TypeOK'
  <2>1. /\ messages' \in Seq(Message) /\ Len(messages') <= MaxMessages
        /\ rating' \in [Index -> Rating] /\ claimed' \in SUBSET DOMAIN messages'
        /\ DOMAIN messages' = DOMAIN messages
    BY <1>1, <1>2, <1>5 DEF TypeOK, Undone, Marked
  <2>2. \A u \in Turn : turn'[u].pc # "saving" /\ response'[u] # "open"
    BY <1>3, <1>4 DEF Rested
  <2> QED BY <1>3, <1>4, <1>5, <2>1, <2>2 DEF TypeOK
<1>7. /\ Reserved' /\ QuestionsBounded' /\ ClaimedFirst' /\ OneClaim'
      /\ \A i : IsAnswer(i)' = IsAnswer(i)
  <2>1. Storing' \subseteq Storing /\ StoringTwo' \subseteq StoringTwo /\ Admitted' \subseteq Admitted
    BY <1>3 DEF Storing, StoringTwo, Admitted, Rested
  <2>2. \A u \in Turn : ~ Live(u)'
    BY <1>3 DEF Live, Rested
  <2> QED BY <1>1, <1>2, <1>5, <2>1, <2>2, UndoneKeeps
<1>8. Shape' /\ Claiming' /\ OpenAnswers' /\ HistoryBeforeQuestion'
  BY <1>3 DEF Shape, Claiming, OpenAnswers, Saving, HistoryBeforeQuestion, Rested
<1>9. Finishing' /\ DoneMeansStored'
  BY <1>1, <1>3, <1>4, <1>7 DEF Finishing, DoneMeansStored, Rested
<1> QED BY <1>6, <1>7, <1>8, <1>9 DEF IInv

(* The answer is committed. *)
LEMMA CommitSaveKeeps ==
  ASSUME IInv, NEW t \in Turn, CommitSave(t)
  PROVE  IInv'
<1>1. TypeOK /\ Reserved /\ Shape /\ Claiming /\ OpenAnswers /\ Finishing /\ ClaimedFirst
      /\ OneClaim /\ QuestionsBounded /\ DoneMeansStored /\ HistoryBeforeQuestion
  BY DEF IInv
<1> DEFINE k == turn[t].answer
<1>2. /\ Saving(t) /\ rating' = rating /\ claimed' = claimed /\ response' = response
      /\ messages' = [messages EXCEPT ![k].state = "stored"]
      /\ turn' = [turn EXCEPT ![t].pc = "finish"]
  BY DEF CommitSave, Goto, Saving
<1>3. /\ turn' \in [Turn -> TurnRecord] /\ turn'[t].pc = "finish"
      /\ turn'[t].kind = turn[t].kind /\ turn'[t].source = turn[t].source
      /\ turn'[t].question = turn[t].question /\ turn'[t].history = turn[t].history
      /\ turn'[t].text = turn[t].text /\ turn'[t].answer = turn[t].answer
      /\ \A u \in Turn \ {t} : turn'[u] = turn[u]
  <2>1. turn \in [Turn -> TurnRecord] /\ "finish" \in Pc
    BY <1>1 DEF TypeOK, Pc
  <2> QED BY <1>2, <2>1, MovedTo
<1>4. /\ k \in DOMAIN messages /\ messages[k].state = "pending" /\ messages[k].role = "assistant"
      /\ messages[k].from = turn[t].source /\ ~ messages[k].posted
  BY <1>1, <1>2 DEF OpenAnswers, Saving, TypeOK
<1>5. Saving(t) /\ rating' = rating /\ claimed' = claimed /\ response' = response
  BY <1>2
<1>6. /\ Marked /\ messages'[k].state = "stored"
      /\ \A i \in DOMAIN messages \ {k} : messages'[i] = messages[i]
  <2> HIDE DEF k
  <2> QED BY <1>1, <1>2, <1>4, Mark
<1>7. \A u \in Turn : /\ Saving(u)' <=> Saving(u) /\ u # t
                      /\ turn'[u].answer = turn[u].answer /\ turn'[u].source = turn[u].source
  BY <1>3 DEF Saving
<1>8. \A u \in Turn : Live(u)' => Live(u) /\ turn'[u].source = turn[u].source /\ u # t
  BY <1>3 DEF Live
<1>9. /\ messages' \in Seq(Message) /\ Len(messages') = Len(messages)
      /\ DOMAIN messages' = DOMAIN messages
      /\ \A i \in DOMAIN messages :
           /\ messages'[i].role = messages[i].role /\ messages'[i].from = messages[i].from
           /\ messages'[i].posted = messages[i].posted
  BY <1>6 DEF Marked
<1> HIDE DEF k
<1>10. TypeOK'
  <2>1. ASSUME NEW i \in DOMAIN messages
        PROVE  messages'[i].state = "pending" <=> \E u \in Turn : Saving(u)' /\ turn'[u].answer = i
    <3>1. messages[i].state = "pending" <=> \E u \in Turn : Saving(u) /\ turn[u].answer = i
      BY <1>1 DEF TypeOK, Saving
    <3>2. \A u \in Turn : Saving(u) /\ turn[u].answer = k => u = t
      BY <1>1, <1>5 DEF OpenAnswers, k
    <3>3. CASE i = k
      BY <1>6, <1>7, <3>2, <3>3
    <3>4. CASE i # k
      BY <1>6, <1>7, <3>1, <3>4 DEF k
    <3> QED BY <3>3, <3>4
  <2>2. \A u \in Turn : response'[u] = "open" =>
          turn'[u].pc \in {"history", "question", "retrieve", "stream", "answer", "saving", "finish"}
    BY <1>1, <1>3, <1>5 DEF TypeOK
  <2> QED BY <1>1, <1>3, <1>5, <1>9, <2>1, <2>2 DEF TypeOK, Saving
<1>11. Reserved' /\ QuestionsBounded'
  <2>1. /\ Storing' \subseteq Storing /\ StoringTwo' \subseteq StoringTwo /\ Admitted' \subseteq Admitted
    BY <1>3 DEF Storing, StoringTwo, Admitted
  <2>2. Questions' \subseteq Questions
    BY <1>4, <1>6, <1>9 DEF Questions, Stored
  <2> QED BY <1>1, <1>9, <2>1, <2>2, NothingStored
<1>12. Shape' /\ Claiming' /\ HistoryBeforeQuestion'
  BY <1>1, <1>3, <1>5, <1>9 DEF Shape, Claiming, HistoryBeforeQuestion, Saving
<1>13. OpenAnswers'
  BY <1>1, <1>7, <1>9 DEF OpenAnswers
<1>14. \A i : IsAnswer(i) => IsAnswer(i)'
  BY <1>6, <1>9 DEF IsAnswer, Stored
<1>15. Finishing' /\ DoneMeansStored'
  <2>1. IsAnswer(turn[t].answer)'
    BY <1>3, <1>4, <1>6, <1>9 DEF IsAnswer, Stored, k
  <2> QED BY <1>1, <1>3, <1>5, <1>14, <2>1 DEF Finishing, DoneMeansStored
<1>16. ClaimedFirst'
  <2>1. claimed \subseteq DOMAIN messages
    BY <1>1 DEF TypeOK
  <2> QED BY <1>1, <1>5, <1>8, <1>9, <2>1 DEF ClaimedFirst, Proper
<1>17. OneClaim'
  <2>1. (\A i \in claimed : i # 0) /\ 0 \notin Index
    BY <1>1, Numbering DEF TypeOK, Index
  <2>2. turn[t].source # 0 => Live(t)
    BY <1>1, <1>5 DEF Shape, Live, Saving
  <2>3. \A u, v \in Turn : Live(u)' /\ Live(v)' /\ turn'[u].source = turn'[v].source => u = v
    BY <1>1, <1>8 DEF OneClaim
  <2>4. ASSUME NEW u \in Turn, NEW j \in DOMAIN messages', Live(u)', Again(j, turn[u].source)'
        PROVE  messages'[j].state # "stored"
    <3>1. Live(u) /\ u # t /\ turn[u].source # 0 /\ Again(j, turn[u].source)
      BY <1>1, <1>8, <1>9, <2>1, <2>4 DEF ClaimedFirst, Proper, Again
    <3>2. j # k
      BY <1>1, <1>4, <2>2, <3>1 DEF OneClaim, Again
    <3> QED BY <1>1, <1>6, <1>9, <3>1, <3>2 DEF OneClaim
  <2>5. ASSUME NEW i \in Index, NEW j \in DOMAIN messages', NEW l \in DOMAIN messages',
               Again(j, i)', Again(l, i)', messages'[j].state = "stored", messages'[l].state = "stored"
        PROVE  j = l
    <3>1. Again(j, i) /\ Again(l, i) /\ i # 0
      BY <1>9, <2>1, <2>5 DEF Again
    <3>2. \A m \in DOMAIN messages : Again(m, turn[t].source) /\ turn[t].source # 0
                                    => messages[m].state # "stored"
      BY <1>1, <2>2 DEF OneClaim
    <3>3. CASE j # k /\ l # k
      BY <1>1, <1>6, <1>9, <2>5, <3>1, <3>3 DEF OneClaim
    <3>4. CASE j = k \/ l = k
      BY <1>4, <1>6, <1>9, <2>5, <3>1, <3>2, <3>4 DEF Again
    <3> QED BY <3>3, <3>4
  <2> QED BY <2>3, <2>4, <2>5 DEF OneClaim
<1> QED BY <1>10, <1>11, <1>12, <1>13, <1>15, <1>16, <1>17 DEF IInv

-----------------------------------------------------------------------------
(* A session begins without messages, and without requests. *)
LEMMA InitEstablishes == Init => IInv
<1> SUFFICES ASSUME Init
             PROVE  IInv
  OBVIOUS
<1>1. /\ messages = <<>> /\ rating = [i \in Index |-> "none"] /\ claimed = {}
      /\ turn = [t \in Turn |-> NoTurn] /\ response = [t \in Turn |-> "none"]
  BY DEF Init
<1>2. NoTurn \in TurnRecord
  BY DEF NoTurn, TurnRecord, Pc, Rating
<1>3. /\ turn \in [Turn -> TurnRecord]
      /\ \A t \in Turn : /\ turn[t].pc = "idle" /\ turn[t].kind = "none" /\ turn[t].source = 0
                         /\ turn[t].question = 0 /\ turn[t].history = {}
  BY <1>1, <1>2 DEF NoTurn
<1>4. /\ messages \in Seq(Message) /\ Len(messages) = 0 /\ DOMAIN messages = {}
  BY <1>1
<1>5. TypeOK
  <2>1. rating \in [Index -> Rating] /\ response \in [Turn -> {"none", "open", "done", "error", "gone"}]
    BY <1>1 DEF Rating
  <2>2. \A t \in Turn : response[t] # "open"
    BY <1>1
  <2> QED BY <1>1, <1>3, <1>4, <2>1, <2>2, LimitsAssumption DEF TypeOK
<1>6. /\ Storing = {} /\ StoringTwo = {} /\ Admitted = {} /\ Questions = {}
  BY <1>3, <1>4 DEF Storing, StoringTwo, Admitted, Questions
<1>7. Cardinality({}) = 0 /\ Cardinality(Turn) \in Nat
  BY FS_EmptySet, FS_CardinalityType, TurnAssumption
<1>8. Reserved /\ QuestionsBounded
  BY <1>4, <1>6, <1>7, LimitsAssumption DEF Reserved, QuestionsBounded
<1>9. Shape /\ Claiming /\ OpenAnswers /\ Finishing /\ ClaimedFirst /\ OneClaim /\ HistoryBeforeQuestion
  BY <1>1, <1>3, <1>4 DEF Shape, Claiming, OpenAnswers, Saving, Finishing, ClaimedFirst, OneClaim, Proper, Again, Live,
                          HistoryBeforeQuestion
<1>10. DoneMeansStored
  BY <1>1 DEF DoneMeansStored
<1> QED BY <1>5, <1>8, <1>9, <1>10 DEF IInv

(* Every step keeps the invariant. *)
LEMMA StepKeeps == IInv /\ [Next]_vars => IInv'
<1> SUFFICES ASSUME IInv, [Next]_vars
             PROVE  IInv'
  OBVIOUS
<1>1. CASE UNCHANGED vars
  BY <1>1 DEF vars, IInv, TypeOK, Reserved, Storing, StoringTwo, Shape, Claiming, OpenAnswers, Saving,
              Finishing, ClaimedFirst, OneClaim, Proper, Again, Live, QuestionsBounded, Questions, Admitted,
              DoneMeansStored, HistoryBeforeQuestion, IsAnswer, Stored
<1>2. ASSUME NEW t \in Turn, Ask(t) \/ Post(t) \/ TurnStep(t) \/ Disconnect(t)
      PROVE  IInv'
  <2>1. CASE Ask(t)
    BY <2>1, AskKeeps
  <2>2. CASE Post(t)
    BY <2>2, PostKeeps
  <2>3. CASE Disconnect(t)
    BY <2>3, DisconnectKeeps
  <2>4. CASE TurnStep(t)
    BY <2>4, StorePostedKeeps, ClaimKeeps, RefuseClaimKeeps, ReadHistoryKeeps, StoreQuestionKeeps,
       GenerateKeeps, StreamEndsKeeps, BeginSaveKeeps, CommitSaveKeeps, FinishKeeps, FailKeeps
       DEF TurnStep
  <2> QED BY <1>2, <2>1, <2>2, <2>3, <2>4
<1>3. ASSUME NEW t \in Turn, NEW i \in DOMAIN messages, Regenerate(t, i)
      PROVE  IInv'
  BY <1>3, RegenerateKeeps
<1>4. ASSUME NEW i \in DOMAIN messages, NEW r \in {"GOOD", "BAD"}, Rate(i, r)
      PROVE  IInv'
  BY <1>4, RateKeeps
<1>5. CASE PostAnswer
  BY <1>5, PostAnswerKeeps
<1>6. CASE Crash
  BY <1>6, CrashKeeps
<1> QED BY <1>1, <1>2, <1>3, <1>4, <1>5, <1>6 DEF Next

(* The invariant holds whatever the requests do. *)
THEOREM ChatInvariant == Spec => []IInv
BY InitEstablishes, StepKeeps, PTL DEF Spec

(* Type correctness; the answers not yet committed are those of the turns whose
   transaction is open (createMessage). *)
THEOREM ChatTypeOK == Spec => []TypeOK
<1>1. IInv => TypeOK
  BY DEF IInv
<1> QED BY <1>1, ChatInvariant, PTL

(* The limit of questions is exceeded by one at most for every request in
   flight, however many there are (MAX_QUESTIONS_PER_SESSION). *)
THEOREM ChatQuestionsBounded == Spec => []QuestionsBounded
<1>1. IInv => QuestionsBounded
  BY DEF IInv
<1> QED BY <1>1, ChatInvariant, PTL

(* One claim means one regeneration. *)
LEMMA ClaimMeansOnce == IInv => RegeneratedOnce
<1> SUFFICES ASSUME IInv, NEW i \in DOMAIN messages
             PROVE  LET live == {t \in Turn : turn[t].kind = "regenerate" /\ turn[t].source = i
                                              /\ turn[t].pc \notin {"idle", "claim", "finish"}}
                        kept == {j \in DOMAIN messages :
                                   Stored(j) /\ messages[j].from = i /\ ~ messages[j].posted}
                    IN /\ Cardinality(live) + Cardinality(kept) <= 1
                       /\ live # {} \/ kept # {} =>
                            messages[i].role = "assistant" /\ messages[i].from = 0 /\ rating[i] # "none"
  BY DEF RegeneratedOnce
<1> DEFINE live == {t \in Turn : turn[t].kind = "regenerate" /\ turn[t].source = i
                                 /\ turn[t].pc \notin {"idle", "claim", "finish"}}
           kept == {j \in DOMAIN messages : Stored(j) /\ messages[j].from = i /\ ~ messages[j].posted}
<1>1. TypeOK /\ ClaimedFirst /\ OneClaim
  BY DEF IInv
<1>2. i \in Index /\ i # 0
  BY <1>1, Numbering DEF Index
<1>3. \A t, u \in live : t = u
  BY <1>1 DEF OneClaim, Live
<1>4. \A j, k \in kept : j = k
  BY <1>1, <1>2 DEF OneClaim, Again, Stored
<1>5. live = {} \/ kept = {}
  BY <1>1 DEF OneClaim, Live, Again, Stored
<1>6. live # {} \/ kept # {} => Proper(i)
  BY <1>1, <1>2 DEF ClaimedFirst, Live
<1> HIDE DEF live, kept
<1>7. /\ Cardinality(live) \in {0, 1} /\ (live = {} => Cardinality(live) = 0)
      /\ Cardinality(kept) \in {0, 1} /\ (kept = {} => Cardinality(kept) = 0)
  BY <1>3, <1>4, AtMostOne
<1>8. Cardinality(live) + Cardinality(kept) <= 1
  BY <1>5, <1>7
<1> QED BY <1>6, <1>8 DEF live, kept, Proper

(* The model regenerates an answer once, however many requests want it to,
   whatever clients say of the messages they post and whatever fails in between
   (getAnswerRegenerationTarget). *)
THEOREM ChatRegeneratedOnce == Spec => []RegeneratedOnce
BY ChatInvariant, ClaimMeansOnce, PTL

(* Whoever was told [DONE] after an answer finds that answer stored
   (handleStreamingResponse). *)
THEOREM ChatDoneMeansStored == Spec => []DoneMeansStored
<1>1. IInv => DoneMeansStored
  BY DEF IInv
<1> QED BY <1>1, ChatInvariant, PTL

(* The history sent to the model ends before the question of the turn. *)
THEOREM ChatHistoryBeforeQuestion == Spec => []HistoryBeforeQuestion
<1>1. IInv => HistoryBeforeQuestion
  BY DEF IInv
<1> QED BY <1>1, ChatInvariant, PTL

=============================================================================
