------------------------ MODULE UsageAggregatesProofs ------------------------
(***************************************************************************)
(* What the counters promise, for any number of answers, buckets and raters. *)
(*                                                                         *)
(* Whoever has written a row holds its lock until it commits, so that the    *)
(* committed row and the draft of its holder differ by exactly what the      *)
(* holder is about to count.  A recount is written while everything it has   *)
(* counted is locked: by the row, through which every committed change of a  *)
(* bucket's answers and bad ratings goes, or by the tables.                  *)
(***************************************************************************)
EXTENDS UsageAggregates, FiniteSetTheorems, TLAPS

(* The types of the state that TypeOK spells out. *)
BaseTypes ==
  /\ writer \in [Answer -> {"none", "inserted", "counting", "counted", "stored"}]
  /\ rating \in [Answer -> Rating \cup {"none"}]
  /\ row \in [Bucket -> Row] /\ draft \in [Bucket -> Row]
  /\ rowLock \in [Bucket -> Transaction \cup {None}]
  /\ answerLock \in [Answer -> Rater \cup {None}]
  /\ writes \in [Table -> SUBSET Transaction]
  /\ recorded \in [Bucket -> Nat]

(* The records behind the types of UsageAggregates. *)
Typed ==
  /\ rater \in [Rater -> [pc : RaterPc, answer : Answer \cup {None}, next : Rating \cup {"none"},
                          previous : Rating \cup {"none"}, read : Counts \cup {None}]]
  /\ backfill \in [running : BOOLEAN, held : 0 .. 3, read : [Bucket -> Counts] \cup {None}]
  /\ \A f \in Rater : rater[f].pc # "idle" => rater[f].answer \in Answer /\ rater[f].next \in Rating

(* The backfill holds a table only when nobody else writes to it. *)
Closed ==
  /\ \A i \in 1 .. 3 : i <= backfill.held => writes[Tables[i]] = {}
  /\ backfill.held > 0 => backfill.running

Locking ==
  /\ \A a \in Answer : LocksOfAnswer(a)
  /\ \A f \in Rater : LocksOfRater(f)
  /\ Closed

(* A rater that has read the rating knows what it replaces, and goes on to the
   counters only if they change. *)
Knows(f) ==
  /\ rater[f].pc # "idle" => Stored(rater[f].answer)
  /\ rater[f].pc \notin {"idle", "locked"} => rater[f].previous = rating[rater[f].answer]
  /\ rater[f].pc \in {"delta", "fast", "reconcile", "recount", "set"} => Delta(f) # 0
  /\ rater[f].read # None => rater[f].pc = "set" \/ (rater[f].pc = "commit" /\ Delta(f) # 0)
  /\ rater[f].pc = "set" => rater[f].read # None

Known ==
  /\ \A f \in Rater : Knows(f)
  /\ \A a \in Answer : ~ Stored(a) => rating[a] = "none"

(* A recount is still right when its result is written: whoever could change
   what it counted needs the row or the tables that are locked. *)
FreshRater(f) ==
  rater[f].read # None => rater[f].read = CountOf(BucketRated(f), RatingsSeenBy(f))

Fresh ==
  /\ \A f \in Rater : FreshRater(f)
  /\ backfill.read # None =>
       backfill.held = 3 /\ \A b \in Bucket : backfill.read[b] = CountOf(b, rating)

(* What a row will be when its holder commits. *)
Ahead(b, answers, bad) ==
  /\ draft[b].answers = row[b].answers + answers /\ draft[b].bad = row[b].bad + bad
  /\ draft[b].requests = row[b].requests

Recounted(b, counts) ==
  /\ draft[b].answers = counts.answers /\ draft[b].bad = counts.bad
  /\ draft[b].requests = row[b].requests

DraftOfAnswer(a) == writer[a] = "counted" => Ahead(BucketOf[a], 1, 0)

DraftOfRater(f) ==
  /\ rater[f].pc \in {"recount", "set"} => Ahead(BucketRated(f), 0, 0)
  /\ rater[f].pc = "commit" /\ Delta(f) # 0 =>
       IF rater[f].read = None THEN Ahead(BucketRated(f), 0, Delta(f))
       ELSE Recounted(BucketRated(f), rater[f].read)

Drafted ==
  /\ \A b \in Bucket : rowLock[b] = None => draft[b] = row[b]
  /\ \A a \in Answer : DraftOfAnswer(a)
  /\ \A f \in Rater : DraftOfRater(f)

(* The counters lack what they never counted, and nothing else. *)
NeverAhead ==
  \A b \in Bucket : /\ row[b].answers <= Cardinality(InBucket(b))
                    /\ row[b].requests = recorded[b]

IInv ==
  /\ BaseTypes /\ Typed /\ Locking /\ Known /\ Fresh /\ Drafted
  /\ BadWithinTotal /\ NeverAhead

-----------------------------------------------------------------------------
(* The three tables, in the order of the backfill. *)
LEMMA TablesAre ==
  /\ Table = {"messages", "message_feedbacks", "usage_daily"}
  /\ Tables[1] = "messages" /\ Tables[2] = "message_feedbacks" /\ Tables[3] = "usage_daily"
  /\ 1 \in 1 .. 3 /\ 2 \in 1 .. 3 /\ 3 \in 1 .. 3
<1>1. 1 .. 3 = {1, 2, 3}
  OBVIOUS
<1> QED BY <1>1 DEF Table, Tables

(* The parts add up to TypeOK. *)
LEMMA TypesFollow == IInv => TypeOK
<1> SUFFICES ASSUME IInv PROVE TypeOK
  OBVIOUS
<1>1. \A f \in Rater :
       /\ DOMAIN rater[f] = DOMAIN NoRating
       /\ rater[f].pc \in RaterPc
       /\ rater[f].pc # "idle" => rater[f].answer \in Answer /\ rater[f].next \in Rating
       /\ rater[f].previous \in Rating \cup {"none"}
       /\ rater[f].read \in Counts \cup {None}
  BY DEF IInv, Typed, NoRating
<1>2. /\ backfill.running \in BOOLEAN /\ backfill.held \in 0 .. 3
      /\ backfill.read \in [Bucket -> Counts] \cup {None}
  BY DEF IInv, Typed
<1> QED BY <1>1, <1>2 DEF TypeOK, IInv, BaseTypes, Locking

(* A bucket has finitely many answers, and a bad one is one of them. *)
LEMMA Countable ==
  ASSUME NEW b, NEW r
  PROVE  /\ IsFiniteSet(InBucket(b)) /\ IsFiniteSet({a \in InBucket(b) : r[a] = "BAD"})
         /\ CountOf(b, r) \in Counts
         /\ CountOf(b, r).answers = Cardinality(InBucket(b))
         /\ CountOf(b, r).bad = Cardinality({a \in InBucket(b) : r[a] = "BAD"})
         /\ CountOf(b, r).bad <= CountOf(b, r).answers
<1>1. InBucket(b) \subseteq Answer
  BY DEF InBucket
<1>2. IsFiniteSet(InBucket(b)) /\ Cardinality(InBucket(b)) \in Nat
  BY <1>1, BucketAssumption, FS_Subset, FS_CardinalityType
<1>3. /\ IsFiniteSet({a \in InBucket(b) : r[a] = "BAD"})
      /\ Cardinality({a \in InBucket(b) : r[a] = "BAD"}) \in Nat
      /\ Cardinality({a \in InBucket(b) : r[a] = "BAD"}) <= Cardinality(InBucket(b))
  BY <1>2, FS_Subset, FS_CardinalityType
<1> QED BY <1>2, <1>3 DEF CountOf, Counts

(* Two ratings that agree on what is bad in a bucket count the same. *)
LEMMA CountsAgree ==
  ASSUME NEW b, NEW r, NEW q, \A a \in InBucket(b) : r[a] = "BAD" <=> q[a] = "BAD"
  PROVE  CountOf(b, r) = CountOf(b, q)
<1>1. {a \in InBucket(b) : r[a] = "BAD"} = {a \in InBucket(b) : q[a] = "BAD"}
  OBVIOUS
<1> QED BY <1>1 DEF CountOf

(* A step that commits nothing keeps what a recount found, and the counters'
   distance from their source. *)
LEMMA NothingCommitted ==
  ASSUME IInv, \A a \in Answer : Stored(a)' <=> Stored(a), UNCHANGED <<rating, row, recorded>>
  PROVE  /\ NeverAhead'
         /\ \A b \in Bucket : Drift(b)' = Drift(b)
<1>1. ASSUME NEW b \in Bucket
      PROVE  InBucket(b)' = InBucket(b) /\ CountOf(b, rating)' = CountOf(b, rating)
  <2>1. InBucket(b)' = InBucket(b)
    BY DEF InBucket
  <2> QED BY <2>1 DEF CountOf
<1> QED BY <1>1 DEF IInv, NeverAhead, Drift

(* ... nor what a rater counted before. *)
LEMMA RecountRests ==
  ASSUME IInv, \A a \in Answer : Stored(a)' <=> Stored(a), UNCHANGED rating, NEW f \in Rater,
         rater'[f].read # None =>
           /\ rater'[f].read = rater[f].read
           /\ rater'[f].answer = rater[f].answer /\ rater'[f].next = rater[f].next
  PROVE  FreshRater(f)'
<1> SUFFICES ASSUME rater'[f].read # None
             PROVE  rater'[f].read = CountOf(BucketRated(f), RatingsSeenBy(f))'
  BY DEF FreshRater
<1>1. BucketRated(f)' = BucketRated(f) /\ RatingsSeenBy(f)' = RatingsSeenBy(f)
  BY DEF BucketRated, RatingsSeenBy
<1>2. InBucket(BucketRated(f))' = InBucket(BucketRated(f))
  BY <1>1 DEF InBucket
<1>3. CountOf(BucketRated(f), RatingsSeenBy(f))' = CountOf(BucketRated(f), RatingsSeenBy(f))
  BY <1>1, <1>2 DEF CountOf
<1> QED BY <1>3 DEF IInv, Fresh, FreshRater

(* ... and what the backfill has counted stays right. *)
LEMMA BackfillRests ==
  ASSUME IInv, \A a \in Answer : Stored(a)' <=> Stored(a), UNCHANGED rating,
         backfill'.read # None => backfill'.read = backfill.read /\ backfill'.held = 3,
         NEW b \in Bucket, backfill'.read # None
  PROVE  backfill'.held = 3 /\ backfill'.read[b] = CountOf(b, rating)'
<1>1. InBucket(b)' = InBucket(b)
  BY DEF InBucket
<1>2. CountOf(b, rating)' = CountOf(b, rating)
  BY <1>1 DEF CountOf
<1> QED BY <1>2 DEF IInv, Fresh

-----------------------------------------------------------------------------
(* A table that may be written is one that the backfill has not got to. *)
LEMMA WritableTables ==
  ASSUME IInv
  PROVE  /\ CanWrite("messages") => backfill.held = 0 /\ ~ backfill.running
         /\ CanWrite("message_feedbacks") => backfill.held < 2 /\ (backfill.running => backfill.held = 0)
         /\ CanWrite("usage_daily") => backfill.held < 3 /\ (backfill.running => backfill.held < 2)
BY TablesAre DEF IInv, Locking, Closed, Typed, CanWrite

(* A rater that does nothing keeps the locks it has. *)
LEMMA RaterLocksKeep ==
  ASSUME IInv, NEW f \in Rater, rater'[f] = rater[f],
         \A t \in Table : f \in writes'[t] <=> f \in writes[t],
         \A b \in Bucket : rowLock'[b] = f <=> rowLock[b] = f,
         \A a \in Answer : answerLock'[a] = f <=> answerLock[a] = f
  PROVE  LocksOfRater(f)'
<1>1. LocksOfRater(f)
  BY DEF IInv, Locking
<1>2. Delta(f)' = Delta(f) /\ BucketRated(f)' = BucketRated(f)
  BY DEF Delta, BucketRated
<1> QED BY <1>1, <1>2, TablesAre DEF LocksOfRater

(* What a transaction holds, and what it has made of a row, no step of another
   one changes. *)
LEMMA OthersKeep ==
  ASSUME IInv, NEW x,
         \A a \in Answer \ {x} : writer'[a] = writer[a],
         \A f \in Rater \ {x} : rater'[f] = rater[f],
         \A t \in Table, y \in Transaction \ {x} : y \in writes'[t] <=> y \in writes[t],
         \A b \in Bucket, y \in Transaction \ {x} : rowLock'[b] = y <=> rowLock[b] = y,
         \A a \in Answer, y \in Rater \ {x} : answerLock'[a] = y <=> answerLock[a] = y,
         \A b \in Bucket : rowLock[b] \notin {None, x} => draft'[b] = draft[b] /\ row'[b] = row[b]
  PROVE  /\ \A a \in Answer \ {x} : LocksOfAnswer(a)' /\ DraftOfAnswer(a)'
         /\ \A f \in Rater \ {x} : LocksOfRater(f)' /\ DraftOfRater(f)'
<1> USE TransactionAssumption, BucketAssumption
<1>1. ASSUME NEW a \in Answer \ {x}
      PROVE  LocksOfAnswer(a)' /\ DraftOfAnswer(a)'
  <2>1. LocksOfAnswer(a) /\ DraftOfAnswer(a) /\ writer'[a] = writer[a] /\ a \in Transaction
    BY DEF IInv, Locking, Drafted, Transaction
  <2>2. LocksOfAnswer(a)'
    BY <2>1, TablesAre DEF LocksOfAnswer
  <2>3. ASSUME writer[a] = "counted" PROVE Ahead(BucketOf[a], 1, 0)'
    <3>1. BucketOf[a] \in Bucket /\ rowLock[BucketOf[a]] = a
      BY <2>1, <2>3 DEF LocksOfAnswer
    <3> QED BY <2>1, <2>3, <3>1 DEF DraftOfAnswer, Ahead
  <2> QED BY <2>1, <2>2, <2>3 DEF DraftOfAnswer
<1>2. ASSUME NEW f \in Rater \ {x}
      PROVE  LocksOfRater(f)' /\ DraftOfRater(f)'
  <2>1. /\ LocksOfRater(f) /\ DraftOfRater(f) /\ rater'[f] = rater[f] /\ f \in Transaction
        /\ Delta(f)' = Delta(f) /\ BucketRated(f)' = BucketRated(f)
    BY DEF IInv, Locking, Drafted, Transaction, Delta, BucketRated
  <2>2. LocksOfRater(f)'
    <3>1. /\ \A t \in Table : f \in writes'[t] <=> f \in writes[t]
          /\ \A b \in Bucket : rowLock'[b] = f <=> rowLock[b] = f
          /\ \A a \in Answer : answerLock'[a] = f <=> answerLock[a] = f
      BY <2>1
    <3> QED BY <2>1, <3>1, RaterLocksKeep
  <2>3. CASE rater[f].pc \in {"recount", "set"} \/ (rater[f].pc = "commit" /\ Delta(f) # 0)
    <3>1. BucketRated(f) \in Bucket /\ rater[f].answer \in Answer
      BY <2>3 DEF IInv, Typed, BucketRated
    <3>2. rowLock[BucketRated(f)] = f
      BY <2>1, <2>3, <3>1 DEF LocksOfRater
    <3>3. draft'[BucketRated(f)] = draft[BucketRated(f)] /\ row'[BucketRated(f)] = row[BucketRated(f)]
      BY <3>1, <3>2
    <3> QED BY <2>1, <2>2, <3>3 DEF DraftOfRater, Ahead, Recounted
  <2>4. CASE ~ (rater[f].pc \in {"recount", "set"} \/ (rater[f].pc = "commit" /\ Delta(f) # 0))
    BY <2>1, <2>2, <2>4 DEF DraftOfRater
  <2> QED BY <2>3, <2>4
<1> QED BY <1>1, <1>2

(* A rater knows what it knew when nothing is committed and it does nothing. *)
LEMMA KnowsStill ==
  ASSUME IInv, \A a \in Answer : Stored(a)' <=> Stored(a), UNCHANGED rating, NEW f \in Rater,
         rater'[f] = rater[f]
  PROVE  Knows(f)'
<1>1. Knows(f) /\ Delta(f)' = Delta(f) /\ (rater[f].pc # "idle" => rater[f].answer \in Answer)
  BY DEF IInv, Known, Delta, Typed
<1>2. rater[f].pc # "idle" => (Stored(rater[f].answer)' <=> Stored(rater[f].answer))
  BY <1>1 DEF Stored
<1> QED BY <1>1, <1>2 DEF Knows

(* A step of the transaction of an answer, short of its commit. *)
LEMMA AnswerStepKeeps ==
  ASSUME IInv, NEW a \in Answer,
         \A c \in Answer \ {a} : writer'[c] = writer[c],
         ~ Stored(a), ~ Stored(a)',
         \A t \in Table, y \in Transaction \ {a} : y \in writes'[t] <=> y \in writes[t],
         \A b \in Bucket, y \in Transaction \ {a} : rowLock'[b] = y <=> rowLock[b] = y,
         \A b \in Bucket : rowLock[b] \notin {None, a} => draft'[b] = draft[b],
         UNCHANGED <<rating, row, answerLock, rater, backfill, recorded>>,
         BaseTypes', LocksOfAnswer(a)', DraftOfAnswer(a)', Closed', BadWithinTotal',
         \A b \in Bucket : rowLock'[b] = None => draft'[b] = row[b]
  PROVE  IInv'
<1> USE TransactionAssumption
<1>1. \A c \in Answer : Stored(c)' <=> Stored(c)
  BY DEF Stored
<1>2. /\ \A c \in Answer \ {a} : LocksOfAnswer(c)' /\ DraftOfAnswer(c)'
      /\ \A f \in Rater \ {a} : LocksOfRater(f)' /\ DraftOfRater(f)'
  BY OthersKeep
<1>3. Locking' /\ Drafted'
  BY <1>2 DEF Locking, Drafted
<1>4. Known'
  BY <1>1, KnowsStill DEF IInv, Known
<1>5. \A f \in Rater : FreshRater(f)'
  BY <1>1, RecountRests
<1>6. Fresh'
  BY <1>1, <1>5, BackfillRests DEF Fresh, IInv
<1>7. Typed'
  BY DEF IInv, Typed
<1>8. NeverAhead'
  BY <1>1, NothingCommitted
<1> QED BY <1>3, <1>4, <1>6, <1>7, <1>8 DEF IInv

(* The transaction of an answer inserts it ... *)
LEMMA InsertAnswerKeeps ==
  ASSUME IInv, NEW a \in Answer, InsertAnswer(a) PROVE IInv'
<1> USE TransactionAssumption, BucketAssumption
<1>1. /\ writer' = [writer EXCEPT ![a] = "inserted"] /\ writer[a] = "none"
      /\ writes' = [writes EXCEPT !["messages"] = @ \cup {a}]
      /\ UNCHANGED <<rating, row, draft, rowLock, answerLock, rater, backfill, recorded>>
      /\ CanWrite("messages")
  BY DEF InsertAnswer, OpenTable
<1>2. BaseTypes'
  BY <1>1, TablesAre DEF IInv, BaseTypes, Transaction
<1>3. ~ Stored(a) /\ ~ Stored(a)' /\ DraftOfAnswer(a)' /\ BadWithinTotal'
  BY <1>1 DEF Stored, DraftOfAnswer, IInv, BaseTypes, BadWithinTotal
<1>4. LocksOfAnswer(a)'
  BY <1>1, TablesAre DEF IInv, BaseTypes, Locking, LocksOfAnswer
<1>5. Closed'
  BY <1>1, WritableTables, TablesAre DEF IInv, Locking, Closed, Typed, BaseTypes
<1> QED BY <1>1, <1>2, <1>3, <1>4, <1>5, AnswerStepKeeps, TablesAre DEF IInv, BaseTypes, Drafted

(* ... reaches the counters ... *)
LEMMA OpenUsageForAnswerKeeps ==
  ASSUME IInv, NEW a \in Answer, OpenUsageForAnswer(a) PROVE IInv'
<1> USE TransactionAssumption, BucketAssumption
<1>1. /\ writer' = [writer EXCEPT ![a] = "counting"] /\ writer[a] = "inserted"
      /\ writes' = [writes EXCEPT !["usage_daily"] = @ \cup {a}]
      /\ UNCHANGED <<rating, row, draft, rowLock, answerLock, rater, backfill, recorded>>
      /\ CanWrite("usage_daily")
  BY DEF OpenUsageForAnswer, OpenTable
<1>2. BaseTypes'
  BY <1>1, TablesAre DEF IInv, BaseTypes, Transaction
<1>3. ~ Stored(a) /\ ~ Stored(a)' /\ DraftOfAnswer(a)' /\ BadWithinTotal'
  BY <1>1 DEF Stored, DraftOfAnswer, IInv, BaseTypes, BadWithinTotal
<1>4. LocksOfAnswer(a)'
  BY <1>1, TablesAre DEF IInv, BaseTypes, Locking, LocksOfAnswer
<1>5. Closed'
  BY <1>1, WritableTables, TablesAre DEF IInv, Locking, Closed, Typed, BaseTypes
<1> QED BY <1>1, <1>2, <1>3, <1>4, <1>5, AnswerStepKeeps, TablesAre DEF IInv, BaseTypes, Drafted

(* ... and counts the answer. *)
LEMMA CountAnswerKeeps ==
  ASSUME IInv, NEW a \in Answer, CountAnswer(a) PROVE IInv'
<1> USE TransactionAssumption, BucketAssumption
<1>1. PICK b \in Bucket : b = BucketOf[a]
  OBVIOUS
<1>2. /\ writer' = [writer EXCEPT ![a] = "counted"] /\ writer[a] = "counting"
      /\ rowLock[b] \in {None, a} /\ rowLock' = [rowLock EXCEPT ![b] = a]
      /\ draft' = [draft EXCEPT ![b].answers = @ + 1]
      /\ UNCHANGED <<rating, row, answerLock, writes, rater, backfill, recorded>>
  BY <1>1 DEF CountAnswer, LockRow
<1>3. rowLock[b] = None
  BY <1>2 DEF IInv, Locking, LocksOfAnswer
<1>4. draft[b] = row[b] /\ row[b] \in Row /\ draft \in [Bucket -> Row]
  BY <1>3 DEF IInv, BaseTypes, Drafted
<1>5. /\ draft'[b] = [row[b] EXCEPT !.answers = @ + 1] /\ draft'[b] \in Row
      /\ \A c \in Bucket \ {b} : draft'[c] = draft[c]
  <2>1. PICK r \in Row : r = row[b]
    BY <1>4
  <2>2. draft'[b] = [r EXCEPT !.answers = @ + 1] /\ \A c \in Bucket \ {b} : draft'[c] = draft[c]
    BY <1>2, <1>4, <2>1
  <2>3. [r EXCEPT !.answers = @ + 1] \in Row
    BY <2>1 DEF Row
  <2> QED BY <2>1, <2>2, <2>3
<1>6. draft' \in [Bucket -> Row]
  BY <1>2, <1>5 DEF IInv, BaseTypes
<1>7. BaseTypes'
  BY <1>2, <1>6 DEF IInv, BaseTypes, Transaction
<1>8. ~ Stored(a) /\ ~ Stored(a)'
  BY <1>2 DEF Stored, IInv, BaseTypes
<1>9. DraftOfAnswer(a)'
  BY <1>1, <1>2, <1>4, <1>5 DEF DraftOfAnswer, Ahead, Row
<1>10. BadWithinTotal'
  BY <1>2, <1>4, <1>5 DEF IInv, BadWithinTotal, Row
<1>11. LocksOfAnswer(a)'
  BY <1>1, <1>2, <1>3, TablesAre DEF IInv, BaseTypes, Locking, LocksOfAnswer
<1>12. Closed'
  BY <1>2 DEF IInv, Locking, Closed
<1>13. \A c \in Bucket : rowLock'[c] = None => draft'[c] = row[c]
  BY <1>2, <1>5 DEF IInv, BaseTypes, Drafted
<1>14. /\ \A c \in Answer \ {a} : writer'[c] = writer[c]
       /\ \A c \in Bucket, y \in Transaction \ {a} : rowLock'[c] = y <=> rowLock[c] = y
       /\ \A c \in Bucket : rowLock[c] \notin {None, a} => draft'[c] = draft[c]
  BY <1>2, <1>3, <1>5 DEF IInv, BaseTypes, Transaction
<1> QED BY <1>2, <1>7, <1>8, <1>9, <1>10, <1>11, <1>12, <1>13, <1>14, AnswerStepKeeps

(* Or the answer is given up. *)
LEMMA AbortAnswerKeeps ==
  ASSUME IInv, NEW a \in Answer, AbortAnswer(a) PROVE IInv'
<1> USE TransactionAssumption, BucketAssumption
<1>1. /\ writer' = [writer EXCEPT ![a] = "none"] /\ writer[a] \in {"inserted", "counting", "counted"}
      /\ rowLock' = [b \in Bucket |-> IF rowLock[b] = a THEN None ELSE rowLock[b]]
      /\ answerLock' = [c \in Answer |-> IF answerLock[c] = a THEN None ELSE answerLock[c]]
      /\ writes' = [t \in Table |-> writes[t] \ {a}]
      /\ draft' = [b \in Bucket |-> IF rowLock[b] = a THEN row[b] ELSE draft[b]]
      /\ UNCHANGED <<rating, row, rater, backfill, recorded>>
  BY DEF AbortAnswer, Release, Discard
<1>2. answerLock' = answerLock
  BY <1>1 DEF IInv, BaseTypes
<1>3. BaseTypes'
  BY <1>1, <1>2 DEF IInv, BaseTypes, Transaction
<1>4. ~ Stored(a) /\ ~ Stored(a)' /\ DraftOfAnswer(a)'
  BY <1>1 DEF Stored, DraftOfAnswer, IInv, BaseTypes
<1>5. BadWithinTotal'
  BY <1>1 DEF IInv, BadWithinTotal
<1>6. LocksOfAnswer(a)'
  BY <1>1, TablesAre DEF IInv, BaseTypes, Locking, LocksOfAnswer
<1>7. Closed'
  BY <1>1, TablesAre DEF IInv, Locking, Closed
<1>8. \A b \in Bucket : rowLock'[b] = None => draft'[b] = row[b]
  BY <1>1 DEF IInv, Drafted
<1>9. /\ \A c \in Answer \ {a} : writer'[c] = writer[c]
      /\ \A t \in Table, y \in Transaction \ {a} : y \in writes'[t] <=> y \in writes[t]
      /\ \A c \in Bucket, y \in Transaction \ {a} : rowLock'[c] = y <=> rowLock[c] = y
      /\ \A c \in Bucket : rowLock[c] \notin {None, a} => draft'[c] = draft[c]
  BY <1>1 DEF IInv, BaseTypes, Transaction
<1> QED BY <1>1, <1>2, <1>3, <1>4, <1>5, <1>6, <1>7, <1>8, <1>9, AnswerStepKeeps

-----------------------------------------------------------------------------
(* A step of a rating, short of its commit. *)
LEMMA RaterStepKeeps ==
  ASSUME IInv, NEW f \in Rater,
         \A g \in Rater \ {f} : rater'[g] = rater[g],
         \A t \in Table, y \in Transaction \ {f} : y \in writes'[t] <=> y \in writes[t],
         \A b \in Bucket, y \in Transaction \ {f} : rowLock'[b] = y <=> rowLock[b] = y,
         \A a \in Answer, y \in Rater \ {f} : answerLock'[a] = y <=> answerLock[a] = y,
         \A b \in Bucket : rowLock[b] \notin {None, f} => draft'[b] = draft[b],
         UNCHANGED <<writer, rating, row, backfill, recorded>>,
         BaseTypes', Typed', LocksOfRater(f)', DraftOfRater(f)', Knows(f)', FreshRater(f)',
         Closed', BadWithinTotal',
         \A b \in Bucket : rowLock'[b] = None => draft'[b] = row[b]
  PROVE  IInv'
<1> USE TransactionAssumption
<1>1. \A c \in Answer : Stored(c)' <=> Stored(c)
  BY DEF Stored
<1>2. /\ \A c \in Answer \ {f} : LocksOfAnswer(c)' /\ DraftOfAnswer(c)'
      /\ \A g \in Rater \ {f} : LocksOfRater(g)' /\ DraftOfRater(g)'
  BY OthersKeep
<1>3. Locking' /\ Drafted'
  BY <1>2 DEF Locking, Drafted
<1>4. \A g \in Rater \ {f} : Knows(g)' /\ FreshRater(g)'
  BY <1>1, KnowsStill, RecountRests
<1>5. Known'
  BY <1>1, <1>4 DEF IInv, Known
<1>6. Fresh'
  BY <1>1, <1>4, BackfillRests DEF Fresh, IInv
<1>7. NeverAhead'
  BY <1>1, NothingCommitted
<1> QED BY <1>3, <1>5, <1>6, <1>7 DEF IInv

(* A step of a rating that touches no lock and no row. *)
LEMMA RaterMoves ==
  ASSUME IInv, NEW f \in Rater, \A g \in Rater \ {f} : rater'[g] = rater[g], Typed',
         UNCHANGED <<writer, rating, row, draft, lockVars, backfill, recorded>>,
         LocksOfRater(f)', DraftOfRater(f)', Knows(f)', FreshRater(f)'
  PROVE  IInv'
<1>1. BaseTypes' /\ BadWithinTotal' /\ Closed'
  BY DEF IInv, BaseTypes, BadWithinTotal, Locking, Closed, lockVars
<1>2. \A b \in Bucket : rowLock'[b] = None => draft'[b] = row[b]
  BY DEF IInv, Drafted, lockVars
<1> QED BY <1>1, <1>2, RaterStepKeeps DEF lockVars

(* The fields of a rater that has a message. *)
LEMMA RaterFields ==
  ASSUME IInv, NEW f \in Rater
  PROVE  /\ rater[f].pc \in RaterPc /\ rater[f].previous \in Rating \cup {"none"}
         /\ rater[f].pc # "idle" => /\ rater[f].answer \in Answer /\ rater[f].next \in Rating
                                   /\ BucketRated(f) \in Bucket
         /\ rater[f].pc \notin {"set", "commit"} => rater[f].read = None
         /\ LocksOfRater(f) /\ Knows(f) /\ DraftOfRater(f) /\ FreshRater(f)
BY BucketAssumption DEF IInv, Typed, BucketRated, Known, Knows, Locking, Drafted, Fresh

(* What a rating holds, by where it is. *)
HasFeedback(f) == rater[f].pc \in {"delta", "fast", "reconcile", "recount", "set", "commit"}
HasRow(f) == rater[f].pc \in {"recount", "set"} \/ (rater[f].pc = "commit" /\ Delta(f) # 0)
HasUsage(f) == rater[f].pc \in {"fast", "reconcile"} \/ HasRow(f)

(* The locks of a rater, in these terms. *)
LEMMA RaterHolds ==
  ASSUME IInv, NEW f \in Rater
  PROVE  /\ \A a \in Answer : answerLock[a] = f <=> rater[f].pc # "idle" /\ a = rater[f].answer
         /\ f \notin writes["messages"]
         /\ f \in writes["message_feedbacks"] <=> HasFeedback(f)
         /\ f \in writes["usage_daily"] <=> HasUsage(f)
         /\ \A b \in Bucket : rowLock[b] = f <=> HasRow(f) /\ b = BucketRated(f)
BY DEF IInv, Locking, LocksOfRater, HasFeedback, HasUsage, HasRow

(* The locks of a rater that goes on with the same message. *)
LEMMA RaterLocksMove ==
  ASSUME IInv, NEW f \in Rater, rater[f].pc # "idle", rater'[f].pc # "idle",
         rater'[f].answer = rater[f].answer, UNCHANGED answerLock,
         f \notin writes'["messages"],
         f \in writes'["message_feedbacks"] <=> HasFeedback(f)',
         f \in writes'["usage_daily"] <=> HasUsage(f)',
         \A b \in Bucket : rowLock'[b] = f <=> HasRow(f)' /\ b = BucketRated(f)
  PROVE  LocksOfRater(f)'
<1>1. BucketRated(f)' = BucketRated(f)
  BY DEF BucketRated
<1>2. \A a \in Answer : answerLock'[a] = f <=> rater'[f].pc # "idle" /\ a = rater'[f].answer
  BY RaterHolds
<1> QED BY <1>1, <1>2 DEF LocksOfRater, HasFeedback, HasUsage, HasRow

(* The message is locked ... *)
LEMMA LockAnswerKeeps ==
  ASSUME IInv, NEW f \in Rater, NEW a \in Answer, NEW r \in Rating, LockAnswer(f, a, r) PROVE IInv'
<1> USE TransactionAssumption
<1>1. /\ rater[f].pc = "idle" /\ Stored(a) /\ answerLock[a] = None
      /\ answerLock' = [answerLock EXCEPT ![a] = f]
      /\ UNCHANGED <<writer, rating, row, draft, rowLock, writes, backfill, recorded>>
  BY DEF LockAnswer
<1>2. /\ rater'[f].pc = "locked" /\ rater'[f].answer = a /\ rater'[f].next = r
      /\ rater'[f].read = None
      /\ \A g \in Rater \ {f} : rater'[g] = rater[g]
  BY DEF LockAnswer, NoRating, IInv, Typed
<1>3. Typed'
  BY <1>1, <1>2 DEF LockAnswer, NoRating, IInv, Typed, RaterPc
<1>4. BaseTypes' /\ BadWithinTotal' /\ Closed'
  BY <1>1 DEF IInv, BaseTypes, BadWithinTotal, Locking, Closed
<1>5. LocksOfRater(f)'
  <2>1. LocksOfRater(f)
    BY RaterFields
  <2>2. \A c \in Answer : answerLock'[c] = f <=> c = a
    BY <1>1, <2>1 DEF IInv, BaseTypes, LocksOfRater
  <2> QED BY <1>1, <1>2, <2>1, <2>2 DEF LocksOfRater
<1>6. DraftOfRater(f)' /\ FreshRater(f)'
  BY <1>2 DEF DraftOfRater, FreshRater
<1>7. Knows(f)'
  BY <1>1, <1>2 DEF Knows, Stored
<1>8. \A c \in Answer, y \in Rater \ {f} : answerLock'[c] = y <=> answerLock[c] = y
  BY <1>1 DEF IInv, BaseTypes
<1>9. \A b \in Bucket : rowLock'[b] = None => draft'[b] = row[b]
  BY <1>1 DEF IInv, Drafted
<1> QED BY <1>1, <1>2, <1>3, <1>4, <1>5, <1>6, <1>7, <1>8, <1>9, RaterStepKeeps

(* ... the rating that is there is read ... *)
LEMMA ReadPreviousKeeps ==
  ASSUME IInv, NEW f \in Rater, ReadPrevious(f) PROVE IInv'
<1>1. rater[f].pc = "locked" /\ rater[f].answer \in Answer /\ rater[f].read = None
  BY RaterFields DEF ReadPrevious
<1>2. /\ rater'[f].pc = "upsert" /\ rater'[f].answer = rater[f].answer /\ rater'[f].next = rater[f].next
      /\ rater'[f].read = None /\ rater'[f].previous = rating[rater[f].answer]
      /\ \A g \in Rater \ {f} : rater'[g] = rater[g]
  BY <1>1 DEF ReadPrevious, IInv, Typed
<1>3. Typed'
  <2>1. rating[rater[f].answer] \in Rating \cup {"none"}
    BY <1>1 DEF IInv, BaseTypes
  <2> QED BY <1>1, <1>2, <2>1 DEF ReadPrevious, IInv, Typed, RaterPc
<1>4. UNCHANGED <<writer, rating, row, draft, lockVars, backfill, recorded>>
  BY DEF ReadPrevious
<1>5. LocksOfRater(f)'
  <2>1. ~ HasFeedback(f) /\ ~ HasUsage(f) /\ ~ HasRow(f) /\ ~ HasFeedback(f)' /\ ~ HasUsage(f)' /\ ~ HasRow(f)'
    BY <1>1, <1>2 DEF HasFeedback, HasUsage, HasRow
  <2> QED BY <1>1, <1>2, <1>4, <2>1, RaterHolds, RaterLocksMove DEF lockVars
<1>6. DraftOfRater(f)' /\ FreshRater(f)'
  BY <1>2 DEF DraftOfRater, FreshRater
<1>7. Knows(f)'
  BY <1>1, <1>2, <1>4, RaterFields DEF Knows, Stored
<1> QED BY <1>2, <1>3, <1>4, <1>5, <1>6, <1>7, RaterMoves

(* ... and replaced. *)
LEMMA UpsertRatingKeeps ==
  ASSUME IInv, NEW f \in Rater, UpsertRating(f) PROVE IInv'
<1> USE TransactionAssumption
<1>1. /\ rater[f].pc = "upsert" /\ rater[f].answer \in Answer /\ rater[f].read = None
      /\ writes' = [writes EXCEPT !["message_feedbacks"] = @ \cup {f}] /\ CanWrite("message_feedbacks")
      /\ UNCHANGED <<writer, rating, row, draft, rowLock, answerLock, backfill, recorded>>
  BY RaterFields DEF UpsertRating, OpenTable
<1>2. PICK p \in {"commit", "delta"} :
        /\ rater' = [rater EXCEPT ![f].pc = p]
        /\ p = "commit" <=> Delta(f) = 0
  BY DEF UpsertRating, Goto
<1>3. /\ rater'[f].pc = p /\ rater'[f].answer = rater[f].answer /\ rater'[f].next = rater[f].next
      /\ rater'[f].read = None /\ rater'[f].previous = rater[f].previous
      /\ \A g \in Rater \ {f} : rater'[g] = rater[g]
  BY <1>1, <1>2 DEF IInv, Typed
<1>4. Typed'
  BY <1>1, <1>2, <1>3 DEF IInv, Typed, RaterPc
<1>5. Delta(f)' = Delta(f) /\ BucketRated(f)' = BucketRated(f)
  BY <1>3 DEF Delta, BucketRated
<1>6. BaseTypes'
  BY <1>1, TablesAre DEF IInv, BaseTypes, Transaction
<1>7. BadWithinTotal'
  BY <1>1 DEF IInv, BadWithinTotal
<1>8. Closed'
  BY <1>1, WritableTables, TablesAre DEF IInv, Locking, Closed, Typed, BaseTypes
<1>9. LocksOfRater(f)'
  <2>1. ~ HasUsage(f) /\ ~ HasRow(f) /\ HasFeedback(f)' /\ ~ HasUsage(f)' /\ ~ HasRow(f)'
    BY <1>1, <1>2, <1>3, <1>5 DEF HasFeedback, HasUsage, HasRow
  <2>2. writes'["messages"] = writes["messages"] /\ f \in writes'["message_feedbacks"]
        /\ writes'["usage_daily"] = writes["usage_daily"]
    BY <1>1, TablesAre DEF IInv, BaseTypes
  <2> QED BY <1>1, <1>2, <1>3, <2>1, <2>2, RaterHolds, RaterLocksMove
<1>10. DraftOfRater(f)' /\ FreshRater(f)'
  BY <1>2, <1>3, <1>5 DEF DraftOfRater, FreshRater
<1>11. Knows(f)'
  BY <1>1, <1>2, <1>3, <1>5, RaterFields DEF Knows, Stored
<1>12. \A t \in Table, y \in Transaction \ {f} : y \in writes'[t] <=> y \in writes[t]
  BY <1>1, TablesAre DEF IInv, BaseTypes
<1>13. \A b \in Bucket : rowLock'[b] = None => draft'[b] = row[b]
  BY <1>1 DEF IInv, Drafted
<1> QED BY <1>1, <1>3, <1>4, <1>6, <1>7, <1>8, <1>9, <1>10, <1>11, <1>12, <1>13, RaterStepKeeps

(* The counters are reached ... *)
LEMMA OpenUsageForRatingKeeps ==
  ASSUME IInv, NEW f \in Rater, OpenUsageForRating(f) PROVE IInv'
<1> USE TransactionAssumption
<1>1. /\ rater[f].pc = "delta" /\ rater[f].answer \in Answer /\ rater[f].read = None
      /\ writes' = [writes EXCEPT !["usage_daily"] = @ \cup {f}] /\ CanWrite("usage_daily")
      /\ UNCHANGED <<writer, rating, row, draft, rowLock, answerLock, backfill, recorded>>
  BY RaterFields DEF OpenUsageForRating, OpenTable
<1>2. /\ rater'[f].pc = "fast" /\ rater'[f].answer = rater[f].answer /\ rater'[f].next = rater[f].next
      /\ rater'[f].read = None /\ rater'[f].previous = rater[f].previous
      /\ \A g \in Rater \ {f} : rater'[g] = rater[g]
  BY <1>1 DEF OpenUsageForRating, Goto, IInv, Typed
<1>3. Typed'
  BY <1>1, <1>2 DEF OpenUsageForRating, Goto, IInv, Typed, RaterPc
<1>4. Delta(f)' = Delta(f) /\ BucketRated(f)' = BucketRated(f)
  BY <1>2 DEF Delta, BucketRated
<1>5. BaseTypes'
  BY <1>1, TablesAre DEF IInv, BaseTypes, Transaction
<1>6. BadWithinTotal'
  BY <1>1 DEF IInv, BadWithinTotal
<1>7. Closed'
  BY <1>1, WritableTables, TablesAre DEF IInv, Locking, Closed, Typed, BaseTypes
<1>8. LocksOfRater(f)'
  <2>1. HasFeedback(f) /\ HasFeedback(f)' /\ HasUsage(f)' /\ ~ HasRow(f) /\ ~ HasRow(f)'
    BY <1>1, <1>2 DEF HasFeedback, HasUsage, HasRow
  <2>2. writes'["messages"] = writes["messages"] /\ f \in writes'["usage_daily"]
        /\ writes'["message_feedbacks"] = writes["message_feedbacks"]
    BY <1>1, TablesAre DEF IInv, BaseTypes
  <2> QED BY <1>1, <1>2, <2>1, <2>2, RaterHolds, RaterLocksMove
<1>9. DraftOfRater(f)' /\ FreshRater(f)'
  BY <1>2, <1>4 DEF DraftOfRater, FreshRater
<1>10. Knows(f)'
  BY <1>1, <1>2, <1>4, RaterFields DEF Knows, Stored
<1>11. \A t \in Table, y \in Transaction \ {f} : y \in writes'[t] <=> y \in writes[t]
  BY <1>1, TablesAre DEF IInv, BaseTypes
<1>12. \A b \in Bucket : rowLock'[b] = None => draft'[b] = row[b]
  BY <1>1 DEF IInv, Drafted
<1> QED BY <1>1, <1>2, <1>3, <1>5, <1>6, <1>7, <1>8, <1>9, <1>10, <1>11, <1>12, RaterStepKeeps

(* ... in one statement, if the row has room for the change ... *)
LEMMA FastPathKeeps ==
  ASSUME IInv, NEW f \in Rater, FastPath(f) PROVE IInv'
<1> USE TransactionAssumption
<1>1. PICK b \in Bucket : b = BucketRated(f)
  BY RaterFields DEF FastPath
<1>2. /\ rater[f].pc = "fast" /\ rater[f].answer \in Answer /\ rater[f].read = None
      /\ KeepsCheck(row[b], Delta(f))
      /\ rowLock[b] \in {None, f} /\ rowLock' = [rowLock EXCEPT ![b] = f]
      /\ draft' = [draft EXCEPT ![b].bad = @ + Delta(f)]
      /\ UNCHANGED <<writer, rating, row, answerLock, writes, backfill, recorded>>
  BY <1>1, RaterFields DEF FastPath, LockRow
<1>3. /\ rater'[f].pc = "commit" /\ rater'[f].answer = rater[f].answer /\ rater'[f].next = rater[f].next
      /\ rater'[f].read = None /\ rater'[f].previous = rater[f].previous
      /\ \A g \in Rater \ {f} : rater'[g] = rater[g]
  BY <1>2 DEF FastPath, Goto, IInv, Typed
<1>4. Typed'
  BY <1>2, <1>3 DEF FastPath, Goto, IInv, Typed, RaterPc
<1>5. Delta(f)' = Delta(f) /\ BucketRated(f)' = BucketRated(f)
  BY <1>3 DEF Delta, BucketRated
<1>6. ~ HasRow(f) /\ rowLock[b] = None
  BY <1>1, <1>2, RaterHolds DEF HasRow
<1>7. draft[b] = row[b] /\ row[b] \in Row /\ Delta(f) \in Int
  BY <1>6 DEF IInv, BaseTypes, Drafted, Delta
<1>8. /\ draft'[b] = [row[b] EXCEPT !.bad = @ + Delta(f)]
      /\ \A c \in Bucket \ {b} : draft'[c] = draft[c]
  BY <1>2, <1>7 DEF IInv, BaseTypes
<1>9. /\ draft'[b].answers = row[b].answers /\ draft'[b].bad = row[b].bad + Delta(f)
      /\ draft'[b].requests = row[b].requests
      /\ 0 <= draft'[b].bad /\ draft'[b].bad <= draft'[b].answers
      /\ draft'[b] \in Row
  <2>1. row[b].bad + Delta(f) \in Nat
    BY <1>2, <1>7 DEF KeepsCheck, Row
  <2> QED BY <1>2, <1>7, <1>8, <2>1 DEF KeepsCheck, Row
<1>10. BaseTypes'
  <2>1. draft' \in [Bucket -> Row]
    BY <1>2, <1>8, <1>9 DEF IInv, BaseTypes
  <2> QED BY <1>2, <2>1 DEF IInv, BaseTypes, Transaction
<1>11. BadWithinTotal'
  BY <1>2, <1>8, <1>9 DEF IInv, BadWithinTotal
<1>12. Closed'
  BY <1>2 DEF IInv, Locking, Closed
<1>13. LocksOfRater(f)'
  <2>1. HasFeedback(f) /\ HasFeedback(f)' /\ HasUsage(f) /\ HasUsage(f)' /\ HasRow(f)'
    BY <1>2, <1>3, <1>5, RaterFields DEF HasFeedback, HasUsage, HasRow, Knows
  <2>2. \A c \in Bucket : rowLock'[c] = f <=> c = b
    BY <1>1, <1>2, <1>6, RaterHolds DEF IInv, BaseTypes
  <2> QED BY <1>1, <1>2, <1>3, <2>1, <2>2, RaterHolds, RaterLocksMove
<1>14. DraftOfRater(f)'
  <2>1. draft'[b].answers = row'[b].answers + 0 /\ draft'[b].bad = row'[b].bad + Delta(f)
    BY <1>2, <1>7, <1>9 DEF Row
  <2>2. draft'[b].requests = row'[b].requests
    BY <1>2, <1>9
  <2>3. Ahead(b, 0, Delta(f))'
    BY <1>5, <2>1, <2>2 DEF Ahead
  <2> QED BY <1>1, <1>3, <1>5, <2>3 DEF DraftOfRater
<1>15. FreshRater(f)'
  BY <1>3 DEF FreshRater
<1>16. Knows(f)'
  BY <1>2, <1>3, <1>5, RaterFields DEF Knows, Stored
<1>17. \A c \in Bucket, y \in Transaction \ {f} : rowLock'[c] = y <=> rowLock[c] = y
  BY <1>2, <1>6 DEF IInv, BaseTypes, Transaction
<1>18. /\ \A c \in Bucket : rowLock[c] \notin {None, f} => draft'[c] = draft[c]
       /\ \A c \in Bucket : rowLock'[c] = None => draft'[c] = row[c]
  BY <1>2, <1>6, <1>8 DEF IInv, BaseTypes, Drafted
<1> QED BY <1>2, <1>3, <1>4, <1>10, <1>11, <1>12, <1>13, <1>14, <1>15, <1>16, <1>17, <1>18, RaterStepKeeps

(* ... or not: then the bucket is recounted. *)
LEMMA MissFastPathKeeps ==
  ASSUME IInv, NEW f \in Rater, MissFastPath(f) PROVE IInv'
<1>1. /\ rater[f].pc = "fast" /\ rater[f].answer \in Answer /\ rater[f].read = None
      /\ UNCHANGED <<writer, rating, row, draft, lockVars, backfill, recorded>>
  BY RaterFields DEF MissFastPath
<1>2. /\ rater'[f].pc = "reconcile" /\ rater'[f].answer = rater[f].answer /\ rater'[f].next = rater[f].next
      /\ rater'[f].read = None /\ rater'[f].previous = rater[f].previous
      /\ \A g \in Rater \ {f} : rater'[g] = rater[g]
  BY <1>1 DEF MissFastPath, Goto, IInv, Typed
<1>3. Typed'
  BY <1>1, <1>2 DEF MissFastPath, Goto, IInv, Typed, RaterPc
<1>4. Delta(f)' = Delta(f) /\ BucketRated(f)' = BucketRated(f)
  BY <1>2 DEF Delta, BucketRated
<1>5. LocksOfRater(f)'
  <2>1. HasFeedback(f) /\ HasFeedback(f)' /\ HasUsage(f) /\ HasUsage(f)' /\ ~ HasRow(f) /\ ~ HasRow(f)'
    BY <1>1, <1>2 DEF HasFeedback, HasUsage, HasRow
  <2> QED BY <1>1, <1>2, <2>1, RaterHolds, RaterLocksMove DEF lockVars
<1>6. DraftOfRater(f)' /\ FreshRater(f)'
  BY <1>2 DEF DraftOfRater, FreshRater
<1>7. Knows(f)'
  BY <1>1, <1>2, <1>4, RaterFields DEF Knows, Stored
<1> QED BY <1>1, <1>2, <1>3, <1>5, <1>6, <1>7, RaterMoves

(* The row is locked ... *)
LEMMA LockBucketKeeps ==
  ASSUME IInv, NEW f \in Rater, LockBucket(f) PROVE IInv'
<1> USE TransactionAssumption
<1>1. PICK b \in Bucket : b = BucketRated(f)
  BY RaterFields DEF LockBucket
<1>2. /\ rater[f].pc = "reconcile" /\ rater[f].answer \in Answer /\ rater[f].read = None
      /\ rowLock[b] \in {None, f} /\ rowLock' = [rowLock EXCEPT ![b] = f]
      /\ UNCHANGED <<writer, rating, row, draft, answerLock, writes, backfill, recorded>>
  BY <1>1, RaterFields DEF LockBucket, LockRow
<1>3. /\ rater'[f].pc = "recount" /\ rater'[f].answer = rater[f].answer /\ rater'[f].next = rater[f].next
      /\ rater'[f].read = None /\ rater'[f].previous = rater[f].previous
      /\ \A g \in Rater \ {f} : rater'[g] = rater[g]
  BY <1>2 DEF LockBucket, Goto, IInv, Typed
<1>4. Typed'
  BY <1>2, <1>3 DEF LockBucket, Goto, IInv, Typed, RaterPc
<1>5. Delta(f)' = Delta(f) /\ BucketRated(f)' = BucketRated(f)
  BY <1>3 DEF Delta, BucketRated
<1>6. ~ HasRow(f) /\ rowLock[b] = None
  BY <1>1, <1>2, RaterHolds DEF HasRow
<1>7. draft[b] = row[b] /\ row[b] \in Row
  BY <1>6 DEF IInv, BaseTypes, Drafted
<1>8. BaseTypes' /\ BadWithinTotal' /\ Closed'
  BY <1>2 DEF IInv, BaseTypes, Transaction, BadWithinTotal, Locking, Closed
<1>9. LocksOfRater(f)'
  <2>1. HasFeedback(f) /\ HasFeedback(f)' /\ HasUsage(f) /\ HasUsage(f)' /\ HasRow(f)'
    BY <1>2, <1>3 DEF HasFeedback, HasUsage, HasRow
  <2>2. \A c \in Bucket : rowLock'[c] = f <=> c = b
    BY <1>1, <1>2, <1>6, RaterHolds DEF IInv, BaseTypes
  <2> QED BY <1>1, <1>2, <1>3, <2>1, <2>2, RaterHolds, RaterLocksMove
<1>10. DraftOfRater(f)' /\ FreshRater(f)'
  BY <1>1, <1>2, <1>3, <1>5, <1>7 DEF DraftOfRater, Ahead, FreshRater, Row
<1>11. Knows(f)'
  BY <1>2, <1>3, <1>5, RaterFields DEF Knows, Stored
<1>12. \A c \in Bucket, y \in Transaction \ {f} : rowLock'[c] = y <=> rowLock[c] = y
  BY <1>2, <1>6 DEF IInv, BaseTypes, Transaction
<1>13. \A c \in Bucket : rowLock'[c] = None => draft'[c] = row[c]
  BY <1>2, <1>6 DEF IInv, BaseTypes, Drafted
<1> QED BY <1>2, <1>3, <1>4, <1>8, <1>9, <1>10, <1>11, <1>12, <1>13, RaterStepKeeps

(* ... the bucket is counted ... *)
LEMMA RecountKeeps ==
  ASSUME IInv, NEW f \in Rater, Recount(f) PROVE IInv'
<1>1. /\ rater[f].pc = "recount" /\ rater[f].answer \in Answer
      /\ UNCHANGED <<writer, rating, row, draft, lockVars, backfill, recorded>>
  BY RaterFields DEF Recount
<1>2. PICK c \in Counts : c = CountOf(BucketRated(f), RatingsSeenBy(f))
  BY Countable
<1>3. rater' = [rater EXCEPT ![f].pc = "set", ![f].read = c]
  BY <1>2 DEF Recount
<1>4. /\ rater'[f].pc = "set" /\ rater'[f].answer = rater[f].answer /\ rater'[f].next = rater[f].next
      /\ rater'[f].read = c /\ rater'[f].previous = rater[f].previous
      /\ \A g \in Rater \ {f} : rater'[g] = rater[g]
  BY <1>3 DEF IInv, Typed
<1>5. Typed'
  BY <1>1, <1>3, <1>4 DEF IInv, Typed, RaterPc
<1>6. /\ Delta(f)' = Delta(f) /\ BucketRated(f)' = BucketRated(f)
      /\ RatingsSeenBy(f)' = RatingsSeenBy(f)
  BY <1>1, <1>4 DEF Delta, BucketRated, RatingsSeenBy
<1>7. LocksOfRater(f)'
  <2>1. HasFeedback(f) /\ HasFeedback(f)' /\ HasUsage(f) /\ HasUsage(f)' /\ HasRow(f) /\ HasRow(f)'
    BY <1>1, <1>4 DEF HasFeedback, HasUsage, HasRow
  <2> QED BY <1>1, <1>4, <2>1, RaterHolds, RaterLocksMove DEF lockVars
<1>8. DraftOfRater(f)'
  BY <1>1, <1>4, <1>6, RaterFields DEF DraftOfRater, Ahead
<1>9. FreshRater(f)'
  <2>1. InBucket(BucketRated(f))' = InBucket(BucketRated(f))
    BY <1>1, <1>6 DEF InBucket, Stored
  <2>2. CountOf(BucketRated(f), RatingsSeenBy(f))' = CountOf(BucketRated(f), RatingsSeenBy(f))
    BY <1>6, <2>1 DEF CountOf
  <2> QED BY <1>2, <1>4, <2>2 DEF FreshRater
<1>10. Knows(f)'
  BY <1>1, <1>2, <1>4, <1>6, RaterFields, CountsAssumption DEF Knows, Stored
<1> QED BY <1>1, <1>4, <1>5, <1>7, <1>8, <1>9, <1>10, RaterMoves

(* ... and the row is set to what was counted. *)
LEMMA SetBucketKeeps ==
  ASSUME IInv, NEW f \in Rater, SetBucket(f) PROVE IInv'
<1> USE TransactionAssumption
<1>1. PICK b \in Bucket : b = BucketRated(f)
  BY RaterFields DEF SetBucket
<1>2. /\ rater[f].pc = "set" /\ rater[f].answer \in Answer /\ rater[f].read # None /\ Delta(f) # 0
      /\ rowLock' = [rowLock EXCEPT ![b] = f]
      /\ draft' = [draft EXCEPT ![b].answers = rater[f].read.answers, ![b].bad = rater[f].read.bad]
      /\ UNCHANGED <<writer, rating, row, answerLock, writes, backfill, recorded>>
  BY <1>1, RaterFields DEF SetBucket, LockRow, Knows
<1>3. /\ rater'[f].pc = "commit" /\ rater'[f].answer = rater[f].answer /\ rater'[f].next = rater[f].next
      /\ rater'[f].read = rater[f].read /\ rater'[f].previous = rater[f].previous
      /\ \A g \in Rater \ {f} : rater'[g] = rater[g]
  BY <1>2 DEF SetBucket, Goto, IInv, Typed
<1>4. Typed'
  BY <1>2, <1>3 DEF SetBucket, Goto, IInv, Typed, RaterPc
<1>5. /\ Delta(f)' = Delta(f) /\ BucketRated(f)' = BucketRated(f)
      /\ RatingsSeenBy(f)' = RatingsSeenBy(f)
  BY <1>2, <1>3 DEF Delta, BucketRated, RatingsSeenBy
<1>6. HasRow(f) /\ rowLock[b] = f
  BY <1>1, <1>2, RaterHolds DEF HasRow
<1>7. rowLock' = rowLock
  BY <1>2, <1>6 DEF IInv, BaseTypes
<1>8. PICK c \in Counts : c = rater[f].read /\ c.bad <= c.answers
  BY <1>2, RaterFields, Countable DEF FreshRater
<1>9. draft[b] \in Row /\ draft[b].requests = row[b].requests
  BY <1>1, <1>2, RaterFields DEF IInv, BaseTypes, DraftOfRater, Ahead
<1>10. /\ draft'[b] = [draft[b] EXCEPT !.answers = c.answers, !.bad = c.bad]
       /\ \A d \in Bucket \ {b} : draft'[d] = draft[d]
  BY <1>2, <1>8 DEF IInv, BaseTypes
<1>11. /\ draft'[b].answers = c.answers /\ draft'[b].bad = c.bad /\ draft'[b].requests = row[b].requests
       /\ 0 <= c.bad /\ draft'[b] \in Row
  <2>1. PICK d \in Row : d = draft[b]
    BY <1>9
  <2>2. draft'[b] = [answers |-> c.answers, bad |-> c.bad, requests |-> d.requests]
    BY <1>10, <2>1 DEF Row
  <2>3. c.answers \in Nat /\ c.bad \in Nat /\ d.requests \in Nat
    BY <2>1 DEF Row, Counts
  <2> QED BY <1>9, <2>1, <2>2, <2>3 DEF Row
<1>12. BaseTypes'
  <2>1. draft' \in [Bucket -> Row]
    BY <1>2, <1>10, <1>11 DEF IInv, BaseTypes
  <2> QED BY <1>2, <1>7, <2>1 DEF IInv, BaseTypes
<1>13. BadWithinTotal'
  BY <1>2, <1>8, <1>10, <1>11 DEF IInv, BadWithinTotal
<1>14. Closed'
  BY <1>2 DEF IInv, Locking, Closed
<1>15. LocksOfRater(f)'
  <2>1. HasFeedback(f) /\ HasFeedback(f)' /\ HasUsage(f) /\ HasUsage(f)' /\ HasRow(f)'
    BY <1>2, <1>3, <1>5 DEF HasFeedback, HasUsage, HasRow
  <2> QED BY <1>2, <1>3, <1>6, <1>7, <2>1, RaterHolds, RaterLocksMove
<1>16. DraftOfRater(f)'
  BY <1>1, <1>2, <1>3, <1>5, <1>8, <1>11 DEF DraftOfRater, Recounted
<1>17. FreshRater(f)'
  <2>1. \A a \in Answer : Stored(a)' <=> Stored(a)
    BY <1>2 DEF Stored
  <2> QED BY <1>2, <1>3, <2>1, RecountRests
<1>18. Knows(f)'
  BY <1>2, <1>3, <1>5, RaterFields DEF Knows, Stored
<1>19. /\ \A d \in Bucket : rowLock[d] \notin {None, f} => draft'[d] = draft[d]
       /\ \A d \in Bucket : rowLock'[d] = None => draft'[d] = row[d]
  BY <1>2, <1>6, <1>7, <1>10 DEF IInv, Drafted
<1> QED BY <1>2, <1>3, <1>4, <1>7, <1>12, <1>13, <1>14, <1>15, <1>16, <1>17, <1>18, <1>19, RaterStepKeeps

(* Or the rating is given up. *)
LEMMA AbortRatingKeeps ==
  ASSUME IInv, NEW f \in Rater, AbortRating(f) PROVE IInv'
<1> USE TransactionAssumption
<1>1. /\ rowLock' = [b \in Bucket |-> IF rowLock[b] = f THEN None ELSE rowLock[b]]
      /\ answerLock' = [c \in Answer |-> IF answerLock[c] = f THEN None ELSE answerLock[c]]
      /\ writes' = [t \in Table |-> writes[t] \ {f}]
      /\ draft' = [b \in Bucket |-> IF rowLock[b] = f THEN row[b] ELSE draft[b]]
      /\ UNCHANGED <<writer, rating, row, backfill, recorded>>
  BY DEF AbortRating, Release, Discard
<1>2. /\ rater'[f].pc = "idle" /\ rater'[f].read = None
      /\ \A g \in Rater \ {f} : rater'[g] = rater[g]
  BY DEF AbortRating, NoRating, IInv, Typed
<1>3. Typed'
  BY <1>1, <1>2 DEF AbortRating, NoRating, IInv, Typed, RaterPc
<1>4. BaseTypes'
  BY <1>1 DEF IInv, BaseTypes, Transaction
<1>5. BadWithinTotal'
  BY <1>1 DEF IInv, BadWithinTotal
<1>6. Closed'
  BY <1>1, TablesAre DEF IInv, Locking, Closed
<1>7. LocksOfRater(f)'
  BY <1>1, <1>2, TablesAre DEF LocksOfRater
<1>8. DraftOfRater(f)' /\ FreshRater(f)' /\ Knows(f)'
  BY <1>2 DEF DraftOfRater, FreshRater, Knows
<1>9. /\ \A t \in Table, y \in Transaction \ {f} : y \in writes'[t] <=> y \in writes[t]
      /\ \A c \in Bucket, y \in Transaction \ {f} : rowLock'[c] = y <=> rowLock[c] = y
      /\ \A a \in Answer, y \in Rater \ {f} : answerLock'[a] = y <=> answerLock[a] = y
      /\ \A c \in Bucket : rowLock[c] \notin {None, f} => draft'[c] = draft[c]
  BY <1>1 DEF IInv, BaseTypes, Transaction
<1>10. \A b \in Bucket : rowLock'[b] = None => draft'[b] = row[b]
  BY <1>1 DEF IInv, Drafted
<1> QED BY <1>1, <1>2, <1>3, <1>4, <1>5, <1>6, <1>7, <1>8, <1>9, <1>10, RaterStepKeeps

-----------------------------------------------------------------------------
(* A call of recordUsage changes no count, and no row that is locked. *)
LEMMA RecordUsageKeeps ==
  ASSUME IInv, NEW b \in Bucket, RecordUsage(b)
  PROVE  IInv' /\ \A c \in Bucket : Drift(c)' = Drift(c)
<1> USE TransactionAssumption
<1>1. /\ rowLock[b] = None /\ row[b] \in Row /\ draft[b] = row[b] /\ recorded[b] \in Nat
      /\ row' = [row EXCEPT ![b].requests = @ + 1]
      /\ draft' = [draft EXCEPT ![b].requests = @ + 1]
      /\ recorded' = [recorded EXCEPT ![b] = @ + 1]
      /\ UNCHANGED <<writer, rating, rowLock, answerLock, writes, rater, backfill>>
  BY DEF RecordUsage, lockVars, IInv, BaseTypes, Drafted
<1>2. PICK r \in Row : r = row[b]
  BY <1>1
<1>3. /\ row'[b] = [answers |-> r.answers, bad |-> r.bad, requests |-> r.requests + 1]
      /\ draft'[b] = row'[b] /\ row'[b] \in Row
      /\ \A c \in Bucket \ {b} : row'[c] = row[c] /\ draft'[c] = draft[c] /\ recorded'[c] = recorded[c]
      /\ recorded'[b] = recorded[b] + 1
  BY <1>1, <1>2 DEF IInv, BaseTypes, Row
<1>4. BaseTypes'
  <2>1. row' \in [Bucket -> Row] /\ draft' \in [Bucket -> Row]
    BY <1>1, <1>3 DEF IInv, BaseTypes
  <2>2. recorded' \in [Bucket -> Nat]
    BY <1>1 DEF IInv, BaseTypes
  <2> QED BY <1>1, <2>1, <2>2 DEF IInv, BaseTypes
<1>5. \A c \in Answer : Stored(c)' <=> Stored(c)
  BY <1>1 DEF Stored
<1>6. /\ \A a \in Answer \ {None} : LocksOfAnswer(a)' /\ DraftOfAnswer(a)'
      /\ \A f \in Rater \ {None} : LocksOfRater(f)' /\ DraftOfRater(f)'
  <2>1. \A c \in Bucket : rowLock[c] \notin {None, None} => draft'[c] = draft[c] /\ row'[c] = row[c]
    BY <1>1, <1>3
  <2> QED BY <1>1, <2>1, OthersKeep
<1>7. Locking'
  BY <1>1, <1>6 DEF IInv, Locking, Closed
<1>8. Drafted'
  BY <1>1, <1>3, <1>6 DEF IInv, Drafted
<1>9. Typed'
  BY <1>1 DEF IInv, Typed
<1>10. Known'
  BY <1>1, <1>5, KnowsStill DEF IInv, Known
<1>11. \A f \in Rater : FreshRater(f)'
  BY <1>1, <1>5, RecountRests
<1>12. Fresh'
  BY <1>1, <1>5, <1>11, BackfillRests DEF Fresh, IInv
<1>13. BadWithinTotal'
  BY <1>1, <1>2, <1>3 DEF IInv, BadWithinTotal, Row
<1>14. \A c \in Bucket : InBucket(c)' = InBucket(c) /\ CountOf(c, rating)' = CountOf(c, rating)
  <2>1. \A c \in Bucket : InBucket(c)' = InBucket(c)
    BY <1>5 DEF InBucket
  <2> QED BY <1>1, <2>1 DEF CountOf
<1>15. NeverAhead'
  BY <1>2, <1>3, <1>14 DEF IInv, NeverAhead, Row
<1>16. ASSUME NEW c \in Bucket PROVE Drift(c)' = Drift(c)
  <2>1. CASE c = b
    <3>1. /\ CountOf(b, rating)' = CountOf(b, rating)
          /\ row'[b].answers = row[b].answers /\ row'[b].bad = row[b].bad
          /\ recorded'[b] - row'[b].requests = recorded[b] - row[b].requests
      BY <1>1, <1>2, <1>3, <1>14 DEF Row
    <3> QED BY <2>1, <3>1 DEF Drift
  <2>2. CASE c # b
    BY <1>3, <1>14, <2>2 DEF Drift
  <2> QED BY <2>1, <2>2
<1> QED BY <1>4, <1>7, <1>8, <1>9, <1>10, <1>12, <1>13, <1>15, <1>16 DEF IInv

-----------------------------------------------------------------------------
(* The backfill goes on without writing. *)
LEMMA BackfillMoves ==
  ASSUME IInv, UNCHANGED <<writer, rating, row, draft, lockVars, rater, recorded>>,
         Typed', Closed',
         backfill'.read # None =>
           backfill'.held = 3 /\ \A b \in Bucket : backfill'.read[b] = CountOf(b, rating)'
  PROVE  IInv'
<1> USE TransactionAssumption
<1>1. UNCHANGED <<writer, rating, row, draft, rowLock, answerLock, writes, rater, recorded>>
  BY DEF lockVars
<1>2. \A c \in Answer : Stored(c)' <=> Stored(c)
  BY <1>1 DEF Stored
<1>3. /\ \A a \in Answer \ {None} : LocksOfAnswer(a)' /\ DraftOfAnswer(a)'
      /\ \A f \in Rater \ {None} : LocksOfRater(f)' /\ DraftOfRater(f)'
  BY <1>1, OthersKeep
<1>4. Locking' /\ Drafted' /\ BaseTypes' /\ BadWithinTotal'
  BY <1>1, <1>3 DEF IInv, Locking, Drafted, BaseTypes, BadWithinTotal
<1>5. Known'
  BY <1>1, <1>2, KnowsStill DEF IInv, Known
<1>6. \A f \in Rater : FreshRater(f)'
  BY <1>1, <1>2, RecountRests
<1>7. NeverAhead'
  BY <1>1, <1>2, NothingCommitted
<1> QED BY <1>4, <1>5, <1>6, <1>7 DEF IInv, Fresh

(* It starts, ... *)
LEMMA StartBackfillKeeps ==
  ASSUME IInv, StartBackfill PROVE IInv'
<1>1. /\ UNCHANGED <<writer, rating, row, draft, lockVars, rater, recorded>>
      /\ backfill'.running = TRUE /\ backfill'.held = backfill.held /\ backfill'.read = backfill.read
      /\ Typed'
  BY DEF StartBackfill, IInv, Typed
<1>2. Closed'
  BY <1>1 DEF IInv, Locking, Closed, lockVars
<1>3. \A a \in Answer : Stored(a)' <=> Stored(a)
  BY <1>1 DEF Stored
<1>4. backfill'.read # None =>
        backfill'.held = 3 /\ \A b \in Bucket : backfill'.read[b] = CountOf(b, rating)'
  BY <1>1, <1>3, BackfillRests DEF IInv, Fresh
<1> QED BY <1>1, <1>2, <1>4, BackfillMoves

(* ... locks a table that nobody writes to, ... *)
LEMMA LockTableKeeps ==
  ASSUME IInv, LockTable PROVE IInv'
<1>1. /\ UNCHANGED <<writer, rating, row, draft, lockVars, rater, recorded>>
      /\ backfill.held \in 0 .. 2 /\ backfill.running /\ writes[Tables[backfill.held + 1]] = {}
      /\ backfill'.running = TRUE /\ backfill'.held = backfill.held + 1
      /\ backfill'.read = backfill.read /\ Typed'
  BY DEF LockTable, IInv, Typed
<1>2. Closed'
  BY <1>1 DEF IInv, Locking, Closed, lockVars
<1>3. backfill'.read = None
  BY <1>1 DEF IInv, Fresh
<1> QED BY <1>1, <1>2, <1>3, BackfillMoves

(* ... counts every bucket, ... *)
LEMMA ReadSourceKeeps ==
  ASSUME IInv, ReadSource PROVE IInv'
<1>1. /\ UNCHANGED <<writer, rating, row, draft, lockVars, rater, recorded>>
      /\ backfill' = [backfill EXCEPT !.read = [b \in Bucket |-> CountOf(b, rating)]]
      /\ backfill.held = 3
  BY DEF ReadSource
<1>2. PICK c \in [Bucket -> Counts] : c = [b \in Bucket |-> CountOf(b, rating)]
  BY Countable
<1>3. backfill' = [backfill EXCEPT !.read = c]
  BY <1>1, <1>2
<1>4. /\ backfill'.running = backfill.running /\ backfill'.held = 3 /\ backfill'.read = c
      /\ Typed'
  BY <1>1, <1>3 DEF IInv, Typed
<1>5. Closed'
  BY <1>1, <1>4 DEF IInv, Locking, Closed, lockVars
<1>6. ASSUME NEW b \in Bucket PROVE c[b] = CountOf(b, rating)'
  <2>1. InBucket(b)' = InBucket(b)
    BY <1>1 DEF InBucket, Stored
  <2>2. CountOf(b, rating)' = CountOf(b, rating)
    BY <1>1, <2>1 DEF CountOf
  <2> QED BY <1>2, <2>2
<1> QED BY <1>1, <1>4, <1>5, <1>6, BackfillMoves

(* ... or is given up. *)
LEMMA AbortBackfillKeeps ==
  ASSUME IInv, AbortBackfill PROVE IInv'
<1>1. /\ UNCHANGED <<writer, rating, row, draft, lockVars, rater, recorded>>
      /\ backfill'.running = FALSE /\ backfill'.held = 0 /\ backfill'.read = None /\ Typed'
  BY DEF AbortBackfill, NoBackfill, IInv, Typed
<1>2. Closed'
  BY <1>1 DEF Closed
<1> QED BY <1>1, <1>2, BackfillMoves

(* While the backfill writes nobody else holds a row, and what it has counted is
   what there is: afterwards every bucket equals its source. *)
LEMMA WriteBucketsKeeps ==
  ASSUME IInv, WriteBuckets
  PROVE  IInv' /\ \A b \in Bucket : Drift(b)' = NoDrift
<1> USE TransactionAssumption
<1>1. /\ UNCHANGED <<writer, rating, rowLock, answerLock, writes, rater, recorded>>
      /\ \A b \in Bucket : rowLock[b] = None
      /\ backfill.held = 3 /\ \A b \in Bucket : backfill.read[b] = CountOf(b, rating)
      /\ draft' = row'
      /\ backfill'.running = FALSE /\ backfill'.held = 0 /\ backfill'.read = None /\ Typed'
  <2>1. /\ UNCHANGED <<writer, rating, rowLock, answerLock, writes, rater, recorded>>
        /\ \A b \in Bucket : rowLock[b] = None
        /\ draft' = row' /\ backfill' = NoBackfill /\ backfill.read # None
    BY DEF WriteBuckets, lockVars
  <2>2. backfill.held = 3 /\ \A b \in Bucket : backfill.read[b] = CountOf(b, rating)
    BY <2>1 DEF IInv, Fresh
  <2>3. backfill'.running = FALSE /\ backfill'.held = 0 /\ backfill'.read = None
    BY <2>1 DEF NoBackfill
  <2>4. Typed'
    BY <2>1 DEF IInv, Typed, NoBackfill
  <2> QED BY <2>1, <2>2, <2>3, <2>4
<1>2. \A a \in Answer : Stored(a)' <=> Stored(a)
  BY <1>1 DEF Stored
<1>3. ASSUME NEW b \in Bucket
      PROVE  /\ row'[b] \in Row
             /\ row'[b].answers = CountOf(b, rating).answers
             /\ row'[b].bad = CountOf(b, rating).bad
             /\ row'[b].requests = row[b].requests
  <2>1. PICK c \in Counts : c = CountOf(b, rating) /\ c.bad <= c.answers
    BY Countable
  <2>2. PICK r \in Row : r = row[b]
    BY DEF IInv, BaseTypes
  <2>3. row'[b] = IF c.answers = 0 THEN r ELSE [r EXCEPT !.answers = c.answers, !.bad = c.bad]
    BY <1>1, <2>1, <2>2 DEF WriteBuckets
  <2>4. c.answers \in Nat /\ c.bad \in Nat /\ r.answers \in Nat /\ r.bad \in Nat /\ r.requests \in Nat
    BY <2>1, <2>2 DEF Row, Counts
  <2>5. CASE c.answers = 0
    <3>1. r.answers <= c.answers
      BY <2>1, <2>2, Countable DEF IInv, NeverAhead
    <3>2. r.bad <= r.answers
      BY <2>2 DEF IInv, BadWithinTotal
    <3> QED BY <2>1, <2>2, <2>3, <2>4, <2>5, <3>1, <3>2
  <2>6. CASE c.answers # 0
    <3>1. row'[b] = [answers |-> c.answers, bad |-> c.bad, requests |-> r.requests]
      BY <2>3, <2>6 DEF Row
    <3> QED BY <2>1, <2>2, <2>4, <3>1 DEF Row
  <2> QED BY <2>5, <2>6
<1>4. ASSUME NEW b \in Bucket
      PROVE  InBucket(b)' = InBucket(b) /\ CountOf(b, rating)' = CountOf(b, rating)
  <2>1. InBucket(b)' = InBucket(b)
    BY <1>2 DEF InBucket
  <2> QED BY <1>1, <2>1 DEF CountOf
<1>5. BaseTypes'
  <2>1. row' = [b \in Bucket |-> row'[b]]
    BY DEF WriteBuckets
  <2>2. row' \in [Bucket -> Row]
    BY <1>3, <2>1
  <2> QED BY <1>1, <2>2 DEF IInv, BaseTypes
<1>6. /\ \A a \in Answer \ {None} : LocksOfAnswer(a)' /\ DraftOfAnswer(a)'
      /\ \A f \in Rater \ {None} : LocksOfRater(f)' /\ DraftOfRater(f)'
  BY <1>1, OthersKeep
<1>7. Locking' /\ Drafted'
  BY <1>1, <1>6 DEF IInv, Locking, Closed, Drafted
<1>8. Known'
  BY <1>1, <1>2, KnowsStill DEF IInv, Known
<1>9. Fresh'
  BY <1>1, <1>2, RecountRests DEF Fresh
<1>10. BadWithinTotal'
  <2>1. ASSUME NEW b \in Bucket PROVE 0 <= row'[b].bad /\ row'[b].bad <= row'[b].answers
    <3>1. PICK c \in Counts : c = CountOf(b, rating) /\ c.bad <= c.answers
      BY Countable
    <3> QED BY <1>3, <3>1 DEF Counts
  <2> QED BY <1>1, <2>1 DEF BadWithinTotal
<1>11. NeverAhead' /\ \A b \in Bucket : Drift(b)' = NoDrift
  <2>1. ASSUME NEW b \in Bucket
        PROVE  /\ row'[b].answers <= Cardinality(InBucket(b))' /\ row'[b].requests = recorded'[b]
               /\ Drift(b)' = NoDrift
    <3>1. PICK c \in Counts : c = CountOf(b, rating) /\ c.answers = Cardinality(InBucket(b))
      BY Countable
    <3>2. recorded[b] \in Nat /\ row'[b].requests = recorded[b]
      BY <1>3 DEF IInv, NeverAhead, BaseTypes
    <3>3. /\ CountOf(b, rating)'.answers - row'[b].answers = 0
          /\ CountOf(b, rating)'.bad - row'[b].bad = 0 /\ recorded'[b] - row'[b].requests = 0
      BY <1>1, <1>3, <1>4, <3>1, <3>2 DEF Counts
    <3>4. row'[b].answers <= Cardinality(InBucket(b))'
      BY <1>3, <1>4, <3>1 DEF Counts
    <3> QED BY <1>1, <3>2, <3>3, <3>4 DEF Drift, NoDrift
  <2> QED BY <2>1 DEF NeverAhead
<1> QED BY <1>1, <1>5, <1>7, <1>8, <1>9, <1>10, <1>11 DEF IInv

-----------------------------------------------------------------------------
(* The answer is stored: its bucket has one answer more, in the source and in
   the row. *)
LEMMA CommitAnswerKeeps ==
  ASSUME IInv, NEW a \in Answer, CommitAnswer(a)
  PROVE  IInv' /\ \A b \in Bucket : Drift(b)' = Drift(b)
<1> USE TransactionAssumption, BucketAssumption
<1>1. PICK b \in Bucket : b = BucketOf[a]
  OBVIOUS
<1>2. /\ writer[a] = "counted" /\ writer' = [writer EXCEPT ![a] = "stored"]
      /\ row' = [c \in Bucket |-> IF rowLock[c] = a THEN draft[c] ELSE row[c]]
      /\ rowLock' = [c \in Bucket |-> IF rowLock[c] = a THEN None ELSE rowLock[c]]
      /\ answerLock' = [c \in Answer |-> IF answerLock[c] = a THEN None ELSE answerLock[c]]
      /\ writes' = [t \in Table |-> writes[t] \ {a}]
      /\ UNCHANGED <<rating, draft, rater, backfill, recorded>>
  BY DEF CommitAnswer, Publish, Release
<1>3. /\ \A c \in Bucket : rowLock[c] = a <=> c = b
      /\ a \in writes["usage_daily"] /\ Ahead(b, 1, 0)
  BY <1>1, <1>2 DEF IInv, Locking, LocksOfAnswer, Drafted, DraftOfAnswer
<1>4. answerLock' = answerLock
  BY <1>2 DEF IInv, BaseTypes
<1>5. backfill.read = None
  BY <1>3, TablesAre DEF IInv, Locking, Closed, Fresh
<1>6. /\ Stored(a)' /\ ~ Stored(a) /\ rating[a] = "none"
      /\ \A c \in Answer \ {a} : Stored(c)' <=> Stored(c)
  BY <1>2 DEF Stored, IInv, BaseTypes, Known
<1>7. /\ InBucket(b)' = InBucket(b) \cup {a} /\ a \notin InBucket(b)
      /\ \A c \in Bucket \ {b} : InBucket(c)' = InBucket(c)
  BY <1>1, <1>6 DEF InBucket
<1>8. /\ CountOf(b, rating)'.answers = CountOf(b, rating).answers + 1
      /\ CountOf(b, rating)'.bad = CountOf(b, rating).bad
      /\ \A c \in Bucket \ {b} : CountOf(c, rating)' = CountOf(c, rating)
  <2>1. Cardinality(InBucket(b)) \in Nat /\ Cardinality(InBucket(b)') = Cardinality(InBucket(b)) + 1
    BY <1>7, Countable, FS_AddElement, FS_CardinalityType
  <2>2. {c \in InBucket(b) : rating[c] = "BAD"}' = {c \in InBucket(b) : rating[c] = "BAD"}
    BY <1>2, <1>6, <1>7
  <2>3. \A c \in Bucket \ {b} : CountOf(c, rating)' = CountOf(c, rating)
    BY <1>2, <1>7 DEF CountOf
  <2> QED BY <2>1, <2>2, <2>3 DEF CountOf
<1>9. /\ row'[b] = draft[b] /\ row'[b].answers = row[b].answers + 1
      /\ row'[b].bad = row[b].bad /\ row'[b].requests = row[b].requests
      /\ \A c \in Bucket \ {b} : row'[c] = row[c]
  <2>1. PICK r \in Row : r = row[b]
    BY DEF IInv, BaseTypes
  <2>2. draft[b].bad = r.bad + 0 /\ r.bad \in Nat
    BY <1>3, <2>1 DEF Ahead, Row
  <2> QED BY <1>2, <1>3, <2>1, <2>2 DEF Ahead
<1>10. BaseTypes'
  BY <1>2, <1>4 DEF IInv, BaseTypes, Transaction
<1>11. /\ \A c \in Answer \ {a} : LocksOfAnswer(c)' /\ DraftOfAnswer(c)'
       /\ \A f \in Rater \ {a} : LocksOfRater(f)' /\ DraftOfRater(f)'
  <2>1. /\ \A c \in Answer \ {a} : writer'[c] = writer[c]
        /\ \A t \in Table, y \in Transaction \ {a} : y \in writes'[t] <=> y \in writes[t]
        /\ \A c \in Bucket, y \in Transaction \ {a} : rowLock'[c] = y <=> rowLock[c] = y
        /\ \A c \in Bucket : rowLock[c] \notin {None, a} => draft'[c] = draft[c] /\ row'[c] = row[c]
    BY <1>2 DEF IInv, BaseTypes, Transaction
  <2> QED BY <1>2, <1>4, <2>1, OthersKeep
<1>12. LocksOfAnswer(a)' /\ DraftOfAnswer(a)'
  BY <1>1, <1>2, TablesAre DEF LocksOfAnswer, DraftOfAnswer, IInv, BaseTypes, Locking
<1>13. Closed'
  BY <1>2, TablesAre DEF IInv, Locking, Closed
<1>14. Locking'
  BY <1>11, <1>12, <1>13 DEF Locking
<1>15. Drafted'
  <2>1. \A c \in Bucket : rowLock'[c] = None => draft'[c] = row'[c]
    BY <1>2 DEF IInv, Drafted
  <2> QED BY <1>11, <1>12, <2>1 DEF Drafted
<1>16. Known'
  <2>1. ASSUME NEW f \in Rater PROVE Knows(f)'
    <3>1. Knows(f) /\ Delta(f)' = Delta(f)
      BY <1>2 DEF IInv, Known, Delta
    <3>2. ASSUME rater[f].pc # "idle" PROVE Stored(rater[f].answer)'
      <4>1. PICK c \in Answer : c = rater[f].answer /\ Stored(c)
        BY <3>1, <3>2, RaterFields DEF Knows
      <4>2. c # a /\ Stored(c)'
        BY <1>6, <4>1
      <4> QED BY <1>2, <4>1, <4>2
    <3> QED BY <1>2, <3>1, <3>2 DEF Knows
  <2> QED BY <1>2, <1>6, <2>1 DEF IInv, Known
<1>17. Fresh'
  <2>1. ASSUME NEW f \in Rater, rater[f].read # None
        PROVE  rater[f].read = CountOf(BucketRated(f), RatingsSeenBy(f))'
    <3>1. HasRow(f) /\ BucketRated(f) \in Bucket /\ f # a
      BY <2>1, RaterFields DEF Knows, HasRow
    <3>2. BucketRated(f) # b
      BY <1>3, <3>1, RaterHolds
    <3>3. BucketRated(f)' = BucketRated(f) /\ RatingsSeenBy(f)' = RatingsSeenBy(f)
      BY <1>2 DEF BucketRated, RatingsSeenBy
    <3>4. InBucket(BucketRated(f))' = InBucket(BucketRated(f))
      BY <1>7, <3>1, <3>2, <3>3
    <3>5. CountOf(BucketRated(f), RatingsSeenBy(f))' = CountOf(BucketRated(f), RatingsSeenBy(f))
      BY <3>3, <3>4 DEF CountOf
    <3> QED BY <2>1, <3>5, RaterFields DEF FreshRater
  <2> QED BY <1>2, <1>5, <2>1 DEF Fresh, FreshRater
<1>18. BadWithinTotal'
  BY <1>2 DEF IInv, BadWithinTotal
<1>19. NeverAhead'
  <2>1. ASSUME NEW c \in Bucket
        PROVE  row'[c].answers <= Cardinality(InBucket(c))' /\ row'[c].requests = recorded'[c]
    <3>1. CASE c = b
      <4>1. PICK r \in Row : r = row[b]
        BY DEF IInv, BaseTypes
      <4>2. r.answers \in Nat /\ r.answers <= Cardinality(InBucket(b))
        BY <4>1 DEF IInv, NeverAhead, Row
      <4>3. /\ Cardinality(InBucket(b)) \in Nat
            /\ Cardinality(InBucket(b)') = Cardinality(InBucket(b)) + 1
        BY <1>7, Countable, FS_AddElement, FS_CardinalityType
      <4> QED BY <1>2, <1>9, <3>1, <4>1, <4>2, <4>3 DEF IInv, NeverAhead
    <3>2. CASE c # b
      BY <1>2, <1>7, <1>9, <3>2 DEF IInv, NeverAhead
    <3> QED BY <3>1, <3>2
  <2> QED BY <2>1 DEF NeverAhead
<1>20. ASSUME NEW c \in Bucket PROVE Drift(c)' = Drift(c)
  <2>1. CASE c = b
    <3>1. PICK r \in Row : r = row[b]
      BY DEF IInv, BaseTypes
    <3>2. PICK n \in Counts : n = CountOf(b, rating)
      BY Countable
    <3>3. r.answers \in Nat /\ n.answers \in Nat
      BY <3>1, <3>2 DEF Row, Counts
    <3>4. CountOf(b, rating)'.answers - row'[b].answers = CountOf(b, rating).answers - row[b].answers
      BY <1>8, <1>9, <3>1, <3>2, <3>3
    <3>5. /\ CountOf(b, rating)'.bad - row'[b].bad = CountOf(b, rating).bad - row[b].bad
          /\ recorded'[b] - row'[b].requests = recorded[b] - row[b].requests
      BY <1>2, <1>8, <1>9
    <3> QED BY <2>1, <3>4, <3>5 DEF Drift
  <2>2. CASE c # b
    BY <1>2, <1>8, <1>9, <2>2 DEF Drift
  <2> QED BY <2>1, <2>2
<1>21. Typed'
  BY <1>2 DEF IInv, Typed
<1> QED BY <1>10, <1>14, <1>15, <1>16, <1>17, <1>18, <1>19, <1>20, <1>21 DEF IInv

-----------------------------------------------------------------------------
(* The rating that is stored changes the bad answers of its bucket by Delta, and
   nothing else. *)
LEMMA RatingCounts ==
  ASSUME IInv, NEW f \in Rater, rater[f].pc \notin {"idle", "locked"}
  PROVE  /\ \A b \in Bucket : CountOf(b, RatingsSeenBy(f)).answers = CountOf(b, rating).answers
         /\ \A b \in Bucket : b # BucketRated(f) => CountOf(b, RatingsSeenBy(f)) = CountOf(b, rating)
         /\ CountOf(BucketRated(f), RatingsSeenBy(f)).bad
              = CountOf(BucketRated(f), rating).bad + Delta(f)
<1> DEFINE r == RatingsSeenBy(f)
           Bad(b, q) == {a \in InBucket(b) : q[a] = "BAD"}
<1>1. PICK m \in Answer : m = rater[f].answer
  BY RaterFields
<1>2. /\ rating \in [Answer -> Rating \cup {"none"}] /\ rater[f].next \in Rating
      /\ r = [rating EXCEPT ![m] = rater[f].next] /\ rater[f].previous = rating[m]
      /\ Stored(m) /\ BucketRated(f) = BucketOf[m]
  BY <1>1, RaterFields DEF IInv, BaseTypes, RatingsSeenBy, Knows, BucketRated
<1>3. \A b \in Bucket : m \in InBucket(b) <=> b = BucketRated(f)
  BY <1>1, <1>2 DEF InBucket
<1>4. /\ \A a \in Answer \ {m} : r[a] = rating[a]
      /\ r[m] = rater[f].next
  BY <1>1, <1>2
<1>5. ASSUME NEW b \in Bucket, b # BucketRated(f) PROVE CountOf(b, r) = CountOf(b, rating)
  <2>1. \A a \in InBucket(b) : r[a] = "BAD" <=> rating[a] = "BAD"
    BY <1>3, <1>4, <1>5 DEF InBucket
  <2> HIDE DEF r
  <2> QED BY <2>1, CountsAgree
<1>6. CountOf(BucketRated(f), r).bad = CountOf(BucketRated(f), rating).bad + Delta(f)
  <2>1. PICK b \in Bucket : b = BucketRated(f)
    BY RaterFields
  <2>2. /\ IsFiniteSet(Bad(b, r)) /\ IsFiniteSet(Bad(b, rating))
        /\ Cardinality(Bad(b, r)) \in Nat /\ Cardinality(Bad(b, rating)) \in Nat
        /\ CountOf(b, r).bad = Cardinality(Bad(b, r))
        /\ CountOf(b, rating).bad = Cardinality(Bad(b, rating))
    BY Countable, FS_CardinalityType
  <2>3. m \in InBucket(b) /\ \A a \in InBucket(b) \ {m} : r[a] = rating[a]
    BY <1>3, <1>4, <2>1 DEF InBucket
  <2>4. CASE r[m] = "BAD" /\ rating[m] # "BAD"
    <3>1. Bad(b, r) = Bad(b, rating) \cup {m} /\ m \notin Bad(b, rating)
      BY <2>3, <2>4
    <3>2. Cardinality(Bad(b, r)) = Cardinality(Bad(b, rating)) + 1
      BY <2>2, <3>1, FS_AddElement
    <3>3. Delta(f) = 1
      BY <1>2, <1>4, <2>4 DEF Delta
    <3> QED BY <2>1, <2>2, <3>2, <3>3
  <2>5. CASE r[m] # "BAD" /\ rating[m] = "BAD"
    <3>1. Bad(b, rating) = Bad(b, r) \cup {m} /\ m \notin Bad(b, r)
      BY <2>3, <2>5
    <3>2. Cardinality(Bad(b, rating)) = Cardinality(Bad(b, r)) + 1
      BY <2>2, <3>1, FS_AddElement
    <3>3. Delta(f) = -1
      BY <1>2, <1>4, <2>5 DEF Delta
    <3> QED BY <2>1, <2>2, <3>2, <3>3
  <2>6. CASE r[m] = "BAD" <=> rating[m] = "BAD"
    <3>1. Bad(b, r) = Bad(b, rating)
      BY <2>3, <2>6
    <3>2. Delta(f) = 0
      BY <1>2, <1>4, <2>6 DEF Delta
    <3>3. PICK k \in Nat : k = Cardinality(Bad(b, rating))
      BY <2>2
    <3>4. CountOf(b, r).bad = k /\ CountOf(b, rating).bad = k
      BY <2>2, <3>1, <3>3
    <3> QED BY <2>1, <3>2, <3>4
  <2> QED BY <2>4, <2>5, <2>6
<1>7. \A b \in Bucket : CountOf(b, r).answers = CountOf(b, rating).answers
  BY Countable
<1> QED BY <1>5, <1>6, <1>7

(* The rating is stored: the row changes as the source does, or becomes equal
   to it. *)
LEMMA CommitRatingKeeps ==
  ASSUME IInv, NEW f \in Rater, CommitRating(f)
  PROVE  /\ IInv' /\ \A b \in Bucket : Drift(b)' \in {Drift(b), NoDrift}
         /\ \A b \in Bucket : rater[f].read # None /\ b = BucketRated(f) => Drift(b)' = NoDrift
<1> USE TransactionAssumption, BucketAssumption
<1>1. PICK m \in Answer, b \in Bucket : m = rater[f].answer /\ b = BucketRated(f) /\ b = BucketOf[m]
  BY RaterFields DEF CommitRating, BucketRated
<1>2. /\ rater[f].pc = "commit" /\ rating' = RatingsSeenBy(f)
      /\ row' = [c \in Bucket |-> IF rowLock[c] = f THEN draft[c] ELSE row[c]]
      /\ rowLock' = [c \in Bucket |-> IF rowLock[c] = f THEN None ELSE rowLock[c]]
      /\ answerLock' = [a \in Answer |-> IF answerLock[a] = f THEN None ELSE answerLock[a]]
      /\ writes' = [t \in Table |-> writes[t] \ {f}]
      /\ UNCHANGED <<writer, draft, backfill, recorded>>
  BY DEF CommitRating, Publish, Release
<1>3. /\ rater'[f].pc = "idle" /\ rater'[f].read = None
      /\ \A g \in Rater \ {f} : rater'[g] = rater[g]
      /\ Typed'
  BY <1>2 DEF CommitRating, NoRating, IInv, Typed, RaterPc
<1>4. /\ HasRow(f) <=> Delta(f) # 0
      /\ \A c \in Bucket : rowLock[c] = f <=> HasRow(f) /\ c = b
      /\ \A a \in Answer : answerLock[a] = f <=> a = m
      /\ f \in writes["message_feedbacks"]
  <2>1. HasFeedback(f) /\ (HasRow(f) => Delta(f) # 0) /\ (Delta(f) # 0 => HasRow(f))
    BY <1>2 DEF HasRow, HasFeedback
  <2>2. ASSUME NEW c \in Bucket PROVE rowLock[c] = f <=> HasRow(f) /\ c = b
    <3>1. rowLock[c] = f <=> HasRow(f) /\ c = BucketRated(f)
      BY RaterHolds
    <3> QED BY <1>1, <3>1, Zenon
  <2>3. \A a \in Answer : answerLock[a] = f <=> a = m
    BY <1>1, <1>2, RaterHolds
  <2> QED BY <2>1, <2>2, <2>3, RaterHolds
<1>5. /\ \A a \in Answer \ {m} : rating'[a] = rating[a]
      /\ rating'[m] = rater[f].next /\ rater[f].previous = rating[m] /\ rater[f].next \in Rating
      /\ rating' \in [Answer -> Rating \cup {"none"}] /\ Stored(m)
  BY <1>1, <1>2, RaterFields DEF RatingsSeenBy, IInv, BaseTypes, Knows
<1>6. backfill.read = None
  BY <1>4, TablesAre DEF IInv, Locking, Closed, Fresh
<1>7. /\ \A a \in Answer : Stored(a)' <=> Stored(a)
      /\ \A c \in Bucket : InBucket(c)' = InBucket(c)
  BY <1>2 DEF Stored, InBucket
<1>8. \A c \in Bucket : CountOf(c, rating)' = CountOf(c, RatingsSeenBy(f))
  BY <1>2, <1>7 DEF CountOf
<1>9. BaseTypes'
  BY <1>2, <1>5 DEF IInv, BaseTypes, Transaction
<1>10. /\ \A a \in Answer \ {f} : LocksOfAnswer(a)' /\ DraftOfAnswer(a)'
       /\ \A g \in Rater \ {f} : LocksOfRater(g)' /\ DraftOfRater(g)'
  <2>1. /\ \A t \in Table, y \in Transaction \ {f} : y \in writes'[t] <=> y \in writes[t]
        /\ \A c \in Bucket, y \in Transaction \ {f} : rowLock'[c] = y <=> rowLock[c] = y
        /\ \A a \in Answer, y \in Rater \ {f} : answerLock'[a] = y <=> answerLock[a] = y
        /\ \A c \in Bucket : rowLock[c] \notin {None, f} => draft'[c] = draft[c] /\ row'[c] = row[c]
    BY <1>2 DEF IInv, BaseTypes, Transaction
  <2> QED BY <1>2, <1>3, <2>1, OthersKeep
<1>11. LocksOfRater(f)' /\ DraftOfRater(f)'
  BY <1>2, <1>3, TablesAre DEF LocksOfRater, DraftOfRater
<1>12. Locking'
  <2>1. Closed'
    BY <1>2, TablesAre DEF IInv, Locking, Closed
  <2> QED BY <1>10, <1>11, <2>1 DEF Locking
<1>13. Drafted'
  <2>1. \A c \in Bucket : rowLock'[c] = None => draft'[c] = row'[c]
    BY <1>2 DEF IInv, Drafted
  <2> QED BY <1>10, <1>11, <2>1 DEF Drafted
<1>14. ASSUME NEW g \in Rater \ {f}, rater[g].pc # "idle" PROVE rater[g].answer \in Answer \ {m}
  BY <1>4, <1>14, RaterHolds, RaterFields
<1>15. Known'
  <2>1. ASSUME NEW g \in Rater \ {f} PROVE Knows(g)'
    <3>1. Knows(g) /\ Delta(g)' = Delta(g) /\ rater'[g] = rater[g]
      BY <1>3 DEF IInv, Known, Delta
    <3>2. CASE rater[g].pc = "idle"
      <4>1. rater[g].read = None
        BY <3>1, <3>2 DEF Knows
      <4> QED BY <3>1, <3>2, <4>1 DEF Knows
    <3>3. CASE rater[g].pc # "idle"
      <4>1. PICK a \in Answer \ {m} : a = rater[g].answer
        BY <1>14, <3>3
      <4>2. writer'[a] = "stored" /\ rating'[a] = rating[a]
        BY <1>2, <1>5, <3>1, <3>3, <4>1 DEF Knows, Stored
      <4>3. /\ rater'[g].pc # "idle" => Stored(rater[g].answer)'
            /\ rater'[g].pc \notin {"idle", "locked"} => rater'[g].previous = rating'[rater'[g].answer]
        BY <3>1, <4>1, <4>2 DEF Knows, Stored
      <4> QED BY <3>1, <3>3, <4>3 DEF Knows
    <3> QED BY <3>2, <3>3
  <2>2. Knows(f)'
    BY <1>3 DEF Knows
  <2>3. \A a \in Answer : ~ Stored(a)' => rating'[a] = "none"
    BY <1>5, <1>7 DEF IInv, Known
  <2> QED BY <2>1, <2>2, <2>3 DEF Known
<1>16. Fresh'
  <2>1. ASSUME NEW g \in Rater \ {f}, rater[g].read # None
        PROVE  rater[g].read = CountOf(BucketRated(g), RatingsSeenBy(g))'
    <3>1. HasRow(g) /\ BucketRated(g) \in Bucket /\ rater[g].pc # "idle" /\ rater[g].answer \in Answer \ {m}
      BY <1>14, <2>1, RaterFields DEF Knows, HasRow
    <3>2. rowLock[BucketRated(g)] = g
      BY <3>1, RaterHolds
    <3>3. Delta(f) = 0 \/ BucketRated(g) # b
      BY <1>4, <3>2
    <3>4. Delta(f) = 0 => (rating'[m] = "BAD" <=> rating[m] = "BAD")
      BY <1>5 DEF Delta
    <3>5. m \in InBucket(BucketRated(g)) => BucketRated(g) = b
      BY <1>1 DEF InBucket
    <3>6. BucketRated(g)' = BucketRated(g)
      BY <1>3 DEF BucketRated
    <3>7. PICK q : q = RatingsSeenBy(g)
      OBVIOUS
    <3>8. PICK p : p = RatingsSeenBy(g)'
      OBVIOUS
    <3>9. \A a \in Answer : p[a] = IF a = rater[g].answer THEN rater[g].next ELSE rating'[a]
      BY <1>3, <1>9, <3>8 DEF RatingsSeenBy, BaseTypes
    <3>10. \A a \in Answer : q[a] = IF a = rater[g].answer THEN rater[g].next ELSE rating[a]
      BY <3>7 DEF RatingsSeenBy, IInv, BaseTypes
    <3>11. \A a \in InBucket(BucketRated(g)) : p[a] = "BAD" <=> q[a] = "BAD"
      BY <1>5, <3>3, <3>4, <3>5, <3>9, <3>10 DEF InBucket
    <3>12. CountOf(BucketRated(g), p) = CountOf(BucketRated(g), q)
      BY <3>11, CountsAgree
    <3>13. CountOf(BucketRated(g), RatingsSeenBy(g))' = CountOf(BucketRated(g), p)
      BY <1>7, <3>1, <3>6, <3>8 DEF CountOf
    <3> QED BY <2>1, <3>7, <3>12, <3>13, RaterFields DEF FreshRater
  <2>2. \A g \in Rater : FreshRater(g)'
    BY <1>3, <2>1 DEF FreshRater
  <2> QED BY <1>2, <1>6, <2>2 DEF Fresh
<1>17. BadWithinTotal'
  BY <1>2 DEF IInv, BadWithinTotal
<1>18. PICK r \in Row : r = row[b]
  BY DEF IInv, BaseTypes
<1>19. PICK n \in Counts : n = CountOf(b, rating) /\ n.answers = Cardinality(InBucket(b))
  BY Countable
<1>20. Delta(f) \in Int /\ r.answers \in Nat /\ r.bad \in Nat /\ n.answers \in Nat /\ n.bad \in Nat
  BY <1>18, <1>19 DEF Delta, Row, Counts
<1>21. /\ CountOf(b, rating)'.answers = n.answers /\ CountOf(b, rating)'.bad = n.bad + Delta(f)
       /\ \A c \in Bucket \ {b} : CountOf(c, rating)' = CountOf(c, rating) /\ row'[c] = row[c]
  <2>1. rater[f].pc \notin {"idle", "locked"}
    BY <1>2
  <2>2. /\ CountOf(b, RatingsSeenBy(f)).answers = n.answers
        /\ CountOf(b, RatingsSeenBy(f)).bad = n.bad + Delta(f)
        /\ \A c \in Bucket \ {b} : CountOf(c, RatingsSeenBy(f)) = CountOf(c, rating)
    BY <1>1, <1>19, <2>1, RatingCounts
  <2>3. \A c \in Bucket \ {b} : row'[c] = row[c]
    BY <1>2, <1>4
  <2> QED BY <1>8, <2>2, <2>3
<1>22. /\ row'[b].requests = row[b].requests
       /\ \/ /\ rater[f].read = None
             /\ row'[b].answers = r.answers /\ row'[b].bad = r.bad + Delta(f)
          \/ row'[b].answers = n.answers /\ row'[b].bad = n.bad + Delta(f)
  <2>1. CASE Delta(f) = 0
    <3>1. rater[f].read = None /\ row'[b] = row[b]
      BY <1>2, <1>4, <2>1, RaterFields DEF Knows
    <3> QED BY <1>18, <1>20, <2>1, <3>1
  <2>2. CASE Delta(f) # 0 /\ rater[f].read = None
    <3>1. row'[b] = draft[b] /\ Ahead(b, 0, Delta(f))
      BY <1>1, <1>2, <1>4, <2>2, RaterFields DEF DraftOfRater
    <3>2. draft[b].answers = r.answers + 0
      BY <1>18, <3>1 DEF Ahead
    <3> QED BY <1>18, <1>20, <2>2, <3>1, <3>2 DEF Ahead
  <2>3. CASE Delta(f) # 0 /\ rater[f].read # None
    <3>1. row'[b] = draft[b] /\ Recounted(b, rater[f].read)
      BY <1>1, <1>2, <1>4, <2>3, RaterFields DEF DraftOfRater
    <3>2. rater[f].read = CountOf(b, rating)'
      BY <1>1, <1>8, <2>3, RaterFields DEF FreshRater
    <3> QED BY <1>21, <3>1, <3>2 DEF Recounted
  <2> QED BY <2>1, <2>2, <2>3
<1>23. ASSUME NEW c \in Bucket
       PROVE  row'[c].answers <= Cardinality(InBucket(c))' /\ row'[c].requests = recorded'[c]
  <2>1. CASE c = b
    <3>1. row'[b].answers <= Cardinality(InBucket(b))
      BY <1>18, <1>19, <1>20, <1>22 DEF IInv, NeverAhead
    <3> QED BY <1>2, <1>7, <1>22, <2>1, <3>1 DEF IInv, NeverAhead
  <2>2. CASE c # b
    BY <1>2, <1>7, <1>21, <2>2 DEF IInv, NeverAhead
  <2> QED BY <2>1, <2>2
<1>24. NeverAhead'
  BY <1>23 DEF NeverAhead
<1>25. recorded[b] \in Nat /\ row[b].requests = recorded[b]
  BY DEF IInv, BaseTypes, NeverAhead
<1>26. /\ Drift(b)' \in {Drift(b), NoDrift}
       /\ rater[f].read # None => Drift(b)' = NoDrift
  <2>1. CASE rater[f].read = None /\ row'[b].answers = r.answers /\ row'[b].bad = r.bad + Delta(f)
    <3>1. /\ CountOf(b, rating)'.answers - row'[b].answers = CountOf(b, rating).answers - row[b].answers
          /\ CountOf(b, rating)'.bad - row'[b].bad = CountOf(b, rating).bad - row[b].bad
          /\ recorded'[b] - row'[b].requests = recorded[b] - row[b].requests
      BY <1>2, <1>18, <1>19, <1>20, <1>21, <1>22, <2>1
    <3>2. Drift(b)' = Drift(b)
      BY <3>1 DEF Drift
    <3> QED BY <2>1, <3>2
  <2>2. CASE row'[b].answers = n.answers /\ row'[b].bad = n.bad + Delta(f)
    <3>1. /\ CountOf(b, rating)'.answers - row'[b].answers = 0
          /\ CountOf(b, rating)'.bad - row'[b].bad = 0
          /\ recorded'[b] - row'[b].requests = 0
      BY <1>2, <1>20, <1>21, <1>22, <1>25, <2>2
    <3> QED BY <3>1 DEF Drift, NoDrift
  <2> QED BY <1>22, <2>1, <2>2
<1>27. \A c \in Bucket \ {b} : Drift(c)' = Drift(c)
  BY <1>2, <1>21 DEF Drift
<1>28. IInv'
  BY <1>3, <1>9, <1>12, <1>13, <1>15, <1>16, <1>17, <1>24 DEF IInv
<1>29. \A c \in Bucket : Drift(c)' \in {Drift(c), NoDrift}
  BY <1>26, <1>27
<1>30. \A c \in Bucket : rater[f].read # None /\ c = BucketRated(f) => Drift(c)' = NoDrift
  BY <1>1, <1>26
<1> QED BY <1>28, <1>29, <1>30

-----------------------------------------------------------------------------
(* At the start nothing is in progress and no row has counted anything. *)
LEMMA InitHolds == Init => IInv
<1> SUFFICES ASSUME Init PROVE IInv
  OBVIOUS
<1> USE TransactionAssumption, BucketAssumption
<1>1. BaseTypes
  BY DEF Init, BaseTypes, Row
<1>2. /\ \A f \in Rater : /\ rater[f].pc = "idle" /\ rater[f].read = None
                          /\ rater[f] \in [pc : RaterPc, answer : Answer \cup {None}, next : Rating \cup {"none"},
                                           previous : Rating \cup {"none"}, read : Counts \cup {None}]
      /\ backfill.running = FALSE /\ backfill.held = 0 /\ backfill.read = None
  BY DEF Init, NoRating, NoBackfill, RaterPc
<1>3. Typed
  BY <1>2 DEF Init, Typed, NoBackfill
<1>4. /\ \A t \in Table : writes[t] = {}
      /\ \A b \in Bucket : rowLock[b] = None /\ draft[b] = row[b]
      /\ \A a \in Answer : answerLock[a] = None
      /\ \A a \in Answer : writer[a] \in {"none", "stored"}
  BY DEF Init
<1>5. Locking
  <2>1. \A a \in Answer : LocksOfAnswer(a)
    BY <1>4, TablesAre DEF LocksOfAnswer
  <2>2. \A f \in Rater : LocksOfRater(f)
    BY <1>2, <1>4, TablesAre DEF LocksOfRater
  <2>3. Closed
    BY <1>2 DEF Closed
  <2> QED BY <2>1, <2>2, <2>3 DEF Locking
<1>6. Known
  <2>1. \A f \in Rater : Knows(f)
    BY <1>2 DEF Knows
  <2>2. \A a \in Answer : ~ Stored(a) => rating[a] = "none"
    BY DEF Init, Stored
  <2> QED BY <2>1, <2>2 DEF Known
<1>7. Fresh
  BY <1>2 DEF Fresh, FreshRater
<1>8. Drafted
  BY <1>2, <1>4 DEF Drafted, DraftOfAnswer, DraftOfRater
<1>9. BadWithinTotal
  BY DEF Init, BadWithinTotal
<1>10. NeverAhead
  <2>1. ASSUME NEW b \in Bucket PROVE 0 <= Cardinality(InBucket(b))
    <3>1. Cardinality(InBucket(b)) \in Nat
      BY Countable, FS_CardinalityType
    <3> QED BY <3>1
  <2> QED BY <2>1 DEF Init, NeverAhead
<1> QED BY <1>1, <1>3, <1>5, <1>6, <1>7, <1>8, <1>9, <1>10 DEF IInv

(* A step of the specification keeps the invariant; it leaves a bucket as far
   from its source as it was, or repairs it. *)
LEMMA StepKeeps ==
  ASSUME IInv, [Next]_vars
  PROVE  IInv' /\ \A b \in Bucket : Drift(b)' \in {Drift(b), NoDrift}
<1>1. ASSUME NEW a \in Answer,
             InsertAnswer(a) \/ OpenUsageForAnswer(a) \/ CountAnswer(a) \/ AbortAnswer(a)
      PROVE  IInv' /\ \A b \in Bucket : Drift(b)' = Drift(b)
  <2>1. IInv'
    BY <1>1, InsertAnswerKeeps, OpenUsageForAnswerKeeps, CountAnswerKeeps, AbortAnswerKeeps
  <2>2. \A c \in Answer : Stored(c)' <=> Stored(c)
    BY <1>1 DEF InsertAnswer, OpenUsageForAnswer, CountAnswer, AbortAnswer, Stored, IInv, BaseTypes
  <2>3. UNCHANGED <<rating, row, recorded>>
    BY <1>1 DEF InsertAnswer, OpenUsageForAnswer, CountAnswer, AbortAnswer, Discard
  <2> QED BY <2>1, <2>2, <2>3, NothingCommitted
<1>2. ASSUME NEW f \in Rater,
             \/ \E a \in Answer, r \in Rating : LockAnswer(f, a, r)
             \/ ReadPrevious(f) \/ UpsertRating(f) \/ OpenUsageForRating(f) \/ FastPath(f)
             \/ MissFastPath(f) \/ LockBucket(f) \/ Recount(f) \/ SetBucket(f) \/ AbortRating(f)
      PROVE  IInv' /\ \A b \in Bucket : Drift(b)' = Drift(b)
  <2>1. IInv'
    BY <1>2, LockAnswerKeeps, ReadPreviousKeeps, UpsertRatingKeeps, OpenUsageForRatingKeeps,
       FastPathKeeps, MissFastPathKeeps, LockBucketKeeps, RecountKeeps, SetBucketKeeps, AbortRatingKeeps
  <2>2. UNCHANGED <<writer, rating, row, recorded>>
    BY <1>2 DEF LockAnswer, ReadPrevious, UpsertRating, OpenUsageForRating, FastPath,
       MissFastPath, LockBucket, Recount, SetBucket, AbortRating, Discard
  <2>3. \A c \in Answer : Stored(c)' <=> Stored(c)
    BY <2>2 DEF Stored
  <2> QED BY <2>1, <2>2, <2>3, NothingCommitted
<1>3. ASSUME StartBackfill \/ LockTable \/ ReadSource \/ AbortBackfill
      PROVE  IInv' /\ \A b \in Bucket : Drift(b)' = Drift(b)
  <2>1. IInv'
    BY <1>3, StartBackfillKeeps, LockTableKeeps, ReadSourceKeeps, AbortBackfillKeeps
  <2>2. UNCHANGED <<writer, rating, row, recorded>>
    BY <1>3 DEF StartBackfill, LockTable, ReadSource, AbortBackfill
  <2>3. \A c \in Answer : Stored(c)' <=> Stored(c)
    BY <2>2 DEF Stored
  <2> QED BY <2>1, <2>2, <2>3, NothingCommitted
<1>4. CASE UNCHANGED vars
  <2>1. /\ UNCHANGED <<writer, rating, row, draft, lockVars, rater, recorded>>
        /\ backfill' = backfill
    BY <1>4 DEF vars
  <2>2. \A c \in Answer : Stored(c)' <=> Stored(c)
    BY <2>1 DEF Stored
  <2>3. Typed' /\ Closed'
    BY <2>1 DEF IInv, Typed, Locking, Closed, lockVars
  <2>4. backfill'.read # None =>
          backfill'.held = 3 /\ \A b \in Bucket : backfill'.read[b] = CountOf(b, rating)'
    BY <2>1, <2>2, BackfillRests DEF IInv, Fresh
  <2> QED BY <2>1, <2>2, <2>3, <2>4, BackfillMoves, NothingCommitted
<1>5. CASE \E a \in Answer : CommitAnswer(a)
  BY <1>5, CommitAnswerKeeps
<1>6. CASE \E f \in Rater : CommitRating(f)
  BY <1>6, CommitRatingKeeps
<1>7. CASE \E b \in Bucket : RecordUsage(b)
  BY <1>7, RecordUsageKeeps
<1>8. CASE WriteBuckets
  BY <1>8, WriteBucketsKeeps
<1> QED BY <1>1, <1>2, <1>3, <1>4, <1>5, <1>6, <1>7, <1>8
        DEF Next, AnswerStep, RatingStep, BackfillStep

(* The invariant of the counters and the transactions that write them. *)
THEOREM UsageInvariant == Spec => []IInv
<1>1. IInv /\ [Next]_vars => IInv'
  BY StepKeeps
<1> QED BY <1>1, InitHolds, PTL DEF Spec

(* Type correctness, and the locks that each transaction holds at each of its
   statements, for any number of answers, buckets and raters. *)
THEOREM UsageTypeOK == Spec => []TypeOK
BY UsageInvariant, TypesFollow, PTL

(* 0 <= bad_answers <= total_answers in every row, committed or about to be. *)
THEOREM UsageBadWithinTotal == Spec => []BadWithinTotal
<1>1. IInv => BadWithinTotal
  BY DEF IInv
<1> QED BY <1>1, UsageInvariant, PTL

(* No commit makes a counter wrong. *)
THEOREM UsageDriftKeptOrRepaired == Spec => DriftKeptOrRepaired
<1>1. IInv /\ [Next]_vars => [\A b \in Bucket : Drift(b)' \in {Drift(b), NoDrift}]_vars
  BY StepKeeps
<1> QED BY <1>1, UsageInvariant, PTL DEF Spec, DriftKeptOrRepaired

(* The backfill, and a rating that took the recovery path, leave their buckets
   equal to the source. *)
THEOREM UsageRecountRepairs == Spec => RecountRepairs
<1> DEFINE Repairs ==
      /\ WriteBuckets => \A b \in Bucket : Drift(b)' = NoDrift
      /\ \A f \in Rater, b \in Bucket :
           CommitRating(f) /\ rater[f].read # None /\ b = BucketRated(f) => Drift(b)' = NoDrift
<1>1. IInv => Repairs
  BY WriteBucketsKeeps, CommitRatingKeeps
<1>2. IInv /\ [Next]_vars => [Repairs]_vars
  BY <1>1
<1> QED BY <1>2, UsageInvariant, PTL DEF Spec, RecountRepairs
=============================================================================
