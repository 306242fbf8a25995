---------------------------- MODULE UsageAggregates ----------------------------
(***************************************************************************)
(* The counters of usage_daily and the messages and ratings they summarize  *)
(* (usage.service.ts, chat.service.ts, scripts/usage-backfill.ts).           *)
(*                                                                         *)
(* Three kinds of transaction write a bucket, at READ COMMITTED: the one     *)
(* that stores an answer, the one that stores its rating, and the backfill   *)
(* that recounts everything.  A statement sees what is committed when it     *)
(* starts and what its own transaction wrote; an UPDATE that has waited for  *)
(* a row evaluates its condition again on the row it then finds.             *)
(*                                                                         *)
(* A bucket without a row and a row of zeros are the same here: the fast     *)
(* path matches neither and every upsert makes the one into the other.       *)
(***************************************************************************)
EXTENDS Integers, FiniteSets

CONSTANTS
  Answer,       \* assistant messages
  Bucket,       \* (widget key, UTC date, domain)
  BucketOf,     \* the bucket of an answer: its created_at and its session's pageUrl
  Existing,     \* answers stored before the columns total_answers and bad_answers
  Rater,        \* requests that rate an answer
  Backfill,     \* the backfill's transaction
  MaxRequests,  \* bound: calls of recordUsage per bucket
  None

ASSUME BucketAssumption ==
  /\ IsFiniteSet(Answer)
  /\ BucketOf \in [Answer -> Bucket]
  /\ Existing \subseteq Answer
ASSUME RequestsAssumption == MaxRequests \in Nat
ASSUME TransactionAssumption ==
  /\ Answer \cap Rater = {} /\ Backfill \notin Answer \cup Rater
  /\ None \notin Answer \cup Rater \cup {Backfill}

(* The transaction that stores an answer goes by the name of the answer. *)
Transaction == Answer \cup Rater \cup {Backfill}

(* Mutant: the backfill locks its tables from the last to the first. *)
TablesReversed == <<"usage_daily", "message_feedbacks", "messages">>

(* The tables that runBackfill locks, in its order. *)
Tables == <<"messages", "message_feedbacks", "usage_daily">>
Table == {Tables[i] : i \in 1 .. 3}

VARIABLES
  writer,     \* where the transaction that stores an answer is
  rating,     \* message_feedbacks.rating, committed
  row,        \* usage_daily, committed
  draft,      \* what the holder of a row has made of it
  rowLock,    \* the transaction that holds a bucket's row
  answerLock, \* the rater that holds an answer FOR UPDATE
  writes,     \* the transactions that hold a table in ROW EXCLUSIVE mode
  rater,      \* the transaction of a rating
  backfill,   \* the transaction of the backfill
  recorded    \* calls of recordUsage that have returned

lockVars == <<rowLock, answerLock, writes>>
vars == <<writer, rating, row, draft, lockVars, rater, backfill, recorded>>

Rating == {"GOOD", "BAD"}
Counts == [answers : Nat, bad : Nat]
Row == [answers : Nat, bad : Nat, requests : Nat]
ASSUME CountsAssumption == None \notin Counts /\ None \notin [Bucket -> Counts]

NoRating == [pc |-> "idle", answer |-> None, next |-> "none", previous |-> "none", read |-> None]
NoBackfill == [running |-> FALSE, held |-> 0, read |-> None]

Stored(a) == writer[a] = "stored"
InBucket(b) == {a \in Answer : Stored(a) /\ BucketOf[a] = b}

(* What a recount of a bucket finds when the ratings are r. *)
CountOf(b, r) == [answers |-> Cardinality(InBucket(b)),
                  bad |-> Cardinality({a \in InBucket(b) : r[a] = "BAD"})]

Init ==
  /\ writer = [a \in Answer |-> IF a \in Existing THEN "stored" ELSE "none"]
  /\ rating \in [Answer -> Rating \cup {"none"}]
  /\ \A a \in Answer \ Existing : rating[a] = "none"
  /\ row = [b \in Bucket |-> [answers |-> 0, bad |-> 0, requests |-> 0]]
  /\ draft = row
  /\ rowLock = [b \in Bucket |-> None]
  /\ answerLock = [a \in Answer |-> None]
  /\ writes = [t \in Table |-> {}]
  /\ rater = [f \in Rater |-> NoRating]
  /\ backfill = NoBackfill
  /\ recorded = [b \in Bucket |-> 0]

-----------------------------------------------------------------------------
(* Locks.  A lock that waits lets nobody overtake it, so a table that the
   backfill holds or waits for admits no further writer. *)
CanWrite(t) == ~ \E i \in 1 .. 3 : /\ Tables[i] = t
                                   /\ backfill.running
                                   /\ i <= backfill.held + 1

OpenTable(x, t) == CanWrite(t) /\ writes' = [writes EXCEPT ![t] = @ \cup {x}]

LockRow(x, b) == rowLock[b] \in {None, x} /\ rowLock' = [rowLock EXCEPT ![b] = x]

(* COMMIT and ROLLBACK release everything a transaction holds. *)
Release(x) ==
  /\ rowLock' = [b \in Bucket |-> IF rowLock[b] = x THEN None ELSE rowLock[b]]
  /\ answerLock' = [a \in Answer |-> IF answerLock[a] = x THEN None ELSE answerLock[a]]
  /\ writes' = [t \in Table |-> writes[t] \ {x}]

Publish(x) == /\ row' = [b \in Bucket |-> IF rowLock[b] = x THEN draft[b] ELSE row[b]]
              /\ UNCHANGED draft
Discard(x) == /\ draft' = [b \in Bucket |-> IF rowLock[b] = x THEN row[b] ELSE draft[b]]
              /\ UNCHANGED row

-----------------------------------------------------------------------------
(* An answer: createMessage with role assistant. *)
InsertAnswer(a) ==
  /\ writer[a] = "none"
  /\ OpenTable(a, "messages")
  /\ writer' = [writer EXCEPT ![a] = "inserted"]
  /\ UNCHANGED <<rating, row, draft, rowLock, answerLock, rater, backfill, recorded>>

OpenUsageForAnswer(a) ==
  /\ writer[a] = "inserted"
  /\ OpenTable(a, "usage_daily")
  /\ writer' = [writer EXCEPT ![a] = "counting"]
  /\ UNCHANGED <<rating, row, draft, rowLock, answerLock, rater, backfill, recorded>>

(* Mutant: the total is read before the row is locked and written back. *)
CountAnswerUnlocked(a) ==
  /\ writer[a] = "counting"
  /\ writer' = [writer EXCEPT ![a] = "counted"]
  /\ rowLock' = [rowLock EXCEPT ![BucketOf[a]] = a]
  /\ draft' = [draft EXCEPT ![BucketOf[a]] = [row[BucketOf[a]] EXCEPT !.answers = @ + 1]]
  /\ UNCHANGED <<rating, row, answerLock, writes, rater, backfill, recorded>>

(* incrementTotalAnswers *)
CountAnswer(a) ==
  /\ writer[a] = "counting"
  /\ LockRow(a, BucketOf[a])
  /\ draft' = [draft EXCEPT ![BucketOf[a]].answers = @ + 1]
  /\ writer' = [writer EXCEPT ![a] = "counted"]
  /\ UNCHANGED <<rating, row, answerLock, writes, rater, backfill, recorded>>

CommitAnswer(a) ==
  /\ writer[a] = "counted"
  /\ writer' = [writer EXCEPT ![a] = "stored"]
  /\ Publish(a)
  /\ Release(a)
  /\ UNCHANGED <<rating, rater, backfill, recorded>>

(* The connection is lost or the session is gone; the turn may be sent again. *)
AbortAnswer(a) ==
  /\ writer[a] \in {"inserted", "counting", "counted"}
  /\ writer' = [writer EXCEPT ![a] = "none"]
  /\ Discard(a)
  /\ Release(a)
  /\ UNCHANGED <<rating, rater, backfill, recorded>>

-----------------------------------------------------------------------------
(* A rating: upsertMessageFeedback. *)
Goto(f, p) == rater' = [rater EXCEPT ![f].pc = p]

(* Mutant: FOR UPDATE is missing, so two requests read the same previous rating. *)
LockNoAnswer(f, a, r) ==
  /\ rater[f].pc = "idle"
  /\ Stored(a)
  /\ rater' = [rater EXCEPT ![f] = [NoRating EXCEPT !.pc = "locked", !.answer = a, !.next = r]]
  /\ UNCHANGED <<writer, rating, row, draft, lockVars, backfill, recorded>>

LockAnswer(f, a, r) ==
  /\ rater[f].pc = "idle"
  /\ Stored(a) /\ answerLock[a] = None
  /\ answerLock' = [answerLock EXCEPT ![a] = f]
  /\ rater' = [rater EXCEPT ![f] = [NoRating EXCEPT !.pc = "locked", !.answer = a, !.next = r]]
  /\ UNCHANGED <<writer, rating, row, draft, rowLock, writes, backfill, recorded>>

ReadPrevious(f) ==
  /\ rater[f].pc = "locked"
  /\ rater' = [rater EXCEPT ![f].pc = "upsert", ![f].previous = rating[rater[f].answer]]
  /\ UNCHANGED <<writer, rating, row, draft, lockVars, backfill, recorded>>

(* computeBadAnswerDelta *)
Delta(f) == (IF rater[f].next = "BAD" THEN 1 ELSE 0) - (IF rater[f].previous = "BAD" THEN 1 ELSE 0)

BucketRated(f) == BucketOf[rater[f].answer]

(* The ratings as the transaction of f sees them after its upsert. *)
RatingsSeenBy(f) == [rating EXCEPT ![rater[f].answer] = rater[f].next]

UpsertRating(f) ==
  /\ rater[f].pc = "upsert"
  /\ OpenTable(f, "message_feedbacks")
  /\ Goto(f, IF Delta(f) = 0 THEN "commit" ELSE "delta")
  /\ UNCHANGED <<writer, rating, row, draft, rowLock, answerLock, backfill, recorded>>

OpenUsageForRating(f) ==
  /\ rater[f].pc = "delta"
  /\ OpenTable(f, "usage_daily")
  /\ Goto(f, "fast")
  /\ UNCHANGED <<writer, rating, row, draft, rowLock, answerLock, backfill, recorded>>

(* The WHERE clause of the fast path. *)
KeepsCheck(c, d) == c.bad + d >= 0 /\ c.bad + d <= c.answers

(* Mutant: the guard only looks at the lower bound. *)
FastPathUnguarded(f) ==
  LET b == BucketRated(f) IN
  /\ rater[f].pc = "fast"
  /\ row[b].bad + Delta(f) >= 0
  /\ LockRow(f, b)
  /\ draft' = [draft EXCEPT ![b].bad = @ + Delta(f)]
  /\ Goto(f, "commit")
  /\ UNCHANGED <<writer, rating, row, answerLock, writes, backfill, recorded>>

FastPath(f) ==
  LET b == BucketRated(f) IN
  /\ rater[f].pc = "fast"
  /\ KeepsCheck(row[b], Delta(f))
  /\ LockRow(f, b)
  /\ draft' = [draft EXCEPT ![b].bad = @ + Delta(f)]
  /\ Goto(f, "commit")
  /\ UNCHANGED <<writer, rating, row, answerLock, writes, backfill, recorded>>

(* No row matches: a statement that finds no row to update waits for none. *)
MissFastPath(f) ==
  /\ rater[f].pc = "fast"
  /\ ~ KeepsCheck(row[BucketRated(f)], Delta(f))
  /\ Goto(f, "reconcile")
  /\ UNCHANGED <<writer, rating, row, draft, lockVars, backfill, recorded>>

(* reconcileAnswerBucketFromSource: the placeholder and FOR UPDATE ... *)
LockBucket(f) ==
  /\ rater[f].pc = "reconcile"
  /\ LockRow(f, BucketRated(f))
  /\ Goto(f, "recount")
  /\ UNCHANGED <<writer, rating, row, draft, answerLock, writes, backfill, recorded>>

(* ... the read of messages, sessions and feedback ... *)
Recount(f) ==
  /\ rater[f].pc = "recount"
  /\ rater' = [rater EXCEPT ![f].pc = "set",
                            ![f].read = CountOf(BucketRated(f), RatingsSeenBy(f))]
  /\ UNCHANGED <<writer, rating, row, draft, lockVars, backfill, recorded>>

(* ... and the absolute SET, which leaves the tokens and requests alone. *)
SetBucket(f) ==
  LET b == BucketRated(f) IN
  /\ rater[f].pc = "set"
  /\ LockRow(f, b)
  /\ draft' = [draft EXCEPT ![b].answers = rater[f].read.answers, ![b].bad = rater[f].read.bad]
  /\ Goto(f, "commit")
  /\ UNCHANGED <<writer, rating, row, answerLock, writes, backfill, recorded>>

CommitRating(f) ==
  /\ rater[f].pc = "commit"
  /\ rating' = RatingsSeenBy(f)
  /\ rater' = [rater EXCEPT ![f] = NoRating]
  /\ Publish(f)
  /\ Release(f)
  /\ UNCHANGED <<writer, backfill, recorded>>

AbortRating(f) ==
  /\ rater[f].pc # "idle"
  /\ rater' = [rater EXCEPT ![f] = NoRating]
  /\ Discard(f)
  /\ Release(f)
  /\ UNCHANGED <<writer, rating, backfill, recorded>>

-----------------------------------------------------------------------------
(* recordUsage is a statement of its own. *)
RecordUsage(b) ==
  /\ recorded[b] < MaxRequests
  /\ CanWrite("usage_daily")
  /\ rowLock[b] = None
  /\ row' = [row EXCEPT ![b].requests = @ + 1]
  /\ draft' = [draft EXCEPT ![b].requests = @ + 1]
  /\ recorded' = [recorded EXCEPT ![b] = @ + 1]
  /\ UNCHANGED <<writer, rating, lockVars, rater, backfill>>

-----------------------------------------------------------------------------
(* The backfill: runBackfill. *)
StartBackfill ==
  /\ ~ backfill.running
  /\ backfill' = [backfill EXCEPT !.running = TRUE]
  /\ UNCHANGED <<writer, rating, row, draft, lockVars, rater, recorded>>

(* Mutant: the backfill does not wait for the transactions that write. *)
LockTableAtOnce ==
  /\ backfill.running /\ backfill.held < 3
  /\ backfill' = [backfill EXCEPT !.held = @ + 1]
  /\ UNCHANGED <<writer, rating, row, draft, lockVars, rater, recorded>>

(* LOCK TABLE locks its tables one after the other; SHARE ROW EXCLUSIVE waits
   for every transaction that has written to the table. *)
LockTable ==
  /\ backfill.running /\ backfill.held < 3
  /\ writes[Tables[backfill.held + 1]] = {}
  /\ backfill' = [backfill EXCEPT !.held = @ + 1]
  /\ UNCHANGED <<writer, rating, row, draft, lockVars, rater, recorded>>

ReadSource ==
  /\ backfill.held = 3 /\ backfill.read = None
  /\ backfill' = [backfill EXCEPT !.read = [b \in Bucket |-> CountOf(b, rating)]]
  /\ UNCHANGED <<writer, rating, row, draft, lockVars, rater, recorded>>

(* Mutant: the upsert sets the whole row. *)
WriteWholeRows ==
  /\ backfill.read # None
  /\ \A b \in Bucket : rowLock[b] = None
  /\ row' = [b \in Bucket |->
               LET c == backfill.read[b] IN
               IF c.answers = 0 THEN row[b]
               ELSE [answers |-> c.answers, bad |-> c.bad, requests |-> 0]]
  /\ draft' = row'
  /\ backfill' = NoBackfill
  /\ UNCHANGED <<writer, rating, lockVars, rater, recorded>>

(* The upserts, of the buckets that have an answer, and COMMIT. *)
WriteBuckets ==
  /\ backfill.read # None
  /\ \A b \in Bucket : rowLock[b] = None
  /\ row' = [b \in Bucket |->
               LET c == backfill.read[b] IN
               IF c.answers = 0 THEN row[b]
               ELSE [row[b] EXCEPT !.answers = c.answers, !.bad = c.bad]]
  /\ draft' = row'
  /\ backfill' = NoBackfill
  /\ UNCHANGED <<writer, rating, lockVars, rater, recorded>>

(* lock_timeout, an error, or the end of the script. *)
AbortBackfill ==
  /\ backfill.running
  /\ backfill' = NoBackfill
  /\ UNCHANGED <<writer, rating, row, draft, lockVars, rater, recorded>>

-----------------------------------------------------------------------------
AnswerStep(a) == OpenUsageForAnswer(a) \/ CountAnswer(a) \/ CommitAnswer(a)

RatingStep(f) ==
  \/ ReadPrevious(f) \/ UpsertRating(f) \/ OpenUsageForRating(f) \/ FastPath(f)
  \/ MissFastPath(f) \/ LockBucket(f) \/ Recount(f) \/ SetBucket(f) \/ CommitRating(f)

BackfillStep == LockTable \/ ReadSource \/ WriteBuckets

Next ==
  \/ \E a \in Answer : InsertAnswer(a) \/ AnswerStep(a) \/ AbortAnswer(a)
  \/ \E f \in Rater : \/ \E a \in Answer, r \in Rating : LockAnswer(f, a, r)
                      \/ RatingStep(f) \/ AbortRating(f)
  \/ \E b \in Bucket : RecordUsage(b)
  \/ StartBackfill \/ BackfillStep \/ AbortBackfill

(* PostgreSQL wakes those that wait for a lock in the order of their arrival, so
   a transaction that can go on again and again does go on. *)
Fairness ==
  /\ \A a \in Answer : SF_vars(AnswerStep(a))
  /\ \A f \in Rater : SF_vars(RatingStep(f))
  /\ SF_vars(BackfillStep)

Spec == Init /\ [][Next]_vars /\ Fairness
-----------------------------------------------------------------------------
(* What a transaction holds follows from where it is. *)
LocksOfAnswer(a) ==
  /\ a \in writes["messages"] <=> writer[a] \in {"inserted", "counting", "counted"}
  /\ a \in writes["usage_daily"] <=> writer[a] \in {"counting", "counted"}
  /\ a \notin writes["message_feedbacks"]
  /\ \A b \in Bucket : rowLock[b] = a <=> writer[a] = "counted" /\ b = BucketOf[a]

LocksOfRater(f) ==
  /\ \A a \in Answer : answerLock[a] = f <=> rater[f].pc # "idle" /\ a = rater[f].answer
  /\ f \notin writes["messages"]
  /\ f \in writes["message_feedbacks"] <=>
       rater[f].pc \in {"delta", "fast", "reconcile", "recount", "set", "commit"}
  /\ f \in writes["usage_daily"] <=>
       \/ rater[f].pc \in {"fast", "reconcile", "recount", "set"}
       \/ rater[f].pc = "commit" /\ Delta(f) # 0
  /\ \A b \in Bucket : rowLock[b] = f <=>
       /\ \/ rater[f].pc \in {"recount", "set"}
          \/ rater[f].pc = "commit" /\ Delta(f) # 0
       /\ b = BucketRated(f)

RaterPc == {"idle", "locked", "upsert", "delta", "fast", "reconcile", "recount", "set", "commit"}

(* Type correctness, with the locks each transaction holds at each of its
   statements: createMessage, upsertMessageFeedback, runBackfill. *)
TypeOK ==
  /\ writer \in [Answer -> {"none", "inserted", "counting", "counted", "stored"}]
  /\ rating \in [Answer -> Rating \cup {"none"}]
  /\ row \in [Bucket -> Row] /\ draft \in [Bucket -> Row]
  /\ rowLock \in [Bucket -> Transaction \cup {None}]
  /\ answerLock \in [Answer -> Rater \cup {None}]
  /\ writes \in [Table -> SUBSET Transaction]
  /\ \A f \in Rater :
       /\ DOMAIN rater[f] = DOMAIN NoRating
       /\ rater[f].pc \in RaterPc
       /\ rater[f].pc # "idle" => rater[f].answer \in Answer /\ rater[f].next \in Rating
       /\ rater[f].previous \in Rating \cup {"none"}
       /\ rater[f].read \in Counts \cup {None}
  /\ backfill.running \in BOOLEAN /\ backfill.held \in 0 .. 3
  /\ backfill.read \in [Bucket -> Counts] \cup {None}
  /\ recorded \in [Bucket -> Nat]
  /\ \A a \in Answer : LocksOfAnswer(a)
  /\ \A f \in Rater : LocksOfRater(f)

(* The CHECK of usage_daily, 0 <= bad_answers <= total_answers, never rejects
   what a transaction has written, committed or not: no rating fails on it, not
   even while the counters still miss the answers from before the columns. *)
BadWithinTotal ==
  \A b \in Bucket : \A c \in {row[b], draft[b]} : 0 <= c.bad /\ c.bad <= c.answers

(* How far a bucket is from its source. *)
Drift(b) ==
  [answers |-> CountOf(b, rating).answers - row[b].answers,
   bad |-> CountOf(b, rating).bad - row[b].bad,
   requests |-> recorded[b] - row[b].requests]

NoDrift == [answers |-> 0, bad |-> 0, requests |-> 0]

(* No commit makes a counter wrong: whatever answers, ratings, recounts and
   calls of recordUsage overlap, a bucket stays as far from its source as it
   was, or becomes equal to it.  Answers from before the columns are the only
   drift there ever is. *)
DriftKeptOrRepaired ==
  [][\A b \in Bucket : Drift(b)' \in {Drift(b), NoDrift}]_vars

(* A recount repairs: when the backfill commits every bucket equals its source,
   and so does the bucket of a rating that took the recovery path. *)
RecountRepairs ==
  [][/\ WriteBuckets => \A b \in Bucket : Drift(b)' = NoDrift
     /\ \A f \in Rater, b \in Bucket :
          CommitRating(f) /\ rater[f].read # None /\ b = BucketRated(f) => Drift(b)' = NoDrift]_vars

(* Every transaction that has begun ends, without an abort: the locks of
   messages, feedback and usage_daily are never waited for in a circle, whether
   they are row locks or the table locks of the backfill. *)
TransactionsEnd ==
  /\ \A a \in Answer : (writer[a] = "inserted") ~> (writer[a] \in {"none", "stored"})
  /\ \A f \in Rater : (rater[f].pc = "locked") ~> (rater[f].pc = "idle")
  /\ backfill.running ~> ~ backfill.running

=============================================================================
