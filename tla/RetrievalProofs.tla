---------------------------- MODULE RetrievalProofs ----------------------------
(***************************************************************************)
(* What the pipeline publishes of a document, and what a turn makes of it,   *)
(* for texts, paths and documents of any number and length.                 *)
(***************************************************************************)
EXTENDS Retrieval, FiniteSetTheorems, SequenceTheorems, TLAPS

-----------------------------------------------------------------------------
(* Induction over the natural numbers, by the least that is not in a set. *)
LEMMA Induction ==
  ASSUME NEW T, 0 \in T, \A n \in Nat : n \in T => n + 1 \in T
  PROVE  Nat \subseteq T
<1> SUFFICES ASSUME Nat \ T # {} PROVE FALSE
  OBVIOUS
<1> DEFINE R == {ss \in Nat \X Nat : ss[1] < ss[2]}
           U == Nat \ T
<1>1. IsWellFoundedOn(R, Nat)
  BY NatLessThanWellFounded DEF OpToRel
<1>2. \E u \in U : \A v \in U : ~(<<v, u>> \in R)
  <2>1. U \subseteq Nat /\ U # {}
    OBVIOUS
  <2> HIDE DEF U, R
  <2> QED BY <1>1, <2>1, WFMin
<1>3. PICK u \in U : \A v \in U : ~(v < u)
  BY <1>2
<1>4. u # 0 /\ u \in Nat /\ u - 1 \in Nat
  OBVIOUS
<1>5. u - 1 \in T
  BY <1>3, <1>4
<1>6. (u - 1) + 1 \in T
  BY <1>4, <1>5
<1> QED BY <1>4, <1>6

(* Induction over the numbers up to N. *)
LEMMA InductionTo ==
  ASSUME NEW N \in Nat, NEW T, 0 \in T, \A n \in 1 .. N : n - 1 \in T => n \in T
  PROVE  0 .. N \subseteq T
<1> DEFINE U == {n \in Nat : n <= N => n \in T}
<1>1. \A n \in Nat : n \in U => n + 1 \in U
  <2> SUFFICES ASSUME NEW n \in Nat, n \in U, n + 1 <= N PROVE n + 1 \in T
    OBVIOUS
  <2>1. n + 1 \in 1 .. N /\ (n + 1) - 1 = n /\ n \in T
    OBVIOUS
  <2> QED BY <2>1
<1>2. 0 \in U
  OBVIOUS
<1> HIDE DEF U
<1>3. Nat \subseteq U
  BY <1>1, <1>2, Induction
<1> QED BY <1>3 DEF U

(* The numbers up to n, and those before them. *)
LEMMA Intervals ==
  /\ 1 .. 0 = {}
  /\ \A n \in Nat : n + 1 \in 1 .. (n + 1) /\ (1 .. (n + 1)) \ {n + 1} = 1 .. n
  /\ \A n, k \in Nat : k <= n => 1 .. k \subseteq 1 .. n /\ k \in 0 .. n
  /\ \A n \in Nat : \A k \in 1 .. n : k - 1 \in 0 .. n /\ k - 1 \in Nat /\ k \in 0 .. n /\ (k - 1) + 1 = k
OBVIOUS

(* Of some numbers up to n + 1, those that are at most n. *)
LEMMA SetsUpTo ==
  ASSUME NEW n \in Nat, NEW s \in SUBSET (1 .. (n + 1))
  PROVE  /\ s \ {n + 1} \in SUBSET (1 .. n)
         /\ n + 1 \notin s => s \in SUBSET (1 .. n)
         /\ s \in SUBSET (1 .. n) => n + 1 \notin s
OBVIOUS

(* The largest of some numbers up to N. *)
LEMMA MaxOf ==
  ASSUME NEW N \in Nat, NEW s \in SUBSET (1 .. N), s # {}
  PROVE  Max(s) \in s /\ \A y \in s : y <= Max(s)
<1>1. \E x \in s : \A y \in s : x >= y
  <2> DEFINE Top(u) == u # {} => \E x \in u : \A y \in u : x >= y
             T == {n \in Nat : \A u \in SUBSET (1 .. n) : Top(u)}
  <2>1. 0 \in T
    BY Intervals
  <2>2. ASSUME NEW n \in Nat, n \in T PROVE n + 1 \in T
    <3> SUFFICES ASSUME NEW u \in SUBSET (1 .. (n + 1)), u # {} PROVE \E x \in u : \A y \in u : x >= y
      OBVIOUS
    <3>1. CASE n + 1 \in u
      BY <3>1
    <3>2. CASE n + 1 \notin u
      BY <2>2, <3>2, SetsUpTo
    <3> QED BY <3>1, <3>2
  <2> HIDE DEF T
  <2>3. Nat \subseteq T
    BY <2>1, <2>2, Induction
  <2>4. N \in T
    BY <2>3
  <2>5. Top(s)
    BY <2>4 DEF T
  <2> QED BY <2>5
<1> QED BY <1>1 DEF Max

(* The largest of the numbers up to n. *)
LEMMA MaxOfInterval ==
  ASSUME NEW n \in Nat, n # 0
  PROVE  Max(1 .. n) = n
<1>1. 1 .. n \in SUBSET (1 .. n) /\ n \in 1 .. n
  OBVIOUS
<1>2. Max(1 .. n) \in 1 .. n /\ n <= Max(1 .. n)
  BY <1>1, MaxOf
<1> QED BY <1>2

-----------------------------------------------------------------------------
(* A fold, step by step: step[x][e] is the result on one element more. *)
Runs(f, step, base, seq, N) ==
  f[0] = base /\ \A n \in 1 .. N : f[n] = step[f[n - 1]][seq[n]]

Run(step, base, seq) ==
  (CHOOSE f : f = [n \in 0 .. Len(seq) |-> f[n]] /\ Runs(f, step, base, seq, Len(seq)))[Len(seq)]

(* The steps of a fold of elements of E with values in S, and N such elements. *)
IsFold(S, E, step, base) == step \in [S -> [E -> S]] /\ base \in S
Long(N, E) == [1 .. N -> E]

(* The function that the definition of a fold chooses. *)
Folds(h, S, step, base, seq, N) ==
  /\ h \in [SUBSET (1 .. N) -> S]
  /\ h[{}] = base
  /\ \A s \in SUBSET (1 .. N) : s # {} => h[s] = step[h[s \ {Max(s)}]][seq[Max(s)]]

(* It is extended by an element more. *)
LEMMA FoldExtends ==
  ASSUME NEW S, NEW E, NEW step, NEW base, IsFold(S, E, step, base), NEW seq, NEW n \in Nat, seq[n + 1] \in E,
         NEW h, Folds(h, S, step, base, seq, n)
  PROVE  \E g : Folds(g, S, step, base, seq, n + 1)
<1> DEFINE B == SUBSET (1 .. (n + 1))
           g == [s \in B |-> IF n + 1 \in s THEN step[h[s \ {n + 1}]][seq[n + 1]] ELSE h[s]]
<1>0. h \in [SUBSET (1 .. n) -> S] /\ step \in [S -> [E -> S]]
  BY DEF Folds, IsFold
<1>1. \A s \in B : /\ s \ {n + 1} \in SUBSET (1 .. n)
                   /\ n + 1 \notin s => s \in SUBSET (1 .. n)
  BY SetsUpTo
<1>2. \A s \in B : g[s] \in S
  <2> SUFFICES ASSUME NEW s \in B PROVE g[s] \in S
    OBVIOUS
  <2>1. CASE n + 1 \in s
    <3>1. h[s \ {n + 1}] \in S
      BY <1>0, <1>1
    <3>2. step[h[s \ {n + 1}]] \in [E -> S]
      BY <1>0, <3>1
    <3>3. step[h[s \ {n + 1}]][seq[n + 1]] \in S
      BY <3>2
    <3> QED BY <2>1, <3>3
  <2>2. CASE n + 1 \notin s
    BY <1>0, <1>1, <2>2
  <2> QED BY <2>1, <2>2
<1>3. g \in [B -> S]
  BY <1>2
<1>4. g[{}] = base
  <2>1. {} \in B /\ n + 1 \notin {}
    OBVIOUS
  <2>2. g[{}] = h[{}]
    BY <2>1
  <2> QED BY <2>2 DEF Folds
<1>5. ASSUME NEW s \in B, s # {}
      PROVE  g[s] = step[g[s \ {Max(s)}]][seq[Max(s)]]
  <2>0. n + 1 \in Nat
    OBVIOUS
  <2>1. Max(s) \in s /\ (\A y \in s : y <= Max(s)) /\ Max(s) \in 1 .. (n + 1)
    BY <2>0, <1>5, MaxOf
  <2>2. CASE n + 1 \in s
    <3>1. Max(s) = n + 1
      <4>1. PICK m \in 1 .. (n + 1) : m = Max(s)
        BY <2>1
      <4>2. n + 1 <= m
        BY <2>1, <2>2, <4>1
      <4> QED BY <4>1, <4>2
    <3>2. s \ {n + 1} \in B /\ n + 1 \notin s \ {n + 1}
      OBVIOUS
    <3>3. g[s \ {n + 1}] = h[s \ {n + 1}]
      BY <3>2
    <3>4. g[s] = step[h[s \ {n + 1}]][seq[n + 1]]
      BY <2>2
    <3> QED BY <3>1, <3>3, <3>4
  <2>3. CASE n + 1 \notin s
    <3>1. s \in SUBSET (1 .. n) /\ s \ {Max(s)} \in B /\ n + 1 \notin s \ {Max(s)}
      BY <1>1, <2>3
    <3>2. g[s] = h[s] /\ g[s \ {Max(s)}] = h[s \ {Max(s)}]
      BY <2>3, <3>1
    <3>3. h[s] = step[h[s \ {Max(s)}]][seq[Max(s)]]
      BY <1>5, <3>1 DEF Folds
    <3> QED BY <3>2, <3>3
  <2> QED BY <2>2, <2>3
<1> HIDE DEF g
<1>6. Folds(g, S, step, base, seq, n + 1)
  BY <1>3, <1>4, <1>5 DEF Folds
<1> QED BY <1>6

(* There is such a function. *)
LEMMA FoldExists ==
  ASSUME NEW S, NEW E, NEW step, NEW base, IsFold(S, E, step, base), NEW N \in Nat, NEW seq \in Long(N, E)
  PROVE  \E h : Folds(h, S, step, base, seq, N)
<1> DEFINE T == {n \in 0 .. N : \E h : Folds(h, S, step, base, seq, n)}
<1>1. 0 \in T
  <2> DEFINE h == [s \in SUBSET (1 .. 0) |-> base]
  <2>1. h \in [SUBSET (1 .. 0) -> S] /\ h[{}] = base
    BY DEF IsFold
  <2>2. \A s \in SUBSET (1 .. 0) : s = {}
    BY Intervals
  <2> HIDE DEF h
  <2>3. Folds(h, S, step, base, seq, 0)
    BY <2>1, <2>2 DEF Folds
  <2>4. 0 \in 0 .. N
    OBVIOUS
  <2> QED BY <2>1, <2>3, <2>4
<1>2. ASSUME NEW k \in 1 .. N, k - 1 \in T PROVE k \in T
  <2>1. k - 1 \in Nat /\ (k - 1) + 1 = k /\ seq[k] \in E /\ k \in 0 .. N
    BY DEF Long
  <2>2. PICK n \in Nat : n = k - 1
    BY <2>1
  <2>3. PICK h : Folds(h, S, step, base, seq, n)
    BY <1>2, <2>2
  <2>4. n + 1 = k /\ seq[n + 1] \in E
    BY <2>1, <2>2
  <2>5. \E g : Folds(g, S, step, base, seq, n + 1)
    BY <2>3, <2>4, FoldExtends
  <2> QED BY <2>1, <2>4, <2>5
<1>3. N \in T
  <2> HIDE DEF T
  <2>1. 0 .. N \subseteq T
    BY <1>1, <1>2, InductionTo
  <2> QED BY <2>1
<1> QED BY <1>3

(* Two functions that run the same steps agree. *)
LEMMA RunsAgree ==
  ASSUME NEW step, NEW base, NEW N \in Nat, NEW seq, NEW f, NEW g,
         Runs(f, step, base, seq, N), Runs(g, step, base, seq, N)
  PROVE  \A n \in 0 .. N : f[n] = g[n]
<1> DEFINE T == {n \in 0 .. N : f[n] = g[n]}
<1>1. 0 \in T
  BY DEF Runs
<1>2. \A n \in 1 .. N : n - 1 \in T => n \in T
  BY Intervals DEF Runs
<1>3. 0 .. N \subseteq T
  <2> HIDE DEF T
  <2> QED BY <1>1, <1>2, InductionTo
<1> QED BY <1>3

(* The value of a run is that of any function that runs it. *)
LEMMA RunValue ==
  ASSUME NEW step, NEW base, NEW seq, Len(seq) \in Nat, NEW f, Runs(f, step, base, seq, Len(seq))
  PROVE  Run(step, base, seq) = f[Len(seq)]
<1>1. PICK N \in Nat : N = Len(seq)
  OBVIOUS
<1> DEFINE P(x) == x = [n \in 0 .. N |-> x[n]] /\ Runs(x, step, base, seq, N)
           h == [n \in 0 .. N |-> f[n]]
           c == CHOOSE x : P(x)
<1>2. \A n \in 0 .. N : h[n] = f[n]
  OBVIOUS
<1>3. h = [n \in 0 .. N |-> h[n]]
  OBVIOUS
<1>4. Runs(h, step, base, seq, N)
  <2> HIDE DEF h
  <2>1. 0 \in 0 .. N /\ \A n \in 1 .. N : n \in 0 .. N /\ n - 1 \in 0 .. N
    OBVIOUS
  <2> QED BY <1>1, <1>2, <2>1 DEF Runs
<1>5. P(c)
  <2> HIDE DEF h
  <2>1. P(h)
    BY <1>3, <1>4
  <2> HIDE DEF P
  <2> QED BY <2>1
<1>6. c[N] = f[N]
  <2>1. Runs(c, step, base, seq, N)
    BY <1>5
  <2> HIDE DEF c
  <2>2. Runs(f, step, base, seq, N) /\ N \in 0 .. N
    BY <1>1
  <2> QED BY <2>1, <2>2, RunsAgree
<1> HIDE DEF P
<1> QED BY <1>1, <1>6 DEF Run, P

(* What the definition of a fold chooses, as far as its values are in S. *)
Unfolds(h, S, step, base, seq, N) ==
  /\ h[{}] = base
  /\ \A s \in SUBSET (1 .. N) :
       s # {} /\ h[s \ {Max(s)}] \in S /\ Max(s) \in 1 .. N
         => h[s] = step[h[s \ {Max(s)}]][seq[Max(s)]]

(* What the definition of a fold chooses is a run. *)
LEMMA FoldRuns ==
  ASSUME NEW S, NEW E, NEW step, NEW base, IsFold(S, E, step, base), NEW N \in Nat, NEW seq \in Long(N, E),
         NEW h, Unfolds(h, S, step, base, seq, N)
  PROVE  \E f \in [0 .. N -> S] : Runs(f, step, base, seq, N) /\ f[N] = h[1 .. N]
<1> DEFINE f == [n \in 0 .. N |-> h[1 .. n]]
           T == {n \in 0 .. N : f[n] \in S}
<1>1. \A n \in 0 .. N : f[n] = h[1 .. n]
  OBVIOUS
<1>2. DOMAIN f = 0 .. N /\ f = [n \in 0 .. N |-> f[n]]
  OBVIOUS
<1> HIDE DEF f
<1>3. f[0] = base
  BY <1>1, Intervals DEF Unfolds
<1>4. ASSUME NEW n \in 1 .. N, f[n - 1] \in S PROVE f[n] = step[f[n - 1]][seq[n]]
  <2>1. n \in Nat /\ n # 0 /\ n - 1 \in 0 .. N /\ n \in 0 .. N /\ n - 1 \in Nat /\ (n - 1) + 1 = n
    OBVIOUS
  <2>2. 1 .. n \in SUBSET (1 .. N) /\ n \in 1 .. n
    OBVIOUS
  <2>3. Max(1 .. n) = n
    BY <2>1, MaxOfInterval
  <2>4. (1 .. n) \ {n} = 1 .. (n - 1)
    OBVIOUS
  <2>5. f[n - 1] = h[1 .. (n - 1)] /\ f[n] = h[1 .. n]
    BY <1>1, <2>1
  <2>6. PICK s \in SUBSET (1 .. N) : s = 1 .. n
    BY <2>2
  <2>7. Max(s) = n /\ s \ {Max(s)} = 1 .. (n - 1) /\ s # {}
    BY <2>2, <2>3, <2>4, <2>6
  <2>8. h[s] = step[h[s \ {Max(s)}]][seq[Max(s)]]
    <3>1. n \in 1 .. N /\ h[s \ {Max(s)}] \in S
      BY <1>4, <2>5, <2>7
    <3> QED BY <2>7, <3>1 DEF Unfolds
  <2> QED BY <2>5, <2>6, <2>7, <2>8
<1>5. 0 \in T
  BY <1>3 DEF IsFold
<1>6. ASSUME NEW n \in 1 .. N, n - 1 \in T PROVE n \in T
  <2>1. f[n - 1] \in S /\ seq[n] \in E /\ n \in 0 .. N
    BY <1>6 DEF Long
  <2>2. f[n] = step[f[n - 1]][seq[n]]
    BY <1>4, <2>1
  <2>3. step[f[n - 1]] \in [E -> S]
    BY <2>1 DEF IsFold
  <2> QED BY <2>1, <2>2, <2>3
<1>7. 0 .. N \subseteq T
  <2> HIDE DEF T
  <2> QED BY <1>5, <1>6, InductionTo
<1>8. \A n \in 0 .. N : f[n] \in S
  BY <1>7
<1>9. f \in [0 .. N -> S]
  BY <1>2, <1>8
<1>10. Runs(f, step, base, seq, N)
  BY <1>3, <1>4, <1>8, Intervals DEF Runs
<1>11. f[N] = h[1 .. N]
  BY <1>1
<1> QED BY <1>9, <1>10, <1>11

(* What the definition of a fold chooses is the value of the run. *)
LEMMA FoldIsRun ==
  ASSUME NEW S, NEW E, NEW step, NEW base, IsFold(S, E, step, base), NEW seq \in Seq(E),
         NEW h, Unfolds(h, S, step, base, seq, Len(seq))
  PROVE  h[1 .. Len(seq)] = Run(step, base, seq)
<1>1. PICK N \in Nat : N = Len(seq)
  OBVIOUS
<1>2. seq \in Long(N, E)
  BY <1>1 DEF Long
<1>3. PICK f \in [0 .. N -> S] : Runs(f, step, base, seq, N) /\ f[N] = h[1 .. N]
  BY <1>1, <1>2, FoldRuns
<1> QED BY <1>1, <1>3, RunValue

(* A run exists, and its values are of the type of the fold. *)
LEMMA RunExists ==
  ASSUME NEW S, NEW E, NEW step, NEW base, IsFold(S, E, step, base), NEW seq \in Seq(E)
  PROVE  \E f \in [0 .. Len(seq) -> S] :
           Runs(f, step, base, seq, Len(seq)) /\ Run(step, base, seq) = f[Len(seq)]
<1>1. PICK N \in Nat : N = Len(seq)
  OBVIOUS
<1>2. seq \in Long(N, E)
  BY <1>1 DEF Long
<1>3. PICK h : Folds(h, S, step, base, seq, N)
  BY <1>2, FoldExists
<1>4. Unfolds(h, S, step, base, seq, N)
  BY <1>3 DEF Folds, Unfolds
<1>5. PICK f \in [0 .. N -> S] : Runs(f, step, base, seq, N)
  BY <1>2, <1>4, FoldRuns
<1> QED BY <1>1, <1>5, RunValue

(* A run of nothing, and of one element more. *)
LEMMA RunSteps ==
  ASSUME NEW S, NEW E, NEW step, NEW base, IsFold(S, E, step, base)
  PROVE  /\ Run(step, base, <<>>) = base
         /\ \A seq \in Seq(E) : Run(step, base, seq) \in S
         /\ \A seq \in Seq(E), e \in E : Run(step, base, Append(seq, e)) = step[Run(step, base, seq)][e]
<1>1. Run(step, base, <<>>) = base
  <2>1. ASSUME NEW none \in Seq(E), Len(none) = 0 PROVE Run(step, base, none) = base
    <3>1. PICK f : Runs(f, step, base, none, Len(none)) /\ Run(step, base, none) = f[Len(none)]
      BY RunExists
    <3>2. f[0] = base
      BY <3>1 DEF Runs
    <3> QED BY <2>1, <3>1, <3>2
  <2>2. <<>> \in Seq(E) /\ Len(<<>>) = 0
    OBVIOUS
  <2> QED BY <2>1, <2>2
<1>2. ASSUME NEW seq \in Seq(E) PROVE Run(step, base, seq) \in S
  <2>1. PICK f \in [0 .. Len(seq) -> S] : Run(step, base, seq) = f[Len(seq)]
    BY RunExists
  <2>2. Len(seq) \in 0 .. Len(seq)
    OBVIOUS
  <2> QED BY <2>1, <2>2
<1>3. ASSUME NEW seq \in Seq(E), NEW e \in E
      PROVE  Run(step, base, Append(seq, e)) = step[Run(step, base, seq)][e]
  <2>1. PICK N \in Nat : N = Len(seq)
    OBVIOUS
  <2> DEFINE more == Append(seq, e)
  <2>2. /\ more \in Seq(E) /\ Len(more) = N + 1
        /\ \A i \in 1 .. N : more[i] = seq[i]
        /\ more[N + 1] = e
    BY <2>1, AppendProperties
  <2> HIDE DEF more
  <2>3. PICK f : Runs(f, step, base, more, N + 1) /\ Run(step, base, more) = f[N + 1]
    <3>1. \E f \in [0 .. Len(more) -> S] :
            Runs(f, step, base, more, Len(more)) /\ Run(step, base, more) = f[Len(more)]
      <4>1. more \in Seq(E)
        BY <2>2
      <4> QED BY <4>1, RunExists
    <3> QED BY <2>2, <3>1
  <2>4. Runs(f, step, base, seq, N)
    <3>1. \A n \in 1 .. N : n \in 1 .. (N + 1)
      OBVIOUS
    <3> QED BY <2>2, <2>3, <3>1 DEF Runs
  <2>5. Run(step, base, seq) = f[N]
    BY <2>1, <2>4, RunValue
  <2>6. f[N + 1] = step[f[N]][e]
    <3>1. N + 1 \in 1 .. (N + 1) /\ (N + 1) - 1 = N
      OBVIOUS
    <3> QED BY <2>2, <2>3, <3>1 DEF Runs
  <2>7. Run(step, base, more) = step[Run(step, base, seq)][e]
    BY <2>3, <2>5, <2>6
  <2> QED BY <2>7 DEF more
<1> QED BY <1>1, <1>2, <1>3

(* What every step keeps, the run has. *)
LEMMA RunKeeps ==
  ASSUME NEW S, NEW E, NEW step, NEW base, IsFold(S, E, step, base), NEW seq \in Seq(E),
         NEW T, base \in T[0],
         \A n \in 1 .. Len(seq) : \A x \in S : x \in T[n - 1] => step[x][seq[n]] \in T[n]
  PROVE  Run(step, base, seq) \in T[Len(seq)]
<1>1. PICK N \in Nat : N = Len(seq)
  OBVIOUS
<1>2. PICK f \in [0 .. N -> S] : Runs(f, step, base, seq, N) /\ Run(step, base, seq) = f[N]
  BY <1>1, RunExists
<1> DEFINE U == {n \in 0 .. N : f[n] \in T[n]}
<1>3. 0 \in U
  BY <1>2 DEF Runs
<1>4. ASSUME NEW n \in 1 .. N, n - 1 \in U PROVE n \in U
  <2>1. n - 1 \in 0 .. N /\ n \in 0 .. N /\ f[n - 1] \in S /\ f[n - 1] \in T[n - 1]
    BY <1>4
  <2>2. f[n] = step[f[n - 1]][seq[n]]
    BY <1>2 DEF Runs
  <2> QED BY <1>1, <2>1, <2>2
<1>5. 0 .. N \subseteq U
  <2> HIDE DEF U
  <2> QED BY <1>3, <1>4, InductionTo
<1> QED BY <1>1, <1>2, <1>5

-----------------------------------------------------------------------------
(* Induction over sequences, one element more at a time. *)
LEMMA SeqInduction ==
  ASSUME NEW E, NEW T, <<>> \in T, \A seq \in Seq(E) : seq \in T => \A e \in E : Append(seq, e) \in T
  PROVE  Seq(E) \subseteq T
<1> DEFINE U == {n \in Nat : \A seq \in Seq(E) : Len(seq) = n => seq \in T}
<1>1. 0 \in U
  BY EmptySeq
<1>2. ASSUME NEW n \in Nat, n \in U PROVE n + 1 \in U
  <2> SUFFICES ASSUME NEW seq \in Seq(E), Len(seq) = n + 1 PROVE seq \in T
    OBVIOUS
  <2>1. seq # <<>>
    BY EmptySeq
  <2>2. PICK s \in Seq(E), e \in E : seq = Append(s, e)
    BY <2>1, SequenceEmptyOrAppend
  <2>3. Len(s) = n
    BY <2>2, AppendProperties, LenProperties
  <2>4. s \in T
    BY <1>2, <2>3
  <2> QED BY <2>2, <2>4
<1> HIDE DEF U
<1>3. Nat \subseteq U
  BY <1>1, <1>2, Induction
<1> QED BY <1>3, LenProperties DEF U

(* A sequence that is not empty is its last element after the others. *)
LEMMA FrontLast ==
  ASSUME NEW E, NEW seq \in Seq(E), seq # <<>>
  PROVE  /\ Front(seq) \in Seq(E) /\ Last(seq) \in E
         /\ seq = Append(Front(seq), Last(seq))
<1>1. PICK s \in Seq(E), e \in E : seq = Append(s, e)
  BY SequenceEmptyOrAppend
<1>2. PICK N \in Nat : N = Len(s)
  BY LenProperties
<1>3. /\ Len(seq) = N + 1 /\ seq[N + 1] = e
      /\ \A i \in 1 .. N : seq[i] = s[i]
  BY <1>1, <1>2, AppendProperties
<1>4. Last(seq) = e
  BY <1>3 DEF Last
<1>5. Front(seq) = SubSeq(seq, 1, N)
  BY <1>3 DEF Front
<1>6. /\ SubSeq(seq, 1, N) \in Seq(E) /\ Len(SubSeq(seq, 1, N)) = N
      /\ \A i \in 1 .. N : SubSeq(seq, 1, N)[i] = seq[i]
  <2>1. 1 \in Int /\ N \in Int /\ (N - 1) + 1 = N
    OBVIOUS
  <2>2. \A i \in 1 .. N : seq[i] \in E
    <3>1. \A i \in 1 .. N : s[i] \in E
      BY <1>2, ElementOfSeq
    <3> QED BY <1>3, <3>1
  <2>3. /\ SubSeq(seq, 1, N) \in Seq(E)
        /\ Len(SubSeq(seq, 1, N)) = IF 1 <= N THEN N - 1 + 1 ELSE 0
        /\ \A i \in 1 .. N - 1 + 1 : SubSeq(seq, 1, N)[i] = seq[1 + i - 1]
    BY <2>1, <2>2, SubSeqProperties
  <2> QED BY <2>3
<1>7. SubSeq(seq, 1, N) = s
  BY <1>2, <1>3, <1>6, SeqEqual
<1> QED BY <1>1, <1>4, <1>5, <1>7

(* What a sequence begins with. *)
LEMMA PrefixLaws ==
  ASSUME NEW E, NEW seq \in Seq(E)
  PROVE  /\ SubSeq(seq, 1, 0) = <<>> /\ SubSeq(seq, 1, Len(seq)) = seq
         /\ \A n \in 0 .. Len(seq) : SubSeq(seq, 1, n) \in Seq(E)
         /\ \A n \in 1 .. Len(seq) : SubSeq(seq, 1, n) = Append(SubSeq(seq, 1, n - 1), seq[n])
<1>1. PICK N \in Nat : N = Len(seq)
  BY LenProperties
<1>2. \A i \in 1 .. N : seq[i] \in E
  BY <1>1, ElementOfSeq
<1>3. SubSeq(seq, 1, 0) = <<>> /\ SubSeq(seq, 1, Len(seq)) = seq
  BY SubSeqEmpty, SubSeqFull
<1>4. ASSUME NEW n \in 0 .. N PROVE SubSeq(seq, 1, n) \in Seq(E)
  <2>1. \A i \in 1 .. n : seq[i] \in E
    BY <1>2
  <2> QED BY <2>1, SubSeqProperties
<1>5. ASSUME NEW n \in 1 .. N PROVE SubSeq(seq, 1, n) = Append(SubSeq(seq, 1, n - 1), seq[n])
  <2>1. 1 \in 1 .. Len(seq) /\ n \in 1 .. Len(seq) /\ n - 1 \in 0 .. N
    BY <1>1
  <2>2. SubSeq(seq, 1, n) = SubSeq(seq, 1, n - 1) \o <<seq[n]>>
    BY <2>1, SubSeqRecursiveSecond
  <2>3. SubSeq(seq, 1, n - 1) \in Seq(E) /\ seq[n] \in E
    BY <1>2, <1>4, <2>1
  <2> QED BY <2>2, <2>3, AppendIsConcat
<1> QED BY <1>1, <1>3, <1>4, <1>5

(* A sequence of one element. *)
LEMMA Single ==
  ASSUME NEW E, NEW e \in E
  PROVE  <<e>> \in Seq(E) /\ Append(<<>>, e) = <<e>> /\ <<e>> # <<>> /\ Len(<<e>>) = 1 /\ <<e>>[1] = e
OBVIOUS

(* An empty sequence changes nothing, and appending is adding a sequence of one. *)
LEMMA Concat ==
  ASSUME NEW E, NEW s \in Seq(E), NEW t \in Seq(E), NEW e \in E
  PROVE  /\ s \o <<>> = s /\ <<>> \o s = s /\ s \o t \in Seq(E) /\ Append(s, e) \in Seq(E)
         /\ s \o Append(t, e) = Append(s \o t, e) /\ Append(s, e) = s \o <<e>>
         /\ (s \o <<e>>) \o t = s \o (<<e>> \o t)
<1>1. s \o <<>> = s /\ <<>> \o s = s /\ s \o t \in Seq(E) /\ Append(s, e) \in Seq(E)
  BY ConcatEmptySeq, ConcatProperties, AppendProperties
<1>2. <<e>> \in Seq(E)
  BY Single
<1>3. Append(s, e) = s \o <<e>> /\ Append(t, e) = t \o <<e>> /\ Append(s \o t, e) = (s \o t) \o <<e>>
  BY <1>1, AppendIsConcat
<1>4. (s \o t) \o <<e>> = s \o (t \o <<e>>) /\ (s \o <<e>>) \o t = s \o (<<e>> \o t)
  BY <1>2, ConcatAssociative
<1> QED BY <1>1, <1>3, <1>4

(* Appending to two sequences is appending to the second. *)
LEMMA ConcatAppend ==
  ASSUME NEW E, NEW s \in Seq(E), NEW t \in Seq(E), NEW e \in E
  PROVE  s \o Append(t, e) = Append(s \o t, e)
BY Concat

-----------------------------------------------------------------------------
(* FlattenSeq, one sequence more at a time. *)
LEMMA FlattenSteps ==
  ASSUME NEW E
  PROVE  /\ FlattenSeq(<<>>) = <<>>
         /\ \A ss \in Seq(Seq(E)) : FlattenSeq(ss) \in Seq(E)
         /\ \A ss \in Seq(Seq(E)), s \in Seq(E) : FlattenSeq(Append(ss, s)) = FlattenSeq(ss) \o s
<1> DEFINE step == [x \in Seq(E) |-> [s \in Seq(E) |-> x \o s]]
<1>1. /\ IsFold(Seq(E), Seq(E), step, <<>>)
      /\ \A x, s \in Seq(E) : step[x][s] = x \o s
  BY ConcatProperties, EmptySeq DEF IsFold
<1> HIDE DEF step
<1>2. FlattenSeq(<<>>) = <<>>
  BY DEF FlattenSeq
<1>3. ASSUME NEW ss \in Seq(Seq(E)), Len(ss) # 0 PROVE FlattenSeq(ss) = Run(step, <<>>, ss)
  <2>1. PICK N \in Nat : N = Len(ss) /\ N # 0 /\ \A i \in 1 .. N : ss[i] \in Seq(E)
    BY <1>3, LenProperties, ElementOfSeq
  <2> DEFINE Q(h) == h = [i \in 1 .. N |-> IF i = 1 THEN ss[i] ELSE h[i - 1] \o ss[i]]
             c == CHOOSE h : Q(h)
  <2>2. FlattenSeq(ss) = c[N]
    BY <2>1 DEF FlattenSeq
  <2>3. PICK f \in [0 .. N -> Seq(E)] : Runs(f, step, <<>>, ss, N) /\ Run(step, <<>>, ss) = f[N]
    BY <1>1, <2>1, RunExists
  <2>4. f[0] = <<>> /\ \A i \in 1 .. N : f[i] = f[i - 1] \o ss[i]
    <3>1. \A i \in 1 .. N : f[i - 1] \in Seq(E) /\ f[i] = step[f[i - 1]][ss[i]]
      BY <2>3 DEF Runs
    <3> QED BY <1>1, <2>1, <2>3, <3>1 DEF Runs
  <2>5. f[1] = ss[1]
    <3>1. 1 \in 1 .. N /\ 1 - 1 = 0
      BY <2>1
    <3>2. f[1] = <<>> \o ss[1] /\ ss[1] \in Seq(E)
      BY <2>1, <2>4, <3>1
    <3> QED BY <3>2, ConcatEmptySeq
  <2> DEFINE g == [i \in 1 .. N |-> f[i]]
  <2>6. Q(g)
    <3>1. \A i \in 1 .. N : i # 1 => i - 1 \in 1 .. N
      OBVIOUS
    <3>2. \A i \in 1 .. N : g[i] = IF i = 1 THEN ss[i] ELSE g[i - 1] \o ss[i]
      BY <2>4, <2>5, <3>1
    <3> QED BY <3>2
  <2>7. Q(c)
    <3> HIDE DEF Q, g
    <3> QED BY <2>6
  <2> HIDE DEF c, g
  <2> DEFINE T == {n \in 0 .. N : n # 0 => c[n] = f[n]}
  <2>8. 0 \in T
    OBVIOUS
  <2>9. ASSUME NEW n \in 1 .. N, n - 1 \in T PROVE n \in T
    <3>1. c[n] = IF n = 1 THEN ss[n] ELSE c[n - 1] \o ss[n]
      BY <2>7
    <3>2. CASE n = 1
      BY <2>5, <3>1, <3>2
    <3>3. CASE n # 1
      <4>1. c[n - 1] = f[n - 1]
        BY <2>9, <3>3
      <4>2. c[n] = f[n]
        BY <2>4, <3>1, <3>3, <4>1
      <4> QED BY <4>2
    <3> QED BY <3>2, <3>3
  <2>10. 0 .. N \subseteq T
    <3> HIDE DEF T, Q
    <3> QED BY <2>8, <2>9, InductionTo
  <2>11. c[N] = f[N]
    BY <2>1, <2>10
  <2> QED BY <2>2, <2>3, <2>11
<1>4. /\ Run(step, <<>>, <<>>) = <<>>
      /\ \A ss \in Seq(Seq(E)) : Run(step, <<>>, ss) \in Seq(E)
      /\ \A ss \in Seq(Seq(E)), s \in Seq(E) : Run(step, <<>>, Append(ss, s)) = step[Run(step, <<>>, ss)][s]
  BY <1>1, RunSteps
<1>5. \A ss \in Seq(Seq(E)) : FlattenSeq(ss) = Run(step, <<>>, ss)
  <2> SUFFICES ASSUME NEW ss \in Seq(Seq(E)) PROVE FlattenSeq(ss) = Run(step, <<>>, ss)
    OBVIOUS
  <2>1. CASE ss = <<>>
    BY <1>2, <1>4, <2>1
  <2>2. CASE ss # <<>>
    BY <1>3, <2>2, EmptySeq
  <2> QED BY <2>1, <2>2
<1>6. ASSUME NEW ss \in Seq(Seq(E)), NEW s \in Seq(E) PROVE FlattenSeq(Append(ss, s)) = FlattenSeq(ss) \o s
  <2>1. Append(ss, s) \in Seq(Seq(E))
    BY AppendProperties
  <2>2. FlattenSeq(Append(ss, s)) = step[Run(step, <<>>, ss)][s]
    BY <1>4, <1>5, <2>1
  <2>3. FlattenSeq(ss) = Run(step, <<>>, ss) /\ Run(step, <<>>, ss) \in Seq(E)
    BY <1>4, <1>5
  <2> QED BY <1>1, <2>2, <2>3
<1> QED BY <1>2, <1>4, <1>5, <1>6

(* FlattenSeq of one sequence, and of two after one another. *)
LEMMA FlattenConcat ==
  ASSUME NEW E
  PROVE  /\ \A s \in Seq(E) : FlattenSeq(<<s>>) = s
         /\ \A a, b \in Seq(Seq(E)) : FlattenSeq(a \o b) = FlattenSeq(a) \o FlattenSeq(b)
<1>1. /\ FlattenSeq(<<>>) = <<>>
      /\ \A ss \in Seq(Seq(E)) : FlattenSeq(ss) \in Seq(E)
      /\ \A ss \in Seq(Seq(E)), s \in Seq(E) : FlattenSeq(Append(ss, s)) = FlattenSeq(ss) \o s
  BY FlattenSteps
<1>2. ASSUME NEW s \in Seq(E) PROVE FlattenSeq(<<s>>) = s
  <2>1. <<>> \in Seq(Seq(E)) /\ Append(<<>>, s) = <<s>>
    OBVIOUS
  <2>2. FlattenSeq(Append(<<>>, s)) = <<>> \o s
    BY <1>1, <2>1
  <2> QED BY <2>1, <2>2, ConcatEmptySeq
<1>3. ASSUME NEW a \in Seq(Seq(E))
      PROVE  \A b \in Seq(Seq(E)) : FlattenSeq(a \o b) = FlattenSeq(a) \o FlattenSeq(b)
  <2> DEFINE T == {b \in Seq(Seq(E)) : FlattenSeq(a \o b) = FlattenSeq(a) \o FlattenSeq(b)}
  <2>1. <<>> \in T
    <3>1. a \o <<>> = a /\ FlattenSeq(a) \o <<>> = FlattenSeq(a) /\ <<>> \in Seq(Seq(E))
      BY <1>1, ConcatEmptySeq, EmptySeq
    <3> QED BY <1>1, <3>1
  <2>2. ASSUME NEW b \in Seq(Seq(E)), b \in T, NEW s \in Seq(E) PROVE Append(b, s) \in T
    <3>1. Append(b, s) \in Seq(Seq(E)) /\ a \o b \in Seq(Seq(E))
      BY AppendProperties, ConcatProperties
    <3>6. a \o Append(b, s) = Append(a \o b, s)
      BY ConcatAppend
    <3>2. FlattenSeq(a \o Append(b, s)) = FlattenSeq(a \o b) \o s /\ FlattenSeq(Append(b, s)) = FlattenSeq(b) \o s
      BY <1>1, <3>1, <3>6
    <3>3. FlattenSeq(a \o b) = FlattenSeq(a) \o FlattenSeq(b)
      BY <2>2
    <3>4. FlattenSeq(a) \in Seq(E) /\ FlattenSeq(b) \in Seq(E)
      BY <1>1
    <3>5. (FlattenSeq(a) \o FlattenSeq(b)) \o s = FlattenSeq(a) \o (FlattenSeq(b) \o s)
      BY <3>4, ConcatAssociative
    <3> QED BY <3>1, <3>2, <3>3, <3>5
  <2>3. Seq(Seq(E)) \subseteq T
    <3> HIDE DEF T
    <3> QED BY <2>1, <2>2, SeqInduction
  <2> QED BY <2>3
<1> QED BY <1>2, <1>3

-----------------------------------------------------------------------------
(* Paragraphs. *)
Par == [id : Nat, level : Nat, size : Nat, copy : BOOLEAN]
Some == {t \in Seq(Par) : t # <<>>}

(* The characters of a text, one paragraph more at a time. *)
LEMMA SizeSteps ==
  /\ Size(<<>>) = 0
  /\ \A t \in Seq(Par) : Size(t) \in Nat
  /\ \A t \in Seq(Par), p \in Par :
       Size(Append(t, p)) = Size(t) + p.size
<1> DEFINE step == [x \in Nat |-> [p \in Par |-> x + p.size]]
<1>1. /\ IsFold(Nat, Par, step, 0)
      /\ \A x \in Nat, p \in Par : step[x][p] = x + p.size
  BY DEF Par, IsFold
<1> HIDE DEF step
<1>2. ASSUME NEW t \in Seq(Par) PROVE Size(t) = Run(step, 0, t)
  <2> DEFINE Q(h) == h = [s \in SUBSET DOMAIN t |->
                            IF s = {} THEN 0 ELSE h[s \ {Max(s)}] + t[Max(s)].size]
             c == CHOOSE h : Q(h)
  <2>1. Size(t) = c[DOMAIN t]
    BY DEF Size, FoldLeft, MapThenFoldSet
  <2>2. PICK N \in Nat : N = Len(t) /\ DOMAIN t = 1 .. N /\ t \in Long(N, Par)
    BY LenProperties DEF Long
  <2>3. \A n \in 1 .. N : t[n] \in Par
    BY <2>2 DEF Long
  <2>4. PICK g : Folds(g, Nat, step, 0, t, N)
    BY <1>1, <2>2, FoldExists
  <2>5. Q(g)
    <3>1. /\ g = [s \in SUBSET DOMAIN t |-> g[s]]
          /\ g[{}] = 0
          /\ \A s \in SUBSET DOMAIN t : s # {} => g[s] = step[g[s \ {Max(s)}]][t[Max(s)]]
      BY <2>2, <2>4 DEF Folds
    <3>2. \A s \in SUBSET DOMAIN t : s # {} => g[s \ {Max(s)}] \in Nat /\ t[Max(s)] \in Par
      BY <2>2, <2>3, <2>4, MaxOf DEF Folds
    <3>3. \A s \in SUBSET DOMAIN t :
            g[s] = IF s = {} THEN 0 ELSE g[s \ {Max(s)}] + t[Max(s)].size
      BY <1>1, <3>1, <3>2
    <3> QED BY <3>1, <3>3
  <2>6. Q(c)
    <3> HIDE DEF Q
    <3> QED BY <2>5
  <2> HIDE DEF c
  <2>7. Unfolds(c, Nat, step, 0, t, N)
    <3>1. \A s \in SUBSET (1 .. N) : c[s] = IF s = {} THEN 0 ELSE c[s \ {Max(s)}] + t[Max(s)].size
      BY <2>2, <2>6
    <3> HIDE DEF Q
    <3> QED BY <1>1, <2>3, <3>1 DEF Unfolds
  <2> HIDE DEF Q
  <2>8. c[1 .. N] = Run(step, 0, t)
    BY <1>1, <2>2, <2>7, FoldIsRun
  <2> QED BY <2>1, <2>2, <2>8
<1>3. <<>> \in Seq(Par) /\ \A t \in Seq(Par), p \in Par : Append(t, p) \in Seq(Par)
  BY AppendProperties, EmptySeq
<1>4. /\ Run(step, 0, <<>>) = 0
      /\ \A t \in Seq(Par) : Run(step, 0, t) \in Nat
      /\ \A t \in Seq(Par), p \in Par : Run(step, 0, Append(t, p)) = step[Run(step, 0, t)][p]
  BY <1>1, RunSteps
<1>5. ASSUME NEW t \in Seq(Par), NEW p \in Par
      PROVE  Size(Append(t, p)) = Size(t) + p.size
  <2>1. Size(t) = Run(step, 0, t) /\ Run(step, 0, t) \in Nat
    BY <1>2, <1>4
  <2>2. Size(Append(t, p)) = Run(step, 0, Append(t, p))
    BY <1>2, <1>3
  <2>3. Run(step, 0, Append(t, p)) = step[Size(t)][p]
    BY <1>4, <2>1
  <2>4. Size(t) \in Nat
    BY <2>1
  <2>5. step[Size(t)][p] = Size(t) + p.size
    BY <1>1, <2>4
  <2> QED BY <2>2, <2>3, <2>5
<1>6. Size(<<>>) = 0
  BY <1>2, <1>3, <1>4
<1> QED BY <1>2, <1>4, <1>5, <1>6

(* What remains of a paragraph in a text, one paragraph more at a time. *)
LEMMA RemainingSteps ==
  ASSUME NEW i
  PROVE  /\ Remaining(<<>>, i) = 0
         /\ \A t \in Seq(Par) : Remaining(t, i) \in Nat
         /\ \A t \in Seq(Par), p \in Par :
              Remaining(Append(t, p), i) = (IF p.copy \/ p.id # i THEN Remaining(t, i) ELSE Remaining(t, i) + p.size)
<1> DEFINE step == [x \in Nat |-> [p \in Par |-> (IF p.copy \/ p.id # i THEN x ELSE x + p.size)]]
<1>1. /\ IsFold(Nat, Par, step, 0)
      /\ \A x \in Nat, p \in Par : step[x][p] = (IF p.copy \/ p.id # i THEN x ELSE x + p.size)
  BY DEF Par, IsFold
<1> HIDE DEF step
<1>2. ASSUME NEW t \in Seq(Par) PROVE Remaining(t, i) = Run(step, 0, t)
  <2> DEFINE Q(h) == h = [s \in SUBSET DOMAIN t |->
                            IF s = {} THEN 0 ELSE (IF t[Max(s)].copy \/ t[Max(s)].id # i THEN h[s \ {Max(s)}] ELSE h[s \ {Max(s)}] + t[Max(s)].size)]
             c == CHOOSE h : Q(h)
  <2>1. Remaining(t, i) = c[DOMAIN t]
    BY DEF Remaining, FoldLeft, MapThenFoldSet
  <2>2. PICK N \in Nat : N = Len(t) /\ DOMAIN t = 1 .. N /\ t \in Long(N, Par)
    BY LenProperties DEF Long
  <2>3. \A n \in 1 .. N : t[n] \in Par
    BY <2>2 DEF Long
  <2>4. PICK g : Folds(g, Nat, step, 0, t, N)
    BY <1>1, <2>2, FoldExists
  <2>5. Q(g)
    <3>1. /\ g = [s \in SUBSET DOMAIN t |-> g[s]]
          /\ g[{}] = 0
          /\ \A s \in SUBSET DOMAIN t : s # {} => g[s] = step[g[s \ {Max(s)}]][t[Max(s)]]
      BY <2>2, <2>4 DEF Folds
    <3>2. \A s \in SUBSET DOMAIN t : s # {} => g[s \ {Max(s)}] \in Nat /\ t[Max(s)] \in Par
      BY <2>2, <2>3, <2>4, MaxOf DEF Folds
    <3>3. \A s \in SUBSET DOMAIN t :
            g[s] = IF s = {} THEN 0 ELSE (IF t[Max(s)].copy \/ t[Max(s)].id # i THEN g[s \ {Max(s)}] ELSE g[s \ {Max(s)}] + t[Max(s)].size)
      BY <1>1, <3>1, <3>2
    <3> QED BY <3>1, <3>3
  <2>6. Q(c)
    <3> HIDE DEF Q
    <3> QED BY <2>5
  <2> HIDE DEF c
  <2>7. Unfolds(c, Nat, step, 0, t, N)
    <3>1. \A s \in SUBSET (1 .. N) : c[s] = IF s = {} THEN 0 ELSE (IF t[Max(s)].copy \/ t[Max(s)].id # i THEN c[s \ {Max(s)}] ELSE c[s \ {Max(s)}] + t[Max(s)].size)
      BY <2>2, <2>6
    <3> HIDE DEF Q
    <3> QED BY <1>1, <2>3, <3>1 DEF Unfolds
  <2> HIDE DEF Q
  <2>8. c[1 .. N] = Run(step, 0, t)
    BY <1>1, <2>2, <2>7, FoldIsRun
  <2> QED BY <2>1, <2>2, <2>8
<1>3. <<>> \in Seq(Par) /\ \A t \in Seq(Par), p \in Par : Append(t, p) \in Seq(Par)
  BY AppendProperties, EmptySeq
<1>4. /\ Run(step, 0, <<>>) = 0
      /\ \A t \in Seq(Par) : Run(step, 0, t) \in Nat
      /\ \A t \in Seq(Par), p \in Par : Run(step, 0, Append(t, p)) = step[Run(step, 0, t)][p]
  BY <1>1, RunSteps
<1>5. ASSUME NEW t \in Seq(Par), NEW p \in Par
      PROVE  Remaining(Append(t, p), i) = (IF p.copy \/ p.id # i THEN Remaining(t, i) ELSE Remaining(t, i) + p.size)
  <2>1. Remaining(t, i) = Run(step, 0, t) /\ Run(step, 0, t) \in Nat
    BY <1>2, <1>4
  <2>2. Remaining(Append(t, p), i) = Run(step, 0, Append(t, p))
    BY <1>2, <1>3
  <2>3. Run(step, 0, Append(t, p)) = step[Remaining(t, i)][p]
    BY <1>4, <2>1
  <2>4. Remaining(t, i) \in Nat
    BY <2>1
  <2>5. step[Remaining(t, i)][p] = (IF p.copy \/ p.id # i THEN Remaining(t, i) ELSE Remaining(t, i) + p.size)
    BY <1>1, <2>4
  <2> QED BY <2>2, <2>3, <2>5
<1>6. Remaining(<<>>, i) = 0
  BY <1>2, <1>3, <1>4
<1> QED BY <1>2, <1>4, <1>5, <1>6

(* The blocks of a text, one paragraph more at a time. *)
LEMMA BlocksSteps ==
  ASSUME NEW level
  PROVE  /\ Blocks(<<>>, level) = <<>>
         /\ \A t \in Seq(Par) : Blocks(t, level) \in Seq(Some)
         /\ \A t \in Seq(Par), p \in Par :
              Blocks(Append(t, p), level) = (IF Blocks(t, level) = <<>> \/ p.level = level THEN Append(Blocks(t, level), <<p>>) ELSE Append(Front(Blocks(t, level)), Append(Last(Blocks(t, level)), p)))
<1> DEFINE step == [x \in Seq(Some) |-> [p \in Par |-> (IF x = <<>> \/ p.level = level THEN Append(x, <<p>>) ELSE Append(Front(x), Append(Last(x), p)))]]
<1>1. /\ IsFold(Seq(Some), Par, step, <<>>)
      /\ \A x \in Seq(Some), p \in Par : step[x][p] = (IF x = <<>> \/ p.level = level THEN Append(x, <<p>>) ELSE Append(Front(x), Append(Last(x), p)))
  <2>1. \A x \in Seq(Some), p \in Par :
          (IF x = <<>> \/ p.level = level THEN Append(x, <<p>>) ELSE Append(Front(x), Append(Last(x), p))) \in Seq(Some)
    <3>1. \A p \in Par : <<p>> \in Some
      BY Single DEF Some
    <3>2. \A t \in Some, p \in Par : Append(t, p) \in Some
      BY AppendProperties DEF Some
    <3>3. \A x \in Seq(Some), t \in Some : Append(x, t) \in Seq(Some)
      BY AppendProperties
    <3>4. \A x \in Seq(Some) : x # <<>> => Front(x) \in Seq(Some) /\ Last(x) \in Some
      BY FrontLast
    <3> QED BY <3>1, <3>2, <3>3, <3>4
  <2>2. <<>> \in Seq(Some)
    BY EmptySeq
  <2> QED BY <2>1, <2>2 DEF IsFold
<1> HIDE DEF step
<1>2. ASSUME NEW t \in Seq(Par) PROVE Blocks(t, level) = Run(step, <<>>, t)
  <2> DEFINE Q(h) == h = [s \in SUBSET DOMAIN t |->
                            IF s = {} THEN <<>> ELSE (IF h[s \ {Max(s)}] = <<>> \/ t[Max(s)].level = level THEN Append(h[s \ {Max(s)}], <<t[Max(s)]>>) ELSE Append(Front(h[s \ {Max(s)}]), Append(Last(h[s \ {Max(s)}]), t[Max(s)])))]
             c == CHOOSE h : Q(h)
  <2>1. Blocks(t, level) = c[DOMAIN t]
    BY DEF Blocks, FoldLeft, MapThenFoldSet
  <2>2. PICK N \in Nat : N = Len(t) /\ DOMAIN t = 1 .. N /\ t \in Long(N, Par)
    BY LenProperties DEF Long
  <2>3. \A n \in 1 .. N : t[n] \in Par
    BY <2>2 DEF Long
  <2>4. PICK g : Folds(g, Seq(Some), step, <<>>, t, N)
    BY <1>1, <2>2, FoldExists
  <2>5. Q(g)
    <3>1. /\ g = [s \in SUBSET DOMAIN t |-> g[s]]
          /\ g[{}] = <<>>
          /\ \A s \in SUBSET DOMAIN t : s # {} => g[s] = step[g[s \ {Max(s)}]][t[Max(s)]]
      BY <2>2, <2>4 DEF Folds
    <3>2. \A s \in SUBSET DOMAIN t : s # {} => g[s \ {Max(s)}] \in Seq(Some) /\ t[Max(s)] \in Par
      BY <2>2, <2>3, <2>4, MaxOf DEF Folds
    <3>3. \A s \in SUBSET DOMAIN t :
            g[s] = IF s = {} THEN <<>> ELSE (IF g[s \ {Max(s)}] = <<>> \/ t[Max(s)].level = level THEN Append(g[s \ {Max(s)}], <<t[Max(s)]>>) ELSE Append(Front(g[s \ {Max(s)}]), Append(Last(g[s \ {Max(s)}]), t[Max(s)])))
      BY <1>1, <3>1, <3>2
    <3> QED BY <3>1, <3>3
  <2>6. Q(c)
    <3> HIDE DEF Q
    <3> QED BY <2>5
  <2> HIDE DEF c
  <2>7. Unfolds(c, Seq(Some), step, <<>>, t, N)
    <3>1. \A s \in SUBSET (1 .. N) : c[s] = IF s = {} THEN <<>> ELSE (IF c[s \ {Max(s)}] = <<>> \/ t[Max(s)].level = level THEN Append(c[s \ {Max(s)}], <<t[Max(s)]>>) ELSE Append(Front(c[s \ {Max(s)}]), Append(Last(c[s \ {Max(s)}]), t[Max(s)])))
      BY <2>2, <2>6
    <3> HIDE DEF Q
    <3> QED BY <1>1, <2>3, <3>1 DEF Unfolds
  <2> HIDE DEF Q
  <2>8. c[1 .. N] = Run(step, <<>>, t)
    BY <1>1, <2>2, <2>7, FoldIsRun
  <2> QED BY <2>1, <2>2, <2>8
<1>3. <<>> \in Seq(Par) /\ \A t \in Seq(Par), p \in Par : Append(t, p) \in Seq(Par)
  BY AppendProperties, EmptySeq
<1>4. /\ Run(step, <<>>, <<>>) = <<>>
      /\ \A t \in Seq(Par) : Run(step, <<>>, t) \in Seq(Some)
      /\ \A t \in Seq(Par), p \in Par : Run(step, <<>>, Append(t, p)) = step[Run(step, <<>>, t)][p]
  BY <1>1, RunSteps
<1>5. ASSUME NEW t \in Seq(Par), NEW p \in Par
      PROVE  Blocks(Append(t, p), level) = (IF Blocks(t, level) = <<>> \/ p.level = level THEN Append(Blocks(t, level), <<p>>) ELSE Append(Front(Blocks(t, level)), Append(Last(Blocks(t, level)), p)))
  <2>1. Blocks(t, level) = Run(step, <<>>, t) /\ Run(step, <<>>, t) \in Seq(Some)
    BY <1>2, <1>4
  <2>2. Blocks(Append(t, p), level) = Run(step, <<>>, Append(t, p))
    BY <1>2, <1>3
  <2>3. Run(step, <<>>, Append(t, p)) = step[Blocks(t, level)][p]
    BY <1>4, <2>1
  <2>4. Blocks(t, level) \in Seq(Some)
    BY <2>1
  <2>5. step[Blocks(t, level)][p] = (IF Blocks(t, level) = <<>> \/ p.level = level THEN Append(Blocks(t, level), <<p>>) ELSE Append(Front(Blocks(t, level)), Append(Last(Blocks(t, level)), p)))
    BY <1>1, <2>4
  <2> QED BY <2>2, <2>3, <2>5
<1>6. Blocks(<<>>, level) = <<>>
  BY <1>2, <1>3, <1>4
<1> QED BY <1>2, <1>4, <1>5, <1>6

-----------------------------------------------------------------------------
(* The characters of two texts, and of one paragraph. *)
LEMMA SizeConcat ==
  /\ \A a, b \in Seq(Par) : Size(a \o b) = Size(a) + Size(b)
  /\ \A p \in Par : Size(<<p>>) = p.size
<1>1. ASSUME NEW a \in Seq(Par) PROVE \A b \in Seq(Par) : Size(a \o b) = Size(a) + Size(b)
  <2> DEFINE T == {b \in Seq(Par) : Size(a \o b) = Size(a) + Size(b)}
  <2>1. <<>> \in T
    <3>1. a \o <<>> = a /\ <<>> \in Seq(Par) /\ Size(a) \in Nat /\ Size(<<>>) = 0
      BY ConcatEmptySeq, EmptySeq, SizeSteps
    <3> QED BY <3>1
  <2>2. ASSUME NEW b \in Seq(Par), b \in T, NEW p \in Par PROVE Append(b, p) \in T
    <3>1. Append(b, p) \in Seq(Par) /\ a \o b \in Seq(Par)
      BY AppendProperties, ConcatProperties
    <3>2. a \o Append(b, p) = Append(a \o b, p)
      BY ConcatAppend
    <3>3. Size(a \o b) = Size(a) + Size(b)
      BY <2>2
    <3>4. /\ Size(Append(a \o b, p)) = Size(a \o b) + p.size
          /\ Size(Append(b, p)) = Size(b) + p.size
          /\ Size(a) \in Nat /\ Size(b) \in Nat
      BY <3>1, SizeSteps
    <3>5. p.size \in Nat
      BY DEF Par
    <3>6. Size(a \o Append(b, p)) = Size(a) + Size(Append(b, p))
      BY <3>2, <3>3, <3>4, <3>5
    <3> QED BY <3>1, <3>6
  <2>3. Seq(Par) \subseteq T
    <3> HIDE DEF T
    <3> QED BY <2>1, <2>2, SeqInduction
  <2> QED BY <2>3
<1>2. ASSUME NEW p \in Par PROVE Size(<<p>>) = p.size
  <2>1. Append(<<>>, p) = <<p>> /\ <<>> \in Seq(Par)
    BY Single, EmptySeq
  <2>2. Size(Append(<<>>, p)) = 0 + p.size
    BY <2>1, SizeSteps
  <2>3. p.size \in Nat
    BY DEF Par
  <2> QED BY <2>1, <2>2, <2>3
<1> QED BY <1>1, <1>2

(* What remains of a paragraph in two texts, and in one paragraph. *)
LEMMA RemainingConcat ==
  ASSUME NEW i
  PROVE  /\ \A a, b \in Seq(Par) : Remaining(a \o b, i) = Remaining(a, i) + Remaining(b, i)
         /\ \A p \in Par : Remaining(<<p>>, i) = IF p.copy \/ p.id # i THEN 0 ELSE p.size
<1>0. /\ Remaining(<<>>, i) = 0
      /\ \A t \in Seq(Par) : Remaining(t, i) \in Nat
      /\ \A t \in Seq(Par), p \in Par :
           Remaining(Append(t, p), i) = IF p.copy \/ p.id # i THEN Remaining(t, i) ELSE Remaining(t, i) + p.size
  BY RemainingSteps
<1>1. ASSUME NEW a \in Seq(Par)
      PROVE  \A b \in Seq(Par) : Remaining(a \o b, i) = Remaining(a, i) + Remaining(b, i)
  <2> DEFINE T == {b \in Seq(Par) : Remaining(a \o b, i) = Remaining(a, i) + Remaining(b, i)}
  <2>1. <<>> \in T
    <3>1. a \o <<>> = a /\ <<>> \in Seq(Par) /\ Remaining(a, i) \in Nat
      BY <1>0, ConcatEmptySeq, EmptySeq
    <3> QED BY <1>0, <3>1
  <2>2. ASSUME NEW b \in Seq(Par), b \in T, NEW p \in Par PROVE Append(b, p) \in T
    <3>1. Append(b, p) \in Seq(Par) /\ a \o b \in Seq(Par)
      BY AppendProperties, ConcatProperties
    <3>2. a \o Append(b, p) = Append(a \o b, p)
      BY ConcatAppend
    <3>3. Remaining(a \o b, i) = Remaining(a, i) + Remaining(b, i)
      BY <2>2
    <3>4. Remaining(a, i) \in Nat /\ Remaining(b, i) \in Nat /\ p.size \in Nat
      BY <1>0 DEF Par
    <3>5. Remaining(a \o Append(b, p), i) = Remaining(a, i) + Remaining(Append(b, p), i)
      <4>1. CASE p.copy \/ p.id # i
        <5>1. Remaining(Append(a \o b, p), i) = Remaining(a \o b, i) /\ Remaining(Append(b, p), i) = Remaining(b, i)
          BY <1>0, <3>1, <4>1
        <5> QED BY <3>2, <3>3, <5>1
      <4>2. CASE ~ (p.copy \/ p.id # i)
        <5>1. /\ Remaining(Append(a \o b, p), i) = Remaining(a \o b, i) + p.size
              /\ Remaining(Append(b, p), i) = Remaining(b, i) + p.size
          BY <1>0, <3>1, <4>2
        <5> QED BY <3>2, <3>3, <3>4, <5>1
      <4> QED BY <4>1, <4>2
    <3> QED BY <3>1, <3>5
  <2>3. Seq(Par) \subseteq T
    <3> HIDE DEF T
    <3> QED BY <2>1, <2>2, SeqInduction
  <2> QED BY <2>3
<1>2. ASSUME NEW p \in Par PROVE Remaining(<<p>>, i) = IF p.copy \/ p.id # i THEN 0 ELSE p.size
  <2>1. Append(<<>>, p) = <<p>> /\ <<>> \in Seq(Par)
    BY Single, EmptySeq
  <2>2. Remaining(Append(<<>>, p), i) = IF p.copy \/ p.id # i THEN 0 ELSE 0 + p.size
    BY <1>0, <2>1
  <2>3. p.size \in Nat
    BY DEF Par
  <2> QED BY <2>1, <2>2, <2>3
<1> QED BY <1>1, <1>2

-----------------------------------------------------------------------------
(* The numbers of the paragraphs of a text. *)
Ids(body) == {body[n].id : n \in {m \in DOMAIN body : ~ body[m].copy}}

(* The numbers of two texts, and when they are in order. *)
LEMMA IdsConcat ==
  ASSUME NEW a \in Seq(Par), NEW b \in Seq(Par)
  PROVE  /\ Ids(a \o b) = Ids(a) \cup Ids(b)
         /\ InOrder(a \o b) <=> /\ InOrder(a) /\ InOrder(b)
                                /\ \A x \in Ids(a), y \in Ids(b) : x <= y
<1> DEFINE ab == a \o b
<1>1. PICK M \in Nat, N \in Nat :
        /\ M = Len(a) /\ N = Len(b) /\ DOMAIN a = 1 .. M /\ DOMAIN b = 1 .. N
        /\ DOMAIN ab = 1 .. (M + N)
        /\ \A i \in 1 .. (M + N) : ab[i] = IF i <= M THEN a[i] ELSE b[i - M]
  BY ConcatProperties, LenProperties
<1>2. /\ \A i \in 1 .. M : i \in 1 .. (M + N) /\ ab[i] = a[i]
      /\ \A i \in 1 .. N : i + M \in 1 .. (M + N) /\ ab[i + M] = b[i]
      /\ \A i \in 1 .. (M + N) : i \in 1 .. M \/ (i - M \in 1 .. N /\ (i - M) + M = i)
  <2>1. \A i \in 1 .. M : i \in 1 .. (M + N) /\ ab[i] = a[i]
    BY <1>1
  <2>2. ASSUME NEW i \in 1 .. N PROVE i + M \in 1 .. (M + N) /\ ab[i + M] = b[i]
    <3>1. i + M \in 1 .. (M + N) /\ ~ (i + M <= M) /\ (i + M) - M = i
      OBVIOUS
    <3> HIDE DEF ab
    <3> QED BY <1>1, <3>1
  <2>3. \A i \in 1 .. (M + N) : i \in 1 .. M \/ (i - M \in 1 .. N /\ (i - M) + M = i)
    OBVIOUS
  <2> QED BY <2>1, <2>2, <2>3
<1> HIDE DEF ab
<1>3. Ids(ab) = Ids(a) \cup Ids(b)
  <2>1. Ids(ab) \subseteq Ids(a) \cup Ids(b)
    <3> SUFFICES ASSUME NEW n \in 1 .. (M + N), ~ ab[n].copy PROVE ab[n].id \in Ids(a) \cup Ids(b)
      BY <1>1 DEF Ids
    <3>1. CASE n \in 1 .. M
      BY <1>1, <1>2, <3>1 DEF Ids
    <3>2. CASE n - M \in 1 .. N /\ (n - M) + M = n
      <4>1. ab[n] = b[n - M]
        BY <1>2, <3>2
      <4> QED BY <1>1, <3>2, <4>1 DEF Ids
    <3> QED BY <1>2, <3>1, <3>2
  <2>2. Ids(a) \subseteq Ids(ab)
    BY <1>1, <1>2 DEF Ids
  <2>3. Ids(b) \subseteq Ids(ab)
    BY <1>1, <1>2 DEF Ids
  <2> QED BY <2>1, <2>2, <2>3
<1>4. ASSUME InOrder(ab) PROVE InOrder(a) /\ InOrder(b) /\ \A x \in Ids(a), y \in Ids(b) : x <= y
  <2>1. \A m, n \in 1 .. (M + N) : m < n /\ ~ ab[m].copy /\ ~ ab[n].copy => ab[m].id <= ab[n].id
    BY <1>1, <1>4 DEF InOrder
  <2>2. InOrder(a)
    <3> SUFFICES ASSUME NEW m \in 1 .. M, NEW n \in 1 .. M, m < n, ~ a[m].copy, ~ a[n].copy
                 PROVE  a[m].id <= a[n].id
      BY <1>1 DEF InOrder
    <3> QED BY <1>2, <2>1
  <2>3. InOrder(b)
    <3> SUFFICES ASSUME NEW m \in 1 .. N, NEW n \in 1 .. N, m < n, ~ b[m].copy, ~ b[n].copy
                 PROVE  b[m].id <= b[n].id
      BY <1>1 DEF InOrder
    <3>1. m + M < n + M
      OBVIOUS
    <3> QED BY <1>2, <2>1, <3>1
  <2>4. ASSUME NEW m \in 1 .. M, NEW n \in 1 .. N, ~ a[m].copy, ~ b[n].copy PROVE a[m].id <= b[n].id
    <3>1. m < n + M
      OBVIOUS
    <3> QED BY <1>2, <2>1, <2>4, <3>1
  <2> QED BY <1>1, <2>2, <2>3, <2>4 DEF Ids
<1>5. ASSUME InOrder(a), InOrder(b), \A x \in Ids(a), y \in Ids(b) : x <= y PROVE InOrder(ab)
  <2> SUFFICES ASSUME NEW m \in 1 .. (M + N), NEW n \in 1 .. (M + N), m < n, ~ ab[m].copy, ~ ab[n].copy
               PROVE  ab[m].id <= ab[n].id
    BY <1>1 DEF InOrder
  <2>1. CASE n \in 1 .. M
    <3>1. m \in 1 .. M
      BY <2>1
    <3> QED BY <1>1, <1>2, <1>5, <2>1, <3>1 DEF InOrder
  <2>2. CASE m \in 1 .. M /\ n \notin 1 .. M
    <3>1. n - M \in 1 .. N /\ (n - M) + M = n
      BY <1>2, <2>2
    <3>2. ab[m] = a[m] /\ ab[n] = b[n - M]
      BY <1>2, <2>2, <3>1
    <3>3. a[m].id \in Ids(a) /\ b[n - M].id \in Ids(b)
      BY <1>1, <2>2, <3>1, <3>2 DEF Ids
    <3> QED BY <1>5, <3>2, <3>3
  <2>3. CASE m \notin 1 .. M
    <3>1. n \notin 1 .. M
      BY <2>3
    <3>2. m - M \in 1 .. N /\ (m - M) + M = m /\ n - M \in 1 .. N /\ (n - M) + M = n
      BY <1>2, <2>3, <3>1
    <3>3. ab[m] = b[m - M] /\ ab[n] = b[n - M] /\ m - M < n - M
      BY <1>2, <3>2
    <3>4. \A i, j \in 1 .. N : i < j /\ ~ b[i].copy /\ ~ b[j].copy => b[i].id <= b[j].id
      BY <1>1, <1>5 DEF InOrder
    <3> QED BY <3>2, <3>3, <3>4
  <2> QED BY <2>1, <2>2, <2>3
<1> QED BY <1>3, <1>4, <1>5 DEF ab

(* A text of one paragraph. *)
LEMMA IdsSingle ==
  /\ Ids(<<>>) = {} /\ InOrder(<<>>)
  /\ \A p \in Par : Ids(<<p>>) = (IF p.copy THEN {} ELSE {p.id}) /\ InOrder(<<p>>)
<1>1. Ids(<<>>) = {} /\ InOrder(<<>>)
  BY DEF Ids, InOrder
<1>2. ASSUME NEW p \in Par PROVE Ids(<<p>>) = (IF p.copy THEN {} ELSE {p.id}) /\ InOrder(<<p>>)
  <2>1. DOMAIN <<p>> = {1} /\ <<p>>[1] = p
    OBVIOUS
  <2> QED BY <2>1 DEF Ids, InOrder
<1> QED BY <1>1, <1>2

-----------------------------------------------------------------------------
(* One text has every paragraph of another as often and in order, if that has. *)
Rearranges(out, in) ==
  /\ \A i \in Nat : Remaining(out, i) = Remaining(in, i)
  /\ Ids(out) \subseteq Ids(in)
  /\ InOrder(in) => InOrder(out)

(* It is reflexive and transitive. *)
LEMMA RearrangesPreorder ==
  /\ \A a : Rearranges(a, a)
  /\ \A a, b, c : Rearranges(a, b) /\ Rearranges(b, c) => Rearranges(a, c)
BY DEF Rearranges

(* It holds of two texts if it holds of their parts. *)
LEMMA RearrangesConcat ==
  ASSUME NEW a \in Seq(Par), NEW b \in Seq(Par), NEW c \in Seq(Par), NEW d \in Seq(Par),
         Rearranges(a, c), Rearranges(b, d)
  PROVE  Rearranges(a \o b, c \o d)
<1>1. ASSUME NEW i \in Nat PROVE Remaining(a \o b, i) = Remaining(c \o d, i)
  <2>1. Remaining(a \o b, i) = Remaining(a, i) + Remaining(b, i)
    BY RemainingConcat
  <2>2. Remaining(c \o d, i) = Remaining(c, i) + Remaining(d, i)
    BY RemainingConcat
  <2> QED BY <2>1, <2>2 DEF Rearranges
<1>2. Ids(a) \subseteq Ids(c) /\ Ids(b) \subseteq Ids(d)
  BY DEF Rearranges
<1>3. Ids(a \o b) = Ids(a) \cup Ids(b) /\ Ids(c \o d) = Ids(c) \cup Ids(d)
  BY IdsConcat
<1>4. ASSUME InOrder(c \o d) PROVE InOrder(a \o b)
  <2>1. InOrder(c) /\ InOrder(d) /\ \A x \in Ids(c), y \in Ids(d) : x <= y
    BY <1>4, IdsConcat
  <2>2. InOrder(a) /\ InOrder(b) /\ \A x \in Ids(a), y \in Ids(b) : x <= y
    BY <1>2, <2>1 DEF Rearranges
  <2> QED BY <2>2, IdsConcat
<1> QED BY <1>1, <1>2, <1>3, <1>4 DEF Rearranges

(* Nothing but copies in front of a text changes nothing. *)
LEMMA RearrangesNothing ==
  ASSUME NEW a \in Seq(Par), NEW c \in Seq(Par),
         \A i \in Nat : Remaining(c, i) = 0, Ids(c) = {}, InOrder(c)
  PROVE  Rearranges(c \o a, a)
<1>1. ASSUME NEW i \in Nat PROVE Remaining(c \o a, i) = Remaining(a, i)
  <2>1. Remaining(c \o a, i) = Remaining(c, i) + Remaining(a, i)
    BY RemainingConcat
  <2>2. Remaining(a, i) \in Nat
    BY RemainingSteps
  <2> QED BY <2>1, <2>2
<1>2. /\ Ids(c \o a) = Ids(c) \cup Ids(a)
      /\ InOrder(c \o a) <=> /\ InOrder(c) /\ InOrder(a)
                             /\ \A x \in Ids(c), y \in Ids(a) : x <= y
  BY IdsConcat
<1> QED BY <1>1, <1>2 DEF Rearranges

(* A copy of a heading in front of a text changes nothing. *)
LEMMA RearrangesCopy ==
  ASSUME NEW a \in Seq(Par), NEW p \in Par, p.copy
  PROVE  Rearranges(<<p>> \o a, a)
<1>1. <<p>> \in Seq(Par)
  BY Single
<1>2. \A i \in Nat : Remaining(<<p>>, i) = 0
  BY RemainingConcat
<1>3. Ids(<<p>>) = {} /\ InOrder(<<p>>)
  BY IdsSingle
<1> DEFINE c == <<p>>
<1>4. c \in Seq(Par) /\ (\A i \in Nat : Remaining(c, i) = 0) /\ Ids(c) = {} /\ InOrder(c)
  BY <1>1, <1>2, <1>3
<1> HIDE DEF c
<1>5. Rearranges(c \o a, a)
  BY <1>4, RearrangesNothing
<1> QED BY <1>5 DEF c

-----------------------------------------------------------------------------
(* Division of numbers. *)
LEMMA Division ==
  ASSUME NEW s \in Nat, NEW w \in Nat, w # 0
  PROVE /\ s \div w \in Nat /\ s % w \in Nat
        /\ w * (s \div w) <= s /\ s < w * (s \div w) + w
        /\ s % w = s - w * (s \div w)
        /\ s % w < w
<1>1. s \div w \in Nat
  OBVIOUS
<1>2. w * (s \div w) <= s /\ s < w * (s \div w) + w
  OBVIOUS
<1>3. s % w = s - w * (s \div w)
  OBVIOUS
<1>4. s % w \in Nat /\ s % w < w
  OBVIOUS
<1> QED BY <1>1, <1>2, <1>3, <1>4

(* The quotient is the only number that fits. *)
LEMMA Quotient ==
  ASSUME NEW s \in Nat, NEW w \in Nat, NEW q \in Nat, w * q <= s, s < w * q + w
  PROVE  s \div w = q
OBVIOUS

(* Multiplication is monotone. *)
LEMMA Monotone ==
  ASSUME NEW a \in Nat, NEW b \in Nat, NEW w \in Nat, a <= b
  PROVE  w * a <= w * b
OBVIOUS

(* m pieces of w characters, of which only the last may be shorter, are s
   characters. *)
Pieces(s, w, m) ==
  /\ m \in Nat /\ m # 0
  /\ \A n \in 1 .. m : n # m => n * w <= s
  /\ (IF m * w <= s THEN w ELSE s % w) + (m - 1) * w = s
  /\ (IF m * w <= s THEN w ELSE s % w) <= w

(* The number of pieces of a paragraph is s over w, rounded up. *)
LEMMA PieceCount ==
  ASSUME NEW s \in Nat, NEW w \in Nat, w # 0, w < s, NEW m, m = (s + w - 1) \div w
  PROVE  Pieces(s, w, m)
<1> USE DEF Pieces
<1>1. s + w - 1 \in Nat
  OBVIOUS
<1>2. m \in Nat /\ w * m <= s + w - 1 /\ s + w - 1 < w * m + w
  BY <1>1, Division
<1>3. m # 0
  BY <1>2
<1>4. m - 1 \in Nat /\ w * (m - 1) = w * m - w /\ m * w = w * m /\ (m - 1) * w = w * (m - 1)
  BY <1>2, <1>3
<1>5. \A n \in 1 .. m : n # m => n * w <= s
  <2> SUFFICES ASSUME NEW n \in 1 .. m, n # m PROVE n * w <= s
    OBVIOUS
  <2>1. n \in Nat /\ n <= m - 1 /\ n * w = w * n
    BY <1>2
  <2>2. w * n <= w * (m - 1)
    BY <1>4, <2>1, Monotone
  <2>3. w * (m - 1) <= s - 1
    BY <1>2, <1>4
  <2> QED BY <2>1, <2>2, <2>3, <1>4
<1>6. CASE m * w <= s
  <2>1. w * m = s
    BY <1>2, <1>4, <1>6
  <2> QED BY <1>2, <1>3, <1>4, <1>5, <1>6, <2>1
<1>7. CASE ~ (m * w <= s)
  <2>1. w * (m - 1) <= s /\ s < w * (m - 1) + w
    BY <1>2, <1>4, <1>7
  <2>2. s \div w = m - 1
    BY <1>4, <2>1, Quotient
  <2>3. s % w = s - w * (m - 1) /\ s % w < w /\ s % w \in Nat
    BY <2>2, Division
  <2> QED BY <1>2, <1>3, <1>4, <1>5, <1>7, <2>3
<1> QED BY <1>6, <1>7
-----------------------------------------------------------------------------
(* A function on the first N numbers is a sequence. *)
LEMMA FunctionSeq ==
  ASSUME NEW S, NEW N \in Nat, NEW f \in [1 .. N -> S]
  PROVE  f \in Seq(S) /\ Len(f) = N /\ DOMAIN f = 1 .. N
<1>1. f \in Seq(S)
  BY SeqDef
<1>2. DOMAIN f = 1 .. N /\ Len(f) \in Nat /\ DOMAIN f = 1 .. Len(f)
  BY <1>1, LenProperties
<1>3. Len(f) = N
  <2>1. ASSUME NEW a \in Nat, NEW b \in Nat, 1 .. a = 1 .. b PROVE a <= b
    <3>1. CASE a = 0
      BY <3>1
    <3>2. CASE a # 0
      <4>1. a \in 1 .. a
        BY <3>2
      <4> QED BY <2>1, <4>1
    <3> QED BY <3>1, <3>2
  <2>2. Len(f) <= N /\ N <= Len(f)
    BY <1>2, <2>1
  <2> QED BY <1>2, <2>2
<1> QED BY <1>1, <1>2, <1>3

(* Texts may be put together in any order. *)
LEMMA TextsAssociative == \A a, b, c \in Seq(Par) : (a \o b) \o c = a \o (b \o c)
BY ConcatAssociative

(* Sections put together. *)
LEMMA FlattenTexts ==
  /\ \A t \in Seq(Par) : FlattenSeq(<<t>>) = t
  /\ \A a, b \in Seq(Seq(Par)) : FlattenSeq(a \o b) = FlattenSeq(a) \o FlattenSeq(b)
  /\ \A ss \in Seq(Seq(Par)) : FlattenSeq(ss) \in Seq(Par)
BY FlattenConcat, FlattenSteps

(* Sections that rearrange others, the first of them with h before it. *)
LEMMA FlattenFirst ==
  ASSUME NEW out \in Seq(Seq(Par)), NEW in \in Seq(Seq(Par)), NEW h \in Seq(Par),
         Len(out) = Len(in), Len(in) # 0,
         Rearranges(out[1], h \o in[1]), \A n \in 2 .. Len(in) : Rearranges(out[n], in[n])
  PROVE  Rearranges(FlattenSeq(out), h \o FlattenSeq(in))
<1>1. PICK N \in Nat : N = Len(in) /\ N = Len(out) /\ N # 0
  BY LenProperties
<1> DEFINE O(n) == SubSeq(out, 1, n)
           I(n) == SubSeq(in, 1, n)
<1>2. /\ O(0) = <<>> /\ O(N) = out /\ I(0) = <<>> /\ I(N) = in
      /\ \A n \in 0 .. N : O(n) \in Seq(Seq(Par)) /\ I(n) \in Seq(Seq(Par))
      /\ \A n \in 1 .. N : O(n) = Append(O(n - 1), out[n]) /\ I(n) = Append(I(n - 1), in[n])
  <2>1. /\ O(0) = <<>> /\ O(N) = out /\ \A n \in 0 .. N : O(n) \in Seq(Seq(Par))
        /\ \A n \in 1 .. N : O(n) = Append(O(n - 1), out[n])
    <3>1. /\ SubSeq(out, 1, 0) = <<>> /\ SubSeq(out, 1, Len(out)) = out
          /\ \A n \in 0 .. Len(out) : SubSeq(out, 1, n) \in Seq(Seq(Par))
          /\ \A n \in 1 .. Len(out) : SubSeq(out, 1, n) = Append(SubSeq(out, 1, n - 1), out[n])
      BY PrefixLaws
    <3> QED BY <1>1, <3>1
  <2>2. /\ I(0) = <<>> /\ I(N) = in /\ \A n \in 0 .. N : I(n) \in Seq(Seq(Par))
        /\ \A n \in 1 .. N : I(n) = Append(I(n - 1), in[n])
    <3>1. /\ SubSeq(in, 1, 0) = <<>> /\ SubSeq(in, 1, Len(in)) = in
          /\ \A n \in 0 .. Len(in) : SubSeq(in, 1, n) \in Seq(Seq(Par))
          /\ \A n \in 1 .. Len(in) : SubSeq(in, 1, n) = Append(SubSeq(in, 1, n - 1), in[n])
      BY PrefixLaws
    <3> QED BY <1>1, <3>1
  <2> HIDE DEF O, I
  <2> QED BY <2>1, <2>2
<1>3. \A n \in 1 .. N : out[n] \in Seq(Par) /\ in[n] \in Seq(Par)
  BY <1>1, ElementOfSeq
<1> HIDE DEF O, I
<1>4. \A n \in 0 .. N : FlattenSeq(O(n)) \in Seq(Par) /\ FlattenSeq(I(n)) \in Seq(Par)
  BY <1>2, FlattenSteps
<1>5. ASSUME NEW n \in 1 .. N
      PROVE  FlattenSeq(O(n)) = FlattenSeq(O(n - 1)) \o out[n] /\ FlattenSeq(I(n)) = FlattenSeq(I(n - 1)) \o in[n]
  <2>1. n - 1 \in 0 .. N
    OBVIOUS
  <2>2. O(n - 1) \in Seq(Seq(Par)) /\ I(n - 1) \in Seq(Seq(Par))
    BY <1>2, <2>1
  <2>3. O(n) = Append(O(n - 1), out[n]) /\ I(n) = Append(I(n - 1), in[n])
    BY <1>2
  <2> QED BY <1>3, <2>2, <2>3, FlattenSteps
<1> DEFINE T == {n \in 0 .. N : n # 0 => Rearranges(FlattenSeq(O(n)), h \o FlattenSeq(I(n)))}
<1>6. 0 \in T
  OBVIOUS
<1>7. ASSUME NEW n \in 1 .. N, n - 1 \in T PROVE n \in T
  <2>1. n - 1 \in 0 .. N /\ n \in 0 .. N
    OBVIOUS
  <2>2. CASE n = 1
    <3>1. FlattenSeq(O(n)) = <<>> \o out[n] /\ FlattenSeq(I(n)) = <<>> \o in[n]
      <4>1. FlattenSeq(O(n - 1)) = <<>> /\ FlattenSeq(I(n - 1)) = <<>>
        BY <1>2, <2>2, FlattenSteps
      <4> QED BY <1>5, <4>1
    <3>2. FlattenSeq(O(n)) = out[n] /\ FlattenSeq(I(n)) = in[n]
      BY <1>3, <3>1, ConcatEmptySeq
    <3>3. Rearranges(FlattenSeq(O(n)), h \o FlattenSeq(I(n)))
      BY <2>2, <3>2
    <3> QED BY <2>1, <3>3
  <2>3. CASE n # 1
    <3>1. Rearranges(FlattenSeq(O(n - 1)), h \o FlattenSeq(I(n - 1)))
      BY <1>7, <2>3
    <3>2. Rearranges(out[n], in[n])
      BY <1>1, <2>3
    <3>3. FlattenSeq(O(n - 1)) \in Seq(Par) /\ FlattenSeq(I(n - 1)) \in Seq(Par) /\ h \o FlattenSeq(I(n - 1)) \in Seq(Par)
      BY <1>4, <2>1, ConcatProperties
    <3>4. Rearranges(FlattenSeq(O(n - 1)) \o out[n], (h \o FlattenSeq(I(n - 1))) \o in[n])
      BY <1>3, <3>1, <3>2, <3>3, RearrangesConcat
    <3>5. (h \o FlattenSeq(I(n - 1))) \o in[n] = h \o (FlattenSeq(I(n - 1)) \o in[n])
      <4>1. \A a, b, c \in Seq(Par) : (a \o b) \o c = a \o (b \o c)
        BY TextsAssociative
      <4> DEFINE x == FlattenSeq(I(n - 1))
                 y == in[n]
      <4>2. h \in Seq(Par) /\ x \in Seq(Par) /\ y \in Seq(Par)
        BY <1>3, <3>3
      <4> HIDE DEF x, y
      <4>3. (h \o x) \o y = h \o (x \o y)
        BY <4>1, <4>2
      <4> QED BY <4>3 DEF x, y
    <3>6. Rearranges(FlattenSeq(O(n)), h \o FlattenSeq(I(n)))
      BY <1>5, <3>4, <3>5
    <3> QED BY <2>1, <3>6
  <2> QED BY <2>2, <2>3
<1>8. 0 .. N \subseteq T
  <2> HIDE DEF T
  <2> QED BY <1>6, <1>7, InductionTo
<1>9. Rearranges(FlattenSeq(O(N)), h \o FlattenSeq(I(N)))
  <2>1. N \in T
    <3> HIDE DEF T
    <3> QED BY <1>8
  <2> QED BY <1>1, <2>1
<1> QED BY <1>2, <1>9

(* Sections that rearrange others. *)
LEMMA FlattenEach ==
  ASSUME NEW out \in Seq(Seq(Par)), NEW in \in Seq(Seq(Par)), Len(out) = Len(in),
         \A n \in 1 .. Len(in) : Rearranges(out[n], in[n])
  PROVE  Rearranges(FlattenSeq(out), FlattenSeq(in))
<1>1. CASE in = <<>>
  <2>1. out = <<>>
    BY <1>1, EmptySeq
  <2> QED BY <1>1, <2>1, RearrangesPreorder
<1>2. CASE in # <<>>
  <2>1. PICK N \in Nat : N = Len(in) /\ N # 0
    BY <1>2, EmptySeq
  <2> DEFINE h == <<>>
  <2>2. h \in Seq(Par) /\ \A t \in Seq(Par) : h \o t = t
    BY EmptySeq, ConcatEmptySeq
  <2> HIDE DEF h
  <2>3. 1 \in 1 .. Len(in) /\ \A n \in 2 .. Len(in) : n \in 1 .. Len(in)
    BY <2>1
  <2>4. in[1] \in Seq(Par) /\ FlattenSeq(in) \in Seq(Par)
    BY <2>3, ElementOfSeq, FlattenSteps
  <2>5. Rearranges(out[1], h \o in[1])
    BY <2>2, <2>3, <2>4
  <2>6. Rearranges(FlattenSeq(out), h \o FlattenSeq(in))
    BY <2>1, <2>2, <2>3, <2>5, FlattenFirst
  <2> QED BY <2>2, <2>4, <2>6
<1> QED BY <1>1, <1>2

(* Sections of which each is split into sections that rearrange it. *)
LEMMA FlattenNested ==
  ASSUME NEW split \in Seq(Seq(Seq(Par))), NEW in \in Seq(Seq(Par)), Len(split) = Len(in),
         \A n \in 1 .. Len(in) : Rearranges(FlattenSeq(split[n]), in[n])
  PROVE  Rearranges(FlattenSeq(FlattenSeq(split)), FlattenSeq(in))
<1>1. PICK N \in Nat : N = Len(in) /\ N = Len(split)
  BY LenProperties
<1> DEFINE O(n) == SubSeq(split, 1, n)
           I(n) == SubSeq(in, 1, n)
<1>2. /\ O(0) = <<>> /\ O(N) = split /\ I(0) = <<>> /\ I(N) = in
      /\ \A n \in 0 .. N : O(n) \in Seq(Seq(Seq(Par))) /\ I(n) \in Seq(Seq(Par))
      /\ \A n \in 1 .. N : O(n) = Append(O(n - 1), split[n]) /\ I(n) = Append(I(n - 1), in[n])
  <2>1. /\ O(0) = <<>> /\ O(N) = split /\ \A n \in 0 .. N : O(n) \in Seq(Seq(Seq(Par)))
        /\ \A n \in 1 .. N : O(n) = Append(O(n - 1), split[n])
    <3>1. /\ SubSeq(split, 1, 0) = <<>> /\ SubSeq(split, 1, Len(split)) = split
          /\ \A n \in 0 .. Len(split) : SubSeq(split, 1, n) \in Seq(Seq(Seq(Par)))
          /\ \A n \in 1 .. Len(split) : SubSeq(split, 1, n) = Append(SubSeq(split, 1, n - 1), split[n])
      BY PrefixLaws
    <3> QED BY <1>1, <3>1
  <2>2. /\ I(0) = <<>> /\ I(N) = in /\ \A n \in 0 .. N : I(n) \in Seq(Seq(Par))
        /\ \A n \in 1 .. N : I(n) = Append(I(n - 1), in[n])
    <3>1. /\ SubSeq(in, 1, 0) = <<>> /\ SubSeq(in, 1, Len(in)) = in
          /\ \A n \in 0 .. Len(in) : SubSeq(in, 1, n) \in Seq(Seq(Par))
          /\ \A n \in 1 .. Len(in) : SubSeq(in, 1, n) = Append(SubSeq(in, 1, n - 1), in[n])
      BY PrefixLaws
    <3> QED BY <1>1, <3>1
  <2> HIDE DEF O, I
  <2> QED BY <2>1, <2>2
<1>3. \A n \in 1 .. N : split[n] \in Seq(Seq(Par)) /\ in[n] \in Seq(Par)
  BY <1>1, ElementOfSeq
<1> HIDE DEF O, I
<1>4. \A n \in 0 .. N : FlattenSeq(O(n)) \in Seq(Seq(Par)) /\ FlattenSeq(I(n)) \in Seq(Par)
  BY <1>2, FlattenSteps
<1>5. ASSUME NEW n \in 1 .. N
      PROVE  FlattenSeq(O(n)) = FlattenSeq(O(n - 1)) \o split[n] /\ FlattenSeq(I(n)) = FlattenSeq(I(n - 1)) \o in[n]
  <2>1. n - 1 \in 0 .. N
    OBVIOUS
  <2>2. O(n - 1) \in Seq(Seq(Seq(Par))) /\ I(n - 1) \in Seq(Seq(Par))
    BY <1>2, <2>1
  <2>3. O(n) = Append(O(n - 1), split[n]) /\ I(n) = Append(I(n - 1), in[n])
    BY <1>2
  <2> QED BY <1>3, <2>2, <2>3, FlattenSteps
<1> DEFINE T == {n \in 0 .. N : Rearranges(FlattenSeq(FlattenSeq(O(n))), FlattenSeq(I(n)))}
<1>6. 0 \in T
  <2>1. FlattenSeq(FlattenSeq(O(0))) = FlattenSeq(I(0))
    BY <1>2, FlattenSteps
  <2> QED BY <2>1, RearrangesPreorder
<1>7. ASSUME NEW n \in 1 .. N, n - 1 \in T PROVE n \in T
  <2>1. n - 1 \in 0 .. N /\ n \in 0 .. N
    OBVIOUS
  <2>2. Rearranges(FlattenSeq(FlattenSeq(O(n - 1))), FlattenSeq(I(n - 1)))
    BY <1>7
  <2>3. Rearranges(FlattenSeq(split[n]), in[n])
    BY <1>1
  <2>4. FlattenSeq(O(n - 1)) \in Seq(Seq(Par)) /\ FlattenSeq(I(n - 1)) \in Seq(Par)
    BY <1>4, <2>1
  <2>5. FlattenSeq(FlattenSeq(O(n))) = FlattenSeq(FlattenSeq(O(n - 1))) \o FlattenSeq(split[n])
    <3>1. PICK a \in Seq(Seq(Par)), b \in Seq(Seq(Par)) : a = FlattenSeq(O(n - 1)) /\ b = split[n]
      BY <1>3, <2>4
    <3>2. FlattenSeq(a \o b) = FlattenSeq(a) \o FlattenSeq(b)
      BY FlattenTexts
    <3> QED BY <1>5, <3>1, <3>2
  <2>6. FlattenSeq(FlattenSeq(O(n - 1))) \in Seq(Par) /\ FlattenSeq(split[n]) \in Seq(Par)
    BY <1>3, <2>4, FlattenSteps
  <2>7. Rearranges(FlattenSeq(FlattenSeq(O(n))), FlattenSeq(I(n)))
    BY <1>3, <1>5, <2>2, <2>3, <2>4, <2>5, <2>6, RearrangesConcat
  <2> QED BY <2>1, <2>7
<1>8. 0 .. N \subseteq T
  <2> HIDE DEF T
  <2> QED BY <1>6, <1>7, InductionTo
<1>9. Rearranges(FlattenSeq(FlattenSeq(O(N))), FlattenSeq(I(N)))
  BY <1>1, <1>8
<1> QED BY <1>2, <1>9

-----------------------------------------------------------------------------
(* Texts that are no longer than w characters. *)
Fits(w) == {t \in Seq(Par) : Size(t) <= w}

(* Sections of texts of some kind are sections of texts. *)
LEMMA SeqWider ==
  /\ \A ss \in Seq(Some) : ss \in Seq(Seq(Par))
  /\ \A w : \A ss \in Seq(Fits(w)) : ss \in Seq(Seq(Par))
  /\ \A v, w \in Nat : v <= w => Fits(v) \subseteq Fits(w) /\ Seq(Fits(v)) \subseteq Seq(Fits(w))
<1>1. \A ss \in Seq(Some) : ss \in Seq(Seq(Par))
  <2>1. Some \subseteq Seq(Par)
    BY DEF Some
  <2> QED BY <2>1, SeqMonotonic
<1>2. ASSUME NEW w, NEW ss \in Seq(Fits(w)) PROVE ss \in Seq(Seq(Par))
  <2>1. Fits(w) \subseteq Seq(Par)
    BY DEF Fits
  <2> QED BY <2>1, SeqMonotonic
<1>3. ASSUME NEW v \in Nat, NEW w \in Nat, v <= w
      PROVE  Fits(v) \subseteq Fits(w) /\ Seq(Fits(v)) \subseteq Seq(Fits(w))
  <2>1. Fits(v) \subseteq Fits(w)
    <3> SUFFICES ASSUME NEW t \in Seq(Par), Size(t) <= v PROVE Size(t) <= w
      BY DEF Fits
    <3>1. Size(t) \in Nat
      BY SizeSteps
    <3> QED BY <1>3, <3>1
  <2> QED BY <2>1, SeqMonotonic
<1> QED BY <1>1, <1>2, <1>3

(* collectLevelBlocks loses nothing, and no block is empty. *)
LEMMA BlocksWhole ==
  ASSUME NEW level
  PROVE  \A t \in Seq(Par) : Blocks(t, level) \in Seq(Some) /\ FlattenSeq(Blocks(t, level)) = t
<1>0. /\ Blocks(<<>>, level) = <<>>
      /\ \A t \in Seq(Par) : Blocks(t, level) \in Seq(Some)
      /\ \A t \in Seq(Par), p \in Par :
           Blocks(Append(t, p), level)
             = (IF Blocks(t, level) = <<>> \/ p.level = level THEN Append(Blocks(t, level), <<p>>)
                ELSE Append(Front(Blocks(t, level)), Append(Last(Blocks(t, level)), p)))
  BY BlocksSteps
<1>1. /\ FlattenSeq(<<>>) = <<>>
      /\ \A ss \in Seq(Seq(Par)), s \in Seq(Par) : FlattenSeq(Append(ss, s)) = FlattenSeq(ss) \o s
      /\ \A ss \in Seq(Seq(Par)) : FlattenSeq(ss) \in Seq(Par)
  BY FlattenSteps
<1> DEFINE T == {t \in Seq(Par) : FlattenSeq(Blocks(t, level)) = t}
<1>2. <<>> \in T
  BY <1>0, <1>1, EmptySeq
<1>3. ASSUME NEW t \in Seq(Par), t \in T, NEW p \in Par PROVE Append(t, p) \in T
  <2>1. PICK bs \in Seq(Seq(Par)) : bs = Blocks(t, level) /\ FlattenSeq(bs) = t
    BY <1>0, <1>3, SeqWider
  <2>2. <<p>> \in Seq(Par) /\ Append(t, p) = t \o <<p>> /\ Append(t, p) \in Seq(Par)
    BY Single, AppendIsConcat, AppendProperties
  <2>3. CASE bs = <<>> \/ p.level = level
    <3>1. Blocks(Append(t, p), level) = Append(bs, <<p>>)
      BY <1>0, <2>1, <2>3
    <3>2. FlattenSeq(Append(bs, <<p>>)) = t \o <<p>>
      BY <1>1, <2>1, <2>2
    <3> QED BY <2>2, <3>1, <3>2
  <2>4. CASE ~ (bs = <<>> \/ p.level = level)
    <3>1. Blocks(Append(t, p), level) = Append(Front(bs), Append(Last(bs), p))
      BY <1>0, <2>1, <2>4
    <3>2. PICK fr \in Seq(Seq(Par)), la \in Seq(Par) : fr = Front(bs) /\ la = Last(bs) /\ bs = Append(fr, la)
      BY <2>4, FrontLast
    <3>3. FlattenSeq(fr) \in Seq(Par) /\ FlattenSeq(fr) \o la = t
      BY <1>1, <2>1, <3>2
    <3>4. Append(la, p) \in Seq(Par)
      BY AppendProperties
    <3>5. FlattenSeq(Append(fr, Append(la, p))) = FlattenSeq(fr) \o Append(la, p)
      BY <1>1, <3>4
    <3>6. FlattenSeq(fr) \o Append(la, p) = Append(FlattenSeq(fr) \o la, p)
      BY <3>3, ConcatAppend
    <3>7. FlattenSeq(Blocks(Append(t, p), level)) = Append(t, p)
      BY <3>1, <3>2, <3>3, <3>5, <3>6
    <3> QED BY <2>2, <3>7
  <2> QED BY <2>3, <2>4
<1>4. Seq(Par) \subseteq T
  <2> HIDE DEF T
  <2> QED BY <1>2, <1>3, SeqInduction
<1> QED BY <1>0, <1>4

-----------------------------------------------------------------------------
(* The hard split of a paragraph has all of it, in pieces that fit. *)
LEMMA HardSplitWhole ==
  ASSUME NEW p \in Par, NEW w \in Nat, w # 0, w < p.size
  PROVE  /\ HardSplit(p, w) \in Seq(Fits(w))
         /\ Rearranges(FlattenSeq(HardSplit(p, w)), <<p>>)
<1>1. p.size \in Nat /\ p.level \in Nat /\ p.id \in Nat /\ p.copy \in BOOLEAN
  BY DEF Par
<1>a. PICK s \in Nat : s = p.size
  BY <1>1
<1>b. PICK m : m = (s + w - 1) \div w
  OBVIOUS
<1> DEFINE last == IF m * w <= s THEN w ELSE s % w
           Chars(n) == IF n * w <= s THEN w ELSE s % w
           piece(n) == [p EXCEPT !.size = Chars(n), !.level = IF n = 1 THEN p.level ELSE 0]
           parts == HardSplit(p, w)
           Acc(n) == IF n = m THEN s ELSE n * w
<1>2. /\ m \in Nat /\ m # 0
      /\ \A n \in 1 .. m : n # m => n * w <= s
      /\ last + (m - 1) * w = s /\ last <= w
  <2>1. w < s
    BY <1>a
  <2> HIDE DEF last
  <2>2. Pieces(s, w, m)
    BY <1>b, <2>1, PieceCount
  <2> QED BY <2>2 DEF last, Pieces
<1>3. s % w \in Nat
  BY Division
<1>4. parts = [n \in 1 .. m |-> <<piece(n)>>]
  BY <1>a, <1>b DEF HardSplit
<1> HIDE DEF parts
<1>5. \A n \in 1 .. m : Chars(n) \in Nat /\ Chars(n) <= w /\ (n # m => Chars(n) = w) /\ (n = m => Chars(n) = last)
  BY <1>2, <1>3
<1>6. ASSUME NEW n \in 1 .. m
      PROVE  piece(n) \in Par /\ piece(n).size = Chars(n) /\ piece(n).id = p.id /\ piece(n).copy = p.copy
  <2>1. Chars(n) \in Nat /\ (IF n = 1 THEN p.level ELSE 0) \in Nat
    BY <1>1, <1>5
  <2> HIDE DEF Chars
  <2> QED BY <1>1, <2>1 DEF Par
<1> HIDE DEF piece
<1> DEFINE one(n) == <<piece(n)>>
<1>7. \A n \in 1 .. m : one(n) \in Seq(Par) /\ one(n) \in Fits(w)
  <2> SUFFICES ASSUME NEW n \in 1 .. m PROVE one(n) \in Seq(Par) /\ one(n) \in Fits(w)
    OBVIOUS
  <2>1. one(n) \in Seq(Par)
    BY <1>6, Single
  <2>2. Size(one(n)) <= w
    BY <1>5, <1>6, SizeConcat
  <2> QED BY <2>1, <2>2 DEF Fits
<1>7a. \A n \in 1 .. m : /\ Ids(one(n)) = (IF p.copy THEN {} ELSE {p.id}) /\ InOrder(one(n))
                          /\ \A i : Remaining(one(n), i) = IF p.copy \/ p.id # i THEN 0 ELSE Chars(n)
  <2> SUFFICES ASSUME NEW n \in 1 .. m
               PROVE  /\ Ids(one(n)) = (IF p.copy THEN {} ELSE {p.id}) /\ InOrder(one(n))
                      /\ \A i : Remaining(one(n), i) = IF p.copy \/ p.id # i THEN 0 ELSE Chars(n)
    OBVIOUS
  <2>1. piece(n) \in Par /\ piece(n).size = Chars(n) /\ piece(n).id = p.id /\ piece(n).copy = p.copy
    BY <1>6
  <2> HIDE DEF Chars
  <2>2. \A i : Remaining(one(n), i) = IF p.copy \/ p.id # i THEN 0 ELSE Chars(n)
    <3> SUFFICES ASSUME NEW i PROVE Remaining(one(n), i) = IF p.copy \/ p.id # i THEN 0 ELSE Chars(n)
      OBVIOUS
    <3>1. \A q \in Par : Remaining(<<q>>, i) = IF q.copy \/ q.id # i THEN 0 ELSE q.size
      BY RemainingConcat
    <3> QED BY <2>1, <3>1
  <2> QED BY <2>1, <2>2, IdsSingle
<1>8. parts \in Seq(Fits(w)) /\ parts \in Seq(Seq(Par)) /\ Len(parts) = m /\ \A n \in 1 .. m : parts[n] = one(n)
  <2>1. parts \in [1 .. m -> Fits(w)] /\ \A n \in 1 .. m : parts[n] = one(n)
    BY <1>4, <1>7
  <2> HIDE DEF one
  <2>2. parts \in Seq(Fits(w)) /\ Len(parts) = m
    BY <1>2, <2>1, FunctionSeq
  <2> QED BY <2>1, <2>2, SeqWider
<1> HIDE DEF one
<1> DEFINE F(n) == FlattenSeq(SubSeq(parts, 1, n))
<1>9. /\ F(0) = <<>> /\ F(m) = FlattenSeq(parts)
      /\ \A n \in 0 .. m : F(n) \in Seq(Par)
      /\ \A n \in 1 .. m : F(n) = F(n - 1) \o one(n)
  <2>1. /\ SubSeq(parts, 1, 0) = <<>> /\ SubSeq(parts, 1, m) = parts
        /\ \A n \in 0 .. m : SubSeq(parts, 1, n) \in Seq(Seq(Par))
        /\ \A n \in 1 .. m : SubSeq(parts, 1, n) = Append(SubSeq(parts, 1, n - 1), one(n))
    BY <1>8, PrefixLaws
  <2>2. ASSUME NEW n \in 1 .. m PROVE F(n) = F(n - 1) \o one(n)
    <3>1. n - 1 \in 0 .. m
      BY <1>2
    <3>2. SubSeq(parts, 1, n - 1) \in Seq(Seq(Par)) /\ one(n) \in Seq(Par)
      BY <1>7, <2>1, <3>1
    <3> QED BY <2>1, <3>2, FlattenSteps
  <2>3. \A n \in 0 .. m : F(n) \in Seq(Par)
    BY <2>1, FlattenSteps
  <2>4. F(0) = <<>> /\ F(m) = FlattenSeq(parts)
    BY <2>1, FlattenSteps
  <2> QED BY <2>2, <2>3, <2>4
<1> HIDE DEF F
<1> DEFINE T == {n \in 0 .. m : /\ \A i : Remaining(F(n), i) = IF p.copy \/ p.id # i THEN 0 ELSE Acc(n)
                                /\ Ids(F(n)) \subseteq (IF p.copy THEN {} ELSE {p.id})
                                /\ InOrder(F(n))}
<1>10. 0 \in T
  <2>1. \A i : Remaining(F(0), i) = 0
    BY <1>9, RemainingSteps
  <2>2. Ids(F(0)) = {} /\ InOrder(F(0))
    BY <1>9, IdsSingle
  <2>3. Acc(0) = 0 /\ 0 \in 0 .. m
    BY <1>2
  <2> QED BY <2>1, <2>2, <2>3
<1>11. ASSUME NEW n \in 1 .. m, n - 1 \in T PROVE n \in T
  <2>1. n - 1 \in 0 .. m /\ n \in 0 .. m /\ F(n - 1) \in Seq(Par) /\ one(n) \in Seq(Par)
    <3>1. n - 1 \in 0 .. m /\ n \in 0 .. m
      BY <1>2
    <3> QED BY <1>7, <1>9, <3>1
  <2>2. Acc(n) = Acc(n - 1) + Chars(n) /\ Acc(n - 1) \in Nat /\ Chars(n) \in Nat
    <3>1. n - 1 # m /\ Acc(n - 1) = (n - 1) * w /\ n \in Nat /\ n - 1 \in Nat
      BY <1>2
    <3>2. CASE n = m
      BY <1>2, <1>5, <3>1, <3>2
    <3>3. CASE n # m
      <4>1. n * w = (n - 1) * w + w /\ (n - 1) * w \in Nat
        BY <3>1
      <4> QED BY <1>5, <3>1, <3>3, <4>1
    <3> QED BY <3>2, <3>3
  <2> HIDE DEF Acc, Chars
  <2>3. ASSUME NEW i PROVE Remaining(F(n), i) = IF p.copy \/ p.id # i THEN 0 ELSE Acc(n)
    <3>1. Remaining(F(n), i) = Remaining(F(n - 1), i) + Remaining(one(n), i)
      <4>1. \A a, b \in Seq(Par) : Remaining(a \o b, i) = Remaining(a, i) + Remaining(b, i)
        BY RemainingConcat
      <4>2. Remaining(F(n - 1) \o one(n), i) = Remaining(F(n - 1), i) + Remaining(one(n), i)
        BY <2>1, <4>1
      <4> QED BY <1>9, <4>2
    <3>2. Remaining(one(n), i) = IF p.copy \/ p.id # i THEN 0 ELSE Chars(n)
      BY <1>7a
    <3>3. Remaining(F(n - 1), i) = IF p.copy \/ p.id # i THEN 0 ELSE Acc(n - 1)
      BY <1>11
    <3> QED BY <2>2, <3>1, <3>2, <3>3
  <2>4. Ids(one(n)) = (IF p.copy THEN {} ELSE {p.id}) /\ InOrder(one(n))
    BY <1>7a
  <2>5. Ids(F(n - 1)) \subseteq (IF p.copy THEN {} ELSE {p.id}) /\ InOrder(F(n - 1))
    BY <1>11
  <2>6. Ids(F(n)) \subseteq (IF p.copy THEN {} ELSE {p.id})
    <3>1. Ids(F(n - 1) \o one(n)) = Ids(F(n - 1)) \cup Ids(one(n))
      BY <2>1, IdsConcat
    <3> QED BY <1>9, <2>4, <2>5, <3>1
  <2>7. \A x \in Ids(F(n - 1)), y \in Ids(one(n)) : x <= y
    BY <1>1, <2>4, <2>5
  <2>8. InOrder(F(n))
    <3>1. InOrder(F(n - 1) \o one(n))
      BY <2>1, <2>4, <2>5, <2>7, IdsConcat
    <3> QED BY <1>9, <3>1
  <2> QED BY <2>1, <2>3, <2>6, <2>8
<1>12. 0 .. m \subseteq T
  <2> HIDE DEF T
  <2> QED BY <1>2, <1>10, <1>11, InductionTo
<1>13. m \in T
  <2> HIDE DEF T
  <2>1. m \in 0 .. m
    BY <1>2
  <2> QED BY <1>12, <2>1
<1>14. Rearranges(FlattenSeq(parts), <<p>>)
  <2>1. \A i : Remaining(FlattenSeq(parts), i) = IF p.copy \/ p.id # i THEN 0 ELSE s
    BY <1>9, <1>13
  <2>2. \A i : Remaining(<<p>>, i) = IF p.copy \/ p.id # i THEN 0 ELSE s
    BY <1>a, RemainingConcat
  <2>3. Ids(FlattenSeq(parts)) \subseteq Ids(<<p>>) /\ InOrder(FlattenSeq(parts))
    BY <1>9, <1>13, IdsSingle
  <2> QED BY <2>1, <2>2, <2>3 DEF Rearranges
<1> QED BY <1>8, <1>14 DEF parts

-----------------------------------------------------------------------------
(* Sections of w characters that are complete, and the one that is filled. *)
Stacks(w) == [parts : Seq(Fits(w)), current : Fits(w)]
Collection(t, w) == FoldLeft(LAMBDA s, p : Collect(s, p, w), [parts |-> <<>>, current |-> <<>>], t)
All(s) == FlattenSeq(s.parts) \o s.current

(* Flush completes the last section. *)
LEMMA FlushWhole ==
  ASSUME NEW w \in Nat, NEW s \in Stacks(w)
  PROVE  Flush(s) \in Seq(Fits(w)) /\ FlattenSeq(Flush(s)) = All(s) /\ All(s) \in Seq(Par)
<1>1. s.parts \in Seq(Fits(w)) /\ s.current \in Fits(w)
  BY DEF Stacks
<1>2. s.parts \in Seq(Seq(Par)) /\ s.current \in Seq(Par)
  BY <1>1, SeqWider DEF Fits
<1>3. FlattenSeq(s.parts) \in Seq(Par)
  BY <1>2, FlattenSteps
<1>4. All(s) \in Seq(Par)
  BY <1>2, <1>3, ConcatProperties DEF All
<1>5. CASE s.current = <<>>
  <2>1. Flush(s) = s.parts
    BY <1>5 DEF Flush
  <2>2. All(s) = FlattenSeq(s.parts)
    BY <1>3, <1>5, ConcatEmptySeq DEF All
  <2> QED BY <1>1, <1>4, <2>1, <2>2
<1>6. CASE s.current # <<>>
  <2>1. Flush(s) = Append(s.parts, s.current)
    BY <1>6 DEF Flush
  <2>2. Append(s.parts, s.current) \in Seq(Fits(w))
    BY <1>1, AppendProperties
  <2>3. FlattenSeq(Append(s.parts, s.current)) = FlattenSeq(s.parts) \o s.current
    BY <1>2, FlattenSteps
  <2> QED BY <1>4, <2>1, <2>2, <2>3 DEF All
<1> QED BY <1>5, <1>6

(* Collecting a paragraph keeps the sections as long as they may be, and what
   was collected. *)
LEMMA CollectWhole ==
  ASSUME NEW w \in Nat, w # 0, NEW s \in Stacks(w), NEW p \in Par
  PROVE  /\ Collect(s, p, w) \in Stacks(w)
         /\ Rearranges(All(Collect(s, p, w)), All(s) \o <<p>>)
<1>1. s.parts \in Seq(Fits(w)) /\ s.current \in Fits(w)
  BY DEF Stacks
<1>2. s.parts \in Seq(Seq(Par)) /\ s.current \in Seq(Par) /\ FlattenSeq(s.parts) \in Seq(Par)
  <2>1. s.parts \in Seq(Seq(Par)) /\ s.current \in Seq(Par)
    BY <1>1, SeqWider DEF Fits
  <2> QED BY <2>1, FlattenSteps
<1>3. Flush(s) \in Seq(Fits(w)) /\ FlattenSeq(Flush(s)) = All(s) /\ All(s) \in Seq(Par)
  BY FlushWhole
<1>4. Flush(s) \in Seq(Seq(Par)) /\ <<p>> \in Seq(Par) /\ p.size \in Nat /\ Size(s.current) \in Nat
  <2>1. <<p>> \in Seq(Par) /\ p.size \in Nat
    BY Single DEF Par
  <2> QED BY <1>2, <1>3, <2>1, SeqWider, SizeSteps
<1>5. CASE Size(s.current) + p.size <= w
  <2>1. PICK c \in Seq(Par) : c = Append(s.current, p)
    BY <1>2, AppendProperties
  <2>2. Collect(s, p, w) = [s EXCEPT !.current = c]
    BY <1>5, <2>1 DEF Collect
  <2>3. c \in Fits(w)
    <3>1. Size(c) = Size(s.current) + p.size
      BY <1>2, <2>1, SizeSteps
    <3> QED BY <1>5, <3>1 DEF Fits
  <2>4. Collect(s, p, w) \in Stacks(w) /\ Collect(s, p, w).parts = s.parts /\ Collect(s, p, w).current = c
    BY <2>2, <2>3 DEF Stacks
  <2>5. c = s.current \o <<p>>
    BY <1>2, <2>1, AppendIsConcat
  <2>6. All(Collect(s, p, w)) = All(s) \o <<p>>
    <3>1. FlattenSeq(s.parts) \o (s.current \o <<p>>) = (FlattenSeq(s.parts) \o s.current) \o <<p>>
      BY <1>2, <1>4, TextsAssociative
    <3> QED BY <2>4, <2>5, <3>1 DEF All
  <2> QED BY <2>4, <2>6, RearrangesPreorder
<1>6. CASE ~ (Size(s.current) + p.size <= w) /\ p.size <= w
  <2>1. Collect(s, p, w) = [parts |-> Flush(s), current |-> <<p>>]
    BY <1>6 DEF Collect
  <2>2. <<p>> \in Fits(w)
    BY <1>4, <1>6, SizeConcat DEF Fits
  <2>3. Collect(s, p, w) \in Stacks(w)
    BY <1>3, <2>1, <2>2 DEF Stacks
  <2>4. All(Collect(s, p, w)) = All(s) \o <<p>>
    <3>1. Collect(s, p, w).parts = Flush(s) /\ Collect(s, p, w).current = <<p>>
      BY <2>1
    <3>2. All(Collect(s, p, w)) = FlattenSeq(Flush(s)) \o <<p>>
      BY <3>1 DEF All
    <3> QED BY <1>3, <3>2
  <2> QED BY <2>3, <2>4, RearrangesPreorder
<1>7. CASE ~ (Size(s.current) + p.size <= w) /\ ~ (p.size <= w)
  <2>1. Collect(s, p, w) = [parts |-> Flush(s) \o HardSplit(p, w), current |-> <<>>]
    BY <1>7 DEF Collect
  <2>2. w < p.size
    BY <1>4, <1>7
  <2>3. HardSplit(p, w) \in Seq(Fits(w)) /\ Rearranges(FlattenSeq(HardSplit(p, w)), <<p>>)
    BY <2>2, HardSplitWhole
  <2> HIDE DEF HardSplit
  <2>4. PICK hs \in Seq(Fits(w)) : hs = HardSplit(p, w) /\ Rearranges(FlattenSeq(hs), <<p>>)
    BY <2>3
  <2>5. hs \in Seq(Seq(Par)) /\ FlattenSeq(hs) \in Seq(Par)
    <3>1. hs \in Seq(Seq(Par))
      BY SeqWider
    <3> QED BY <3>1, FlattenSteps
  <2>6. Flush(s) \o hs \in Seq(Fits(w)) /\ <<>> \in Fits(w)
    <3>1. Flush(s) \o hs \in Seq(Fits(w))
      BY <1>3, ConcatProperties
    <3>2. <<>> \in Seq(Par) /\ Size(<<>>) = 0
      BY EmptySeq, SizeSteps
    <3> QED BY <3>1, <3>2 DEF Fits
  <2>7. Collect(s, p, w) \in Stacks(w)
    BY <2>1, <2>4, <2>6 DEF Stacks
  <2>8. FlattenSeq(Flush(s) \o hs) = All(s) \o FlattenSeq(hs)
    <3>1. PICK fs \in Seq(Seq(Par)) : fs = Flush(s) /\ FlattenSeq(fs) = All(s)
      BY <1>3, SeqWider
    <3>2. FlattenSeq(fs \o hs) = FlattenSeq(fs) \o FlattenSeq(hs)
      BY <2>5, FlattenTexts
    <3> QED BY <3>1, <3>2
  <2>9. All(Collect(s, p, w)) = All(s) \o FlattenSeq(hs)
    <3>1. All(s) \o FlattenSeq(hs) \in Seq(Par)
      BY <1>3, <2>5, ConcatProperties
    <3>2. (All(s) \o FlattenSeq(hs)) \o <<>> = All(s) \o FlattenSeq(hs)
      BY <3>1, ConcatEmptySeq
    <3>3. All(Collect(s, p, w)) = FlattenSeq(Flush(s) \o hs) \o <<>>
      BY <2>1, <2>4 DEF All
    <3> QED BY <2>8, <3>2, <3>3
  <2>10. Rearranges(All(s) \o FlattenSeq(hs), All(s) \o <<p>>)
    <3> DEFINE a == All(s)
               b == FlattenSeq(hs)
               d == <<p>>
    <3>1. a \in Seq(Par) /\ b \in Seq(Par) /\ d \in Seq(Par) /\ Rearranges(a, a) /\ Rearranges(b, d)
      BY <1>3, <1>4, <2>4, <2>5, RearrangesPreorder
    <3> HIDE DEF a, b, d
    <3>2. Rearranges(a \o b, a \o d)
      BY <3>1, RearrangesConcat
    <3> QED BY <3>2 DEF a, b, d
  <2> QED BY <2>7, <2>9, <2>10
<1> QED BY <1>5, <1>6, <1>7

(* The sections of a text, one paragraph more at a time. *)
LEMMA CollectionSteps ==
  ASSUME NEW w \in Nat, w # 0
  PROVE  /\ Collection(<<>>, w) = [parts |-> <<>>, current |-> <<>>]
         /\ \A t \in Seq(Par) : Collection(t, w) \in Stacks(w)
         /\ \A t \in Seq(Par), p \in Par :
              Collection(Append(t, p), w) = Collect(Collection(t, w), p, w)
<1> DEFINE step == [x \in Stacks(w) |-> [p \in Par |-> Collect(x, p, w)]]
<1>1. /\ IsFold(Stacks(w), Par, step, [parts |-> <<>>, current |-> <<>>])
      /\ \A x \in Stacks(w), p \in Par : step[x][p] = Collect(x, p, w)
  <2>1. \A x \in Stacks(w), p \in Par : Collect(x, p, w) \in Stacks(w)
    BY CollectWhole
  <2>2. <<>> \in Seq(Par) /\ Size(<<>>) = 0 /\ <<>> \in Seq(Fits(w))
    BY EmptySeq, SizeSteps
  <2>3. [parts |-> <<>>, current |-> <<>>] \in Stacks(w)
    BY <2>2 DEF Stacks, Fits
  <2> QED BY <2>1, <2>3 DEF IsFold
<1> HIDE DEF step
<1>2. ASSUME NEW t \in Seq(Par) PROVE Collection(t, w) = Run(step, [parts |-> <<>>, current |-> <<>>], t)
  <2> DEFINE Q(h) == h = [s \in SUBSET DOMAIN t |->
                            IF s = {} THEN [parts |-> <<>>, current |-> <<>>] ELSE Collect(h[s \ {Max(s)}], t[Max(s)], w)]
             c == CHOOSE h : Q(h)
  <2>1. Collection(t, w) = c[DOMAIN t]
    BY DEF Collection, FoldLeft, MapThenFoldSet
  <2>2. PICK N \in Nat : N = Len(t) /\ DOMAIN t = 1 .. N /\ t \in Long(N, Par)
    BY LenProperties DEF Long
  <2>3. \A n \in 1 .. N : t[n] \in Par
    BY <2>2 DEF Long
  <2>4. PICK g : Folds(g, Stacks(w), step, [parts |-> <<>>, current |-> <<>>], t, N)
    BY <1>1, <2>2, FoldExists
  <2>5. Q(g)
    <3>1. /\ g = [s \in SUBSET DOMAIN t |-> g[s]]
          /\ g[{}] = [parts |-> <<>>, current |-> <<>>]
          /\ \A s \in SUBSET DOMAIN t : s # {} => g[s] = step[g[s \ {Max(s)}]][t[Max(s)]]
      BY <2>2, <2>4 DEF Folds
    <3>2. \A s \in SUBSET DOMAIN t : s # {} => g[s \ {Max(s)}] \in Stacks(w) /\ t[Max(s)] \in Par
      BY <2>2, <2>3, <2>4, MaxOf DEF Folds
    <3>3. \A s \in SUBSET DOMAIN t :
            g[s] = IF s = {} THEN [parts |-> <<>>, current |-> <<>>] ELSE Collect(g[s \ {Max(s)}], t[Max(s)], w)
      BY <1>1, <3>1, <3>2
    <3> QED BY <3>1, <3>3
  <2>6. Q(c)
    <3> HIDE DEF Q
    <3> QED BY <2>5
  <2> HIDE DEF c
  <2>7. Unfolds(c, Stacks(w), step, [parts |-> <<>>, current |-> <<>>], t, N)
    <3>1. \A s \in SUBSET (1 .. N) : c[s] = IF s = {} THEN [parts |-> <<>>, current |-> <<>>] ELSE Collect(c[s \ {Max(s)}], t[Max(s)], w)
      BY <2>2, <2>6
    <3> HIDE DEF Q
    <3> QED BY <1>1, <2>3, <3>1 DEF Unfolds
  <2> HIDE DEF Q
  <2>8. c[1 .. N] = Run(step, [parts |-> <<>>, current |-> <<>>], t)
    BY <1>1, <2>2, <2>7, FoldIsRun
  <2> QED BY <2>1, <2>2, <2>8
<1>3. <<>> \in Seq(Par) /\ \A t \in Seq(Par), p \in Par : Append(t, p) \in Seq(Par)
  BY AppendProperties, EmptySeq
<1>4. /\ Run(step, [parts |-> <<>>, current |-> <<>>], <<>>) = [parts |-> <<>>, current |-> <<>>]
      /\ \A t \in Seq(Par) : Run(step, [parts |-> <<>>, current |-> <<>>], t) \in Stacks(w)
      /\ \A t \in Seq(Par), p \in Par : Run(step, [parts |-> <<>>, current |-> <<>>], Append(t, p)) = step[Run(step, [parts |-> <<>>, current |-> <<>>], t)][p]
  BY <1>1, RunSteps
<1>5. ASSUME NEW t \in Seq(Par), NEW p \in Par
      PROVE  Collection(Append(t, p), w) = Collect(Collection(t, w), p, w)
  <2>1. Collection(t, w) = Run(step, [parts |-> <<>>, current |-> <<>>], t) /\ Run(step, [parts |-> <<>>, current |-> <<>>], t) \in Stacks(w)
    BY <1>2, <1>4
  <2>2. Collection(Append(t, p), w) = Run(step, [parts |-> <<>>, current |-> <<>>], Append(t, p))
    BY <1>2, <1>3
  <2>3. Run(step, [parts |-> <<>>, current |-> <<>>], Append(t, p)) = step[Collection(t, w)][p]
    BY <1>4, <2>1
  <2>4. Collection(t, w) \in Stacks(w)
    BY <2>1
  <2>5. step[Collection(t, w)][p] = Collect(Collection(t, w), p, w)
    BY <1>1, <2>4
  <2> QED BY <2>2, <2>3, <2>5
<1>6. Collection(<<>>, w) = [parts |-> <<>>, current |-> <<>>]
  BY <1>2, <1>3, <1>4
<1> QED BY <1>2, <1>4, <1>5, <1>6

(* splitByLength without its headings loses nothing. *)
LEMMA CollectedWhole ==
  ASSUME NEW w \in Nat, w # 0
  PROVE  \A t \in Seq(Par) : /\ Collected(t, w) \in Seq(Fits(w))
                             /\ Rearranges(FlattenSeq(Collected(t, w)), t)
<1>1. /\ Collection(<<>>, w) = [parts |-> <<>>, current |-> <<>>]
      /\ \A t \in Seq(Par) : Collection(t, w) \in Stacks(w)
      /\ \A t \in Seq(Par), p \in Par : Collection(Append(t, p), w) = Collect(Collection(t, w), p, w)
  BY CollectionSteps
<1> DEFINE T == {t \in Seq(Par) : Rearranges(All(Collection(t, w)), t)}
<1>2. <<>> \in T
  <2>1. All(Collection(<<>>, w)) = FlattenSeq(<<>>) \o <<>>
    <3>1. Collection(<<>>, w).parts = <<>> /\ Collection(<<>>, w).current = <<>>
      BY <1>1
    <3> QED BY <3>1 DEF All
  <2>2. FlattenSeq(<<>>) = <<>> /\ <<>> \o <<>> = <<>> /\ <<>> \in Seq(Par)
    BY FlattenSteps
  <2>3. Rearranges(All(Collection(<<>>, w)), <<>>)
    BY <2>1, <2>2, RearrangesPreorder
  <2> QED BY <2>2, <2>3
<1>3. ASSUME NEW t \in Seq(Par), t \in T, NEW p \in Par PROVE Append(t, p) \in T
  <2>1. Append(t, p) \in Seq(Par) /\ Append(t, p) = t \o <<p>> /\ <<p>> \in Seq(Par)
    BY AppendProperties, AppendIsConcat, Single
  <2>2. PICK s \in Stacks(w) : s = Collection(t, w) /\ Rearranges(All(s), t)
    BY <1>1, <1>3
  <2>3. Rearranges(All(Collect(s, p, w)), All(s) \o <<p>>)
    BY CollectWhole
  <2>4. Rearranges(All(s) \o <<p>>, t \o <<p>>)
    <3> DEFINE a == All(s)
               d == <<p>>
    <3>1. a \in Seq(Par) /\ d \in Seq(Par) /\ Rearranges(a, t) /\ Rearranges(d, d)
      BY <2>1, <2>2, FlushWhole, RearrangesPreorder
    <3> HIDE DEF a, d
    <3>2. Rearranges(a \o d, t \o d)
      BY <3>1, RearrangesConcat
    <3> QED BY <3>2 DEF a, d
  <2>5. Rearranges(All(Collection(Append(t, p), w)), Append(t, p))
    BY <1>1, <2>1, <2>2, <2>3, <2>4, RearrangesPreorder
  <2> QED BY <2>1, <2>5
<1>4. Seq(Par) \subseteq T
  <2> HIDE DEF T
  <2> QED BY <1>2, <1>3, SeqInduction
<1> SUFFICES ASSUME NEW t \in Seq(Par)
             PROVE  Collected(t, w) \in Seq(Fits(w)) /\ Rearranges(FlattenSeq(Collected(t, w)), t)
  OBVIOUS
<1>5. Collected(t, w) = Flush(Collection(t, w))
  BY DEF Collected, Collection
<1>6. Collection(t, w) \in Stacks(w) /\ Rearranges(All(Collection(t, w)), t)
  BY <1>1, <1>4
<1> QED BY <1>5, <1>6, FlushWhole

(* A set of numbers has a least one. *)
LEMMA LeastOf ==
  ASSUME NEW s \in SUBSET Nat, s # {}
  PROVE  \E i \in s : \A j \in s : i <= j
<1> SUFFICES ASSUME \A i \in s : \E j \in s : j < i PROVE FALSE
  OBVIOUS
<1>0. \A i \in s : i \in Nat /\ i + 1 \in Nat /\ ~ (i + 1 <= i)
  OBVIOUS
<1> DEFINE T == {n \in Nat : \A j \in s : n <= j}
<1>1. 0 \in T
  OBVIOUS
<1>2. \A n \in Nat : n \in T => n + 1 \in T
  <2> SUFFICES ASSUME NEW n \in Nat, \A j \in s : n <= j, NEW j \in s PROVE n + 1 <= j
    OBVIOUS
  <2>1. PICK k \in s : k < j
    OBVIOUS
  <2> QED BY <2>1
<1>3. Nat \subseteq T
  <2> HIDE DEF T
  <2> QED BY <1>1, <1>2, Induction
<1>4. PICK i : i \in s
  OBVIOUS
<1>5. i + 1 \in T
  <2> HIDE DEF T
  <2> QED BY <1>0, <1>3, <1>4
<1> QED BY <1>0, <1>4, <1>5

(* What stands before a sequence can be told from it. *)
LEMMA Rooted ==
  ASSUME NEW S, NEW base \in S, NEW relative \in Seq(S)
  PROVE  /\ <<base>> \o relative \in Seq(S) /\ <<base>> \o relative # <<>>
         /\ Head(<<base>> \o relative) = base /\ Tail(<<base>> \o relative) = relative
         /\ Len(<<base>> \o relative) = Len(relative) + 1
         /\ \A i \in 2 .. Len(relative) + 1 : (<<base>> \o relative)[i] = relative[i - 1] /\ i - 1 \in 1 .. Len(relative)
<1> DEFINE p == <<base>> \o relative
           b == <<base>>
<1>1. b \in Seq(S) /\ Len(b) = 1 /\ b[1] = base
  BY Single
<1>2. p = b \o relative
  OBVIOUS
<1>3. PICK N \in Nat : N = Len(relative) /\ DOMAIN relative = 1 .. N
  BY LenProperties
<1> HIDE DEF p, b
<1>4. /\ p \in Seq(S) /\ Len(p) = N + 1
      /\ \A i \in 1 .. N + 1 : p[i] = IF i <= 1 THEN b[i] ELSE relative[i - 1]
  <2>1. /\ b \o relative \in Seq(S) /\ Len(b \o relative) = Len(b) + Len(relative)
        /\ \A i \in 1 .. Len(b) + Len(relative) : (b \o relative)[i] = IF i <= Len(b) THEN b[i] ELSE relative[i - Len(b)]
    BY <1>1, ConcatProperties
  <2>2. Len(b) + Len(relative) = N + 1
    BY <1>1, <1>3
  <2> QED BY <1>1, <1>2, <2>1, <2>2
<1>5. p # <<>> /\ p[1] = base /\ \A i \in 2 .. N + 1 : p[i] = relative[i - 1] /\ i - 1 \in 1 .. N
  <2>1. p # <<>>
    BY <1>3, <1>4, EmptySeq
  <2>2. 1 \in 1 .. N + 1
    BY <1>3
  <2> QED BY <1>1, <1>3, <1>4, <2>1, <2>2
<1>6. Head(p) = base
  <2>1. Head(p) = p[1]
    BY <1>4, <1>5
  <2> QED BY <1>5, <2>1
<1>7. Tail(p) = relative
  <2>1. Tail(p) \in Seq(S) /\ Len(Tail(p)) = N /\ \A i \in 1 .. N : Tail(p)[i] = p[i + 1]
    BY <1>3, <1>4, <1>5, HeadTailProperties
  <2>2. \A i \in 1 .. N : i + 1 \in 2 .. N + 1 /\ (i + 1) - 1 = i
    BY <1>3
  <2>3. \A i \in 1 .. N : Tail(p)[i] = relative[i]
    BY <1>5, <2>1, <2>2
  <2> HIDE DEF p
  <2> QED BY <1>3, <2>1, <2>3, SeqEqual
<1> QED BY <1>2, <1>3, <1>4, <1>5, <1>6, <1>7 DEF p, b

-----------------------------------------------------------------------------
(* The bounds on the characters of a section. *)
LEMMA Chars ==
  /\ MinChars \in Nat /\ TargetChars \in Nat /\ MaxChars \in Nat /\ PrefixChars \in Nat
  /\ MinBody \in Nat /\ MinBody # 0 /\ MinBody <= MaxChars
BY CharsAssumption

(* Sections that are short enough, or whose heading alone is to blame. *)
Bounded == {t \in Seq(Par) : Fitting(t)}

(* Sections that fit are. *)
LEMMA BoundedLaws ==
  /\ Fits(MaxChars) \subseteq Bounded /\ Bounded \subseteq Seq(Par)
  /\ \A ss \in Seq(Bounded) : ss \in Seq(Seq(Par))
<1>1. Fits(MaxChars) \subseteq Bounded /\ Bounded \subseteq Seq(Par)
  BY DEF Fits, Bounded, Fitting
<1> QED BY <1>1, SeqMonotonic

(* The heading that is made up. *)
LEMMA MadeUpCopy == MadeUp \in Par /\ MadeUp.copy
BY Chars DEF MadeUp, Par

(* extractTitle: so is one that is taken from the text. *)
LEMMA MadeUpForCopy ==
  ASSUME NEW t \in Seq(Par)
  PROVE  MadeUpFor(t) \in Par /\ MadeUpFor(t).copy
<1> DEFINE headings == {i \in 1 .. Len(t) : IsHeading(t[i])}
           first == SelectInSeq(t, IsHeading)
<1>1. CASE headings = {}
  <2>1. first = 0
    BY <1>1 DEF SelectInSeq
  <2> QED BY <2>1, MadeUpCopy DEF MadeUpFor
<1>2. CASE headings # {}
  <2>1. first = Min(headings)
    BY <1>2 DEF SelectInSeq
  <2>2. headings \in SUBSET Nat /\ headings \subseteq 1 .. Len(t)
    OBVIOUS
  <2> HIDE DEF headings, first
  <2>3. first \in 1 .. Len(t)
    <3>1. \E i \in headings : \A j \in headings : i <= j
      BY <1>2, <2>2, LeastOf
    <3> QED BY <2>1, <2>2, <3>1 DEF Min
  <2>4. PICK p \in Par : p = t[first] /\ first # 0
    <3>1. first # 0
      BY <2>3
    <3> QED BY <2>3, <3>1, ElementOfSeq
  <2>5. MadeUpFor(t) = [p EXCEPT !.level = 2, !.copy = TRUE]
    BY <2>4 DEF MadeUpFor, first
  <2>6. [p EXCEPT !.level = 2, !.copy = TRUE] \in Par /\ [p EXCEPT !.level = 2, !.copy = TRUE].copy
    BY DEF Par
  <2> QED BY <2>5, <2>6
<1> QED BY <1>1, <1>2

(* splitByLength: what it returns rearranges the text, and is short enough. *)
LEMMA SplitByLengthWhole ==
  ASSUME NEW t \in Seq(Par)
  PROVE  SplitByLength(t) \in Seq(Bounded) /\ Rearranges(FlattenSeq(SplitByLength(t)), t)
<1> DEFINE made == MadeUpFor(t)
           prefix == IF IsHeading(Head(t)) THEN <<>> ELSE <<made>>
           w == IF Size(prefix) + MinBody <= MaxChars THEN MaxChars - Size(prefix) ELSE MinBody
           parts == Collected(t, w)
           out == [n \in DOMAIN parts |->
                     IF n = 1 \/ IsHeading(Head(parts[n])) THEN parts[n] ELSE prefix \o parts[n]]
<1>1. CASE Size(t) <= MaxChars
  <2>1. SplitByLength(t) = <<t>>
    BY <1>1 DEF SplitByLength
  <2>2. t \in Bounded
    BY <1>1 DEF Bounded, Fitting
  <2>3. <<t>> \in Seq(Bounded)
    BY <2>2, Single
  <2>4. FlattenSeq(<<t>>) = t
    BY FlattenTexts
  <2> QED BY <2>1, <2>3, <2>4, RearrangesPreorder
<1>2. CASE ~ (Size(t) <= MaxChars)
  <2>1. SplitByLength(t) = out
    BY <1>2 DEF SplitByLength
  <2>0. made \in Par /\ made.copy
    BY MadeUpForCopy
  <2> HIDE DEF made
  <2>2. /\ prefix \in Seq(Par) /\ Size(prefix) \in Nat
        /\ (prefix = <<>> /\ Size(prefix) = 0) \/ prefix = <<made>>
    <3>1. <<>> \in Seq(Par) /\ Size(<<>>) = 0
      BY SizeSteps
    <3>2. <<made>> \in Seq(Par)
      BY <2>0, Single
    <3>3. Size(<<made>>) \in Nat
      BY <3>2, SizeSteps
    <3> QED BY <3>1, <3>2, <3>3
  <2>3. \A a \in Seq(Par) : Rearranges(prefix \o a, a)
    <3> SUFFICES ASSUME NEW a \in Seq(Par) PROVE Rearranges(prefix \o a, a)
      OBVIOUS
    <3>1. <<>> \o a = a /\ Rearranges(a, a)
      BY ConcatEmptySeq, RearrangesPreorder
    <3>2. Rearranges(<<made>> \o a, a)
      BY <2>0, RearrangesCopy
    <3> QED BY <3>1, <3>2
  <2>4. /\ w \in Nat /\ w # 0 /\ w <= MaxChars
        /\ w + Size(prefix) = MaxChars \/ (w = MinBody /\ prefix = <<made>>)
    <3> HIDE DEF prefix
    <3>1. CASE Size(prefix) + MinBody <= MaxChars
      BY <2>2, <3>1, Chars
    <3>2. CASE ~ (Size(prefix) + MinBody <= MaxChars)
      BY <2>2, <3>2, Chars
    <3> QED BY <3>1, <3>2
  <2> HIDE DEF prefix, w
  <2>5. parts \in Seq(Fits(w)) /\ Rearranges(FlattenSeq(parts), t)
    BY <2>4, CollectedWhole
  <2> HIDE DEF parts
  <2>6. PICK N \in Nat : N = Len(parts) /\ DOMAIN parts = 1 .. N
    BY <2>5, LenProperties
  <2>7. ASSUME NEW n \in 1 .. N PROVE out[n] \in Bounded /\ Rearranges(out[n], parts[n])
    <3>0. PICK part : part = parts[n]
      OBVIOUS
    <3>1. part \in Fits(w)
      BY <2>5, <2>6, <3>0, ElementOfSeq
    <3>2. part \in Seq(Par) /\ Size(part) <= w /\ Size(part) \in Nat
      BY <3>1, SizeSteps DEF Fits
    <3>3. part \in Bounded
      BY <2>4, <3>2, Chars DEF Bounded, Fitting
    <3>4. prefix \o part \in Seq(Par) /\ Size(prefix \o part) = Size(prefix) + Size(part)
      BY <2>2, <3>2, ConcatProperties, SizeConcat
    <3>5. prefix \o part \in Bounded
      <4>1. CASE w + Size(prefix) = MaxChars
        <5>1. Size(prefix \o part) <= MaxChars
          BY <2>2, <2>4, <3>2, <3>4, <4>1, Chars
        <5> QED BY <3>4, <5>1 DEF Bounded, Fitting
      <4>2. CASE w = MinBody /\ prefix = <<made>>
        <5>1. Head(prefix \o part) = made /\ Tail(prefix \o part) = part
          BY <2>0, <3>2, <4>2, Rooted
        <5> QED BY <2>0, <3>2, <3>4, <4>2, <5>1 DEF Bounded, Fitting
      <4> QED BY <2>4, <4>1, <4>2
    <3>6. Rearranges(prefix \o part, part) /\ Rearranges(part, part)
      BY <2>3, <3>2, RearrangesPreorder
    <3>7. out[n] = part \/ out[n] = prefix \o part
      BY <2>6, <3>0
    <3> QED BY <3>0, <3>3, <3>5, <3>6, <3>7
  <2>8. out \in [1 .. N -> Bounded]
    BY <2>6, <2>7
  <2> HIDE DEF out
  <2>9. out \in Seq(Bounded) /\ Len(out) = N
    BY <2>8, FunctionSeq
  <2>10. Rearranges(FlattenSeq(out), FlattenSeq(parts))
    <3>1. out \in Seq(Seq(Par)) /\ parts \in Seq(Seq(Par)) /\ Len(out) = Len(parts)
      BY <2>5, <2>6, <2>9, SeqWider, BoundedLaws
    <3> QED BY <2>6, <2>7, <3>1, FlattenEach
  <2> QED BY <2>1, <2>5, <2>9, <2>10, RearrangesPreorder
<1> QED BY <1>1, <1>2

(* splitOversizedByH3: what it returns rearranges the block. *)
LEMMA SplitByH3Whole ==
  ASSUME NEW block \in Some
  PROVE  SplitByH3(block) \in Seq(Seq(Par)) /\ Rearranges(FlattenSeq(SplitByH3(block)), block)
<1> DEFINE headed == IsHeading(Head(block))
           parent == IF headed THEN [Head(block) EXCEPT !.copy = TRUE] ELSE MadeUpFor(block)
           rest == IF headed THEN Tail(block) ELSE block
           parts == Blocks(rest, 3)
           first(n) == IF n = 1 /\ headed THEN Head(block) ELSE parent
           out == [n \in DOMAIN parts |-> <<first(n)>> \o parts[n]]
           h == IF headed THEN <<Head(block)>> ELSE <<>>
<1>1. block \in Seq(Par) /\ block # <<>>
  BY DEF Some
<1>2. Head(block) \in Par /\ Tail(block) \in Seq(Par) /\ block = <<Head(block)>> \o Tail(block)
  <2>1. Head(block) \in Par /\ Tail(block) \in Seq(Par)
    BY <1>1, HeadTailProperties
  <2>2. PICK N \in Nat : N = Len(block) /\ N # 0
    BY <1>1, EmptySeq
  <2>3. 1 \in 1 .. Len(block) /\ N \in 1 .. Len(block) /\ Head(block) = block[1]
    BY <2>2
  <2>4. SubSeq(block, 1, N) = <<block[1]>> \o SubSeq(block, 2, N)
    BY <1>1, <2>2, <2>3, SubSeqRecursiveFirst
  <2>5. SubSeq(block, 1, N) = block /\ Tail(block) = SubSeq(block, 2, N)
    BY <1>1, <2>2, SubSeqFull, TailIsSubSeq
  <2> QED BY <2>1, <2>3, <2>4, <2>5
<1>3. rest \in Seq(Par) /\ h \in Seq(Par) /\ block = h \o rest
  <2>1. <<Head(block)>> \in Seq(Par) /\ <<>> \in Seq(Par) /\ <<>> \o block = block
    BY <1>1, <1>2, Single, ConcatEmptySeq, EmptySeq
  <2> QED BY <1>1, <1>2, <2>1
<1>4. parent \in Par /\ parent.copy
  BY <1>1, <1>2, MadeUpForCopy DEF Par
<1>5. parts \in Seq(Some) /\ FlattenSeq(parts) = rest
  BY <1>3, BlocksWhole
<1>6. parts \in Seq(Seq(Par))
  BY <1>5, SeqWider
<1>7. CASE Len(parts) <= 1
  <2>1. SplitByH3(block) = <<block>>
    BY <1>7 DEF SplitByH3
  <2>2. <<block>> \in Seq(Seq(Par)) /\ FlattenSeq(<<block>>) = block
    BY <1>1, Single, FlattenTexts
  <2> QED BY <2>1, <2>2, RearrangesPreorder
<1>8. CASE ~ (Len(parts) <= 1)
  <2>1. SplitByH3(block) = out
    BY <1>8 DEF SplitByH3
  <2>2. \A n : first(n) \in Par
    BY <1>2, <1>4
  <2>3. \A n : n # 1 => first(n).copy
    BY <1>4
  <2>4. PICK N \in Nat : N = Len(parts) /\ DOMAIN parts = 1 .. N /\ N # 0
    BY <1>6, <1>8, LenProperties
  <2>5. \A n \in 1 .. N : parts[n] \in Seq(Par) /\ out[n] = <<first(n)>> \o parts[n]
    BY <1>6, <2>4, ElementOfSeq
  <2>6. Rearranges(out[1], h \o parts[1])
    <3>1. 1 \in 1 .. N
      BY <2>4
    <3>2. CASE headed
      BY <2>5, <3>1, <3>2, RearrangesPreorder
    <3>3. CASE ~ headed
      <4>1. out[1] = <<parent>> \o parts[1] /\ h \o parts[1] = parts[1]
        BY <2>5, <3>1, <3>3, ConcatEmptySeq
      <4> HIDE DEF parent, out, h
      <4> QED BY <1>4, <2>5, <3>1, <4>1, RearrangesCopy
    <3> QED BY <3>2, <3>3
  <2> HIDE DEF first, parts
  <2>7. ASSUME NEW n \in 1 .. N PROVE out[n] \in Seq(Par) /\ (n # 1 => Rearranges(out[n], parts[n]))
    <3>1. <<first(n)>> \in Seq(Par)
      BY <2>2, Single
    <3>2. out[n] \in Seq(Par)
      BY <2>5, <3>1, ConcatProperties
    <3>3. n # 1 => Rearranges(<<first(n)>> \o parts[n], parts[n])
      BY <2>2, <2>3, <2>5, RearrangesCopy
    <3> QED BY <2>5, <3>2, <3>3
  <2>8. out \in [1 .. N -> Seq(Par)]
    BY <2>4, <2>7
  <2> HIDE DEF out, h, rest
  <2>9. out \in Seq(Seq(Par)) /\ Len(out) = N
    BY <2>8, FunctionSeq
  <2>10. Rearranges(FlattenSeq(out), h \o FlattenSeq(parts))
    <3>1. \A n \in 2 .. Len(parts) : Rearranges(out[n], parts[n])
      BY <2>4, <2>7
    <3> QED BY <1>3, <1>6, <2>4, <2>6, <2>9, <3>1, FlattenFirst
  <2> QED BY <1>3, <1>5, <2>1, <2>9, <2>10
<1> QED BY <1>7, <1>8

(* A block that is too long is split into sections that are short enough. *)
LEMMA SplitOversizedWhole ==
  ASSUME NEW block \in Some
  PROVE  SplitOversized(block) \in Seq(Bounded) /\ Rearranges(FlattenSeq(SplitOversized(block)), block)
<1>0. block \in Seq(Par)
  BY DEF Some
<1>1. CASE Size(block) <= MaxChars
  <2>1. SplitOversized(block) = <<block>>
    BY <1>1 DEF SplitOversized
  <2>2. block \in Bounded
    BY <1>0, <1>1 DEF Bounded, Fitting
  <2>3. <<block>> \in Seq(Bounded) /\ FlattenSeq(<<block>>) = block
    BY <1>0, <2>2, Single, FlattenTexts
  <2> QED BY <2>1, <2>3, RearrangesPreorder
<1>2. CASE ~ (Size(block) <= MaxChars)
  <2> DEFINE parts == SplitByH3(block)
             split == [n \in DOMAIN parts |-> SplitByLength(parts[n])]
  <2>1. SplitOversized(block) = FlattenSeq(split)
    BY <1>2 DEF SplitOversized
  <2>2. parts \in Seq(Seq(Par)) /\ Rearranges(FlattenSeq(parts), block)
    BY SplitByH3Whole
  <2> HIDE DEF parts
  <2>3. PICK N \in Nat : N = Len(parts) /\ DOMAIN parts = 1 .. N
    BY <2>2, LenProperties
  <2>4. ASSUME NEW n \in 1 .. N
        PROVE  split[n] \in Seq(Bounded) /\ split[n] \in Seq(Seq(Par)) /\ Rearranges(FlattenSeq(split[n]), parts[n])
    <3>1. parts[n] \in Seq(Par) /\ split[n] = SplitByLength(parts[n])
      BY <2>2, <2>3, ElementOfSeq
    <3> HIDE DEF split
    <3>2. split[n] \in Seq(Bounded) /\ Rearranges(FlattenSeq(split[n]), parts[n])
      BY <3>1, SplitByLengthWhole
    <3> QED BY <3>2, BoundedLaws
  <2>5. split \in [1 .. N -> Seq(Bounded)] /\ split \in [1 .. N -> Seq(Seq(Par))]
    BY <2>3, <2>4
  <2> HIDE DEF split
  <2>6. split \in Seq(Seq(Bounded)) /\ split \in Seq(Seq(Seq(Par))) /\ Len(split) = N
    BY <2>5, FunctionSeq
  <2>7. FlattenSeq(split) \in Seq(Bounded)
    BY <2>6, FlattenSteps
  <2>8. Rearranges(FlattenSeq(FlattenSeq(split)), FlattenSeq(parts))
    BY <2>2, <2>3, <2>4, <2>6, FlattenNested
  <2> QED BY <2>1, <2>2, <2>7, <2>8, RearrangesPreorder
<1> QED BY <1>1, <1>2

-----------------------------------------------------------------------------
(* Sections that are merged are short enough. *)
LEMMA MergedFits ==
  ASSUME NEW merged \in Seq(Bounded), NEW next \in Bounded
  PROVE  /\ merged # <<>> /\ Joins(Last(merged), next)
              => Append(Front(merged), Last(merged) \o next) \in Seq(Bounded)
         /\ Append(merged, next) \in Seq(Bounded)
<1>1. Append(merged, next) \in Seq(Bounded)
  BY AppendProperties
<1>2. ASSUME merged # <<>>, Joins(Last(merged), next)
      PROVE  Append(Front(merged), Last(merged) \o next) \in Seq(Bounded)
  <2>1. Front(merged) \in Seq(Bounded) /\ Last(merged) \in Bounded
    BY <1>2, FrontLast
  <2>2. Last(merged) \in Seq(Par) /\ next \in Seq(Par)
    BY <2>1, BoundedLaws
  <2>3. Size(Last(merged) \o next) = Size(Last(merged)) + Size(next) /\ Last(merged) \o next \in Seq(Par)
    BY <2>2, SizeConcat, ConcatProperties
  <2>4. Size(Last(merged)) + Size(next) <= MaxChars
    BY <1>2 DEF Joins
  <2>5. Last(merged) \o next \in Bounded
    BY <2>3, <2>4 DEF Bounded, Fitting
  <2> QED BY <2>1, <2>5, AppendProperties
<1> QED BY <1>1, <1>2

(* The sections that are merged, one section more at a time. *)
LEMMA MergeSteps ==
  /\ MergeSmallSections(<<>>) = <<>>
  /\ \A t \in Seq(Bounded) : MergeSmallSections(t) \in Seq(Bounded)
  /\ \A t \in Seq(Bounded), p \in Bounded :
       MergeSmallSections(Append(t, p)) = (IF MergeSmallSections(t) # <<>> /\ Joins(Last(MergeSmallSections(t)), p) THEN Append(Front(MergeSmallSections(t)), Last(MergeSmallSections(t)) \o p) ELSE Append(MergeSmallSections(t), p))
<1> DEFINE step == [x \in Seq(Bounded) |-> [p \in Bounded |-> (IF x # <<>> /\ Joins(Last(x), p) THEN Append(Front(x), Last(x) \o p) ELSE Append(x, p))]]
<1>1. /\ IsFold(Seq(Bounded), Bounded, step, <<>>)
      /\ \A x \in Seq(Bounded), p \in Bounded : step[x][p] = (IF x # <<>> /\ Joins(Last(x), p) THEN Append(Front(x), Last(x) \o p) ELSE Append(x, p))
  <2>1. \A x \in Seq(Bounded), p \in Bounded :
          (IF x # <<>> /\ Joins(Last(x), p) THEN Append(Front(x), Last(x) \o p) ELSE Append(x, p)) \in Seq(Bounded)
    BY MergedFits
  <2>2. <<>> \in Seq(Bounded)
    BY EmptySeq
  <2> QED BY <2>1, <2>2 DEF IsFold
<1> HIDE DEF step
<1>2. ASSUME NEW t \in Seq(Bounded) PROVE MergeSmallSections(t) = Run(step, <<>>, t)
  <2> DEFINE Q(h) == h = [s \in SUBSET DOMAIN t |->
                            IF s = {} THEN <<>> ELSE (IF h[s \ {Max(s)}] # <<>> /\ Joins(Last(h[s \ {Max(s)}]), t[Max(s)]) THEN Append(Front(h[s \ {Max(s)}]), Last(h[s \ {Max(s)}]) \o t[Max(s)]) ELSE Append(h[s \ {Max(s)}], t[Max(s)]))]
             c == CHOOSE h : Q(h)
  <2>1. MergeSmallSections(t) = c[DOMAIN t]
    BY DEF MergeSmallSections, FoldLeft, MapThenFoldSet
  <2>2. PICK N \in Nat : N = Len(t) /\ DOMAIN t = 1 .. N /\ t \in Long(N, Bounded)
    BY LenProperties DEF Long
  <2>3. \A n \in 1 .. N : t[n] \in Bounded
    BY <2>2 DEF Long
  <2>4. PICK g : Folds(g, Seq(Bounded), step, <<>>, t, N)
    BY <1>1, <2>2, FoldExists
  <2>5. Q(g)
    <3>1. /\ g = [s \in SUBSET DOMAIN t |-> g[s]]
          /\ g[{}] = <<>>
          /\ \A s \in SUBSET DOMAIN t : s # {} => g[s] = step[g[s \ {Max(s)}]][t[Max(s)]]
      BY <2>2, <2>4 DEF Folds
    <3>2. \A s \in SUBSET DOMAIN t : s # {} => g[s \ {Max(s)}] \in Seq(Bounded) /\ t[Max(s)] \in Bounded
      BY <2>2, <2>3, <2>4, MaxOf DEF Folds
    <3>3. \A s \in SUBSET DOMAIN t :
            g[s] = IF s = {} THEN <<>> ELSE (IF g[s \ {Max(s)}] # <<>> /\ Joins(Last(g[s \ {Max(s)}]), t[Max(s)]) THEN Append(Front(g[s \ {Max(s)}]), Last(g[s \ {Max(s)}]) \o t[Max(s)]) ELSE Append(g[s \ {Max(s)}], t[Max(s)]))
      BY <1>1, <3>1, <3>2
    <3> QED BY <3>1, <3>3
  <2>6. Q(c)
    <3> HIDE DEF Q
    <3> QED BY <2>5
  <2> HIDE DEF c
  <2>7. Unfolds(c, Seq(Bounded), step, <<>>, t, N)
    <3>1. \A s \in SUBSET (1 .. N) : c[s] = IF s = {} THEN <<>> ELSE (IF c[s \ {Max(s)}] # <<>> /\ Joins(Last(c[s \ {Max(s)}]), t[Max(s)]) THEN Append(Front(c[s \ {Max(s)}]), Last(c[s \ {Max(s)}]) \o t[Max(s)]) ELSE Append(c[s \ {Max(s)}], t[Max(s)]))
      BY <2>2, <2>6
    <3> HIDE DEF Q
    <3> QED BY <1>1, <2>3, <3>1 DEF Unfolds
  <2> HIDE DEF Q
  <2>8. c[1 .. N] = Run(step, <<>>, t)
    BY <1>1, <2>2, <2>7, FoldIsRun
  <2> QED BY <2>1, <2>2, <2>8
<1>3. <<>> \in Seq(Bounded) /\ \A t \in Seq(Bounded), p \in Bounded : Append(t, p) \in Seq(Bounded)
  BY AppendProperties, EmptySeq
<1>4. /\ Run(step, <<>>, <<>>) = <<>>
      /\ \A t \in Seq(Bounded) : Run(step, <<>>, t) \in Seq(Bounded)
      /\ \A t \in Seq(Bounded), p \in Bounded : Run(step, <<>>, Append(t, p)) = step[Run(step, <<>>, t)][p]
  BY <1>1, RunSteps
<1>5. ASSUME NEW t \in Seq(Bounded), NEW p \in Bounded
      PROVE  MergeSmallSections(Append(t, p)) = (IF MergeSmallSections(t) # <<>> /\ Joins(Last(MergeSmallSections(t)), p) THEN Append(Front(MergeSmallSections(t)), Last(MergeSmallSections(t)) \o p) ELSE Append(MergeSmallSections(t), p))
  <2>1. MergeSmallSections(t) = Run(step, <<>>, t) /\ Run(step, <<>>, t) \in Seq(Bounded)
    BY <1>2, <1>4
  <2>2. MergeSmallSections(Append(t, p)) = Run(step, <<>>, Append(t, p))
    BY <1>2, <1>3
  <2>3. Run(step, <<>>, Append(t, p)) = step[MergeSmallSections(t)][p]
    BY <1>4, <2>1
  <2>4. MergeSmallSections(t) \in Seq(Bounded)
    BY <2>1
  <2>5. step[MergeSmallSections(t)][p] = (IF MergeSmallSections(t) # <<>> /\ Joins(Last(MergeSmallSections(t)), p) THEN Append(Front(MergeSmallSections(t)), Last(MergeSmallSections(t)) \o p) ELSE Append(MergeSmallSections(t), p))
    BY <1>1, <2>4
  <2> QED BY <2>2, <2>3, <2>5
<1>6. MergeSmallSections(<<>>) = <<>>
  BY <1>2, <1>3, <1>4
<1> QED BY <1>2, <1>4, <1>5, <1>6

(* mergeSmallSections loses nothing. *)
LEMMA MergeWhole ==
  \A ss \in Seq(Bounded) : /\ MergeSmallSections(ss) \in Seq(Bounded)
                                  /\ FlattenSeq(MergeSmallSections(ss)) = FlattenSeq(ss)
<1>0. /\ MergeSmallSections(<<>>) = <<>>
      /\ \A ss \in Seq(Bounded) : MergeSmallSections(ss) \in Seq(Bounded)
      /\ \A ss \in Seq(Bounded), s \in Bounded :
           MergeSmallSections(Append(ss, s))
             = (IF MergeSmallSections(ss) # <<>> /\ Joins(Last(MergeSmallSections(ss)), s)
                THEN Append(Front(MergeSmallSections(ss)), Last(MergeSmallSections(ss)) \o s)
                ELSE Append(MergeSmallSections(ss), s))
  BY MergeSteps
<1>1. /\ \A ss \in Seq(Seq(Par)), s \in Seq(Par) : FlattenSeq(Append(ss, s)) = FlattenSeq(ss) \o s
      /\ \A ss \in Seq(Seq(Par)) : FlattenSeq(ss) \in Seq(Par)
  BY FlattenSteps
<1> DEFINE T == {ss \in Seq(Bounded) : FlattenSeq(MergeSmallSections(ss)) = FlattenSeq(ss)}
<1>2. <<>> \in T
  BY <1>0, EmptySeq
<1>3. ASSUME NEW ss \in Seq(Bounded), ss \in T, NEW s \in Bounded PROVE Append(ss, s) \in T
  <2>1. PICK m \in Seq(Bounded) : m = MergeSmallSections(ss) /\ FlattenSeq(m) = FlattenSeq(ss)
    BY <1>0, <1>3
  <2>2. ss \in Seq(Seq(Par)) /\ m \in Seq(Seq(Par)) /\ s \in Seq(Par)
    BY BoundedLaws
  <2>3. FlattenSeq(Append(ss, s)) = FlattenSeq(m) \o s /\ Append(ss, s) \in Seq(Bounded)
    BY <1>1, <2>1, <2>2, AppendProperties
  <2>4. CASE m # <<>> /\ Joins(Last(m), s)
    <3>1. MergeSmallSections(Append(ss, s)) = Append(Front(m), Last(m) \o s)
      BY <1>0, <2>1, <2>4
    <3>2. PICK fr \in Seq(Seq(Par)), la \in Seq(Par) : fr = Front(m) /\ la = Last(m) /\ m = Append(fr, la)
      BY <2>2, <2>4, FrontLast
    <3>3. FlattenSeq(m) = FlattenSeq(fr) \o la /\ FlattenSeq(fr) \in Seq(Par) /\ la \o s \in Seq(Par)
      BY <1>1, <2>2, <3>2, ConcatProperties
    <3>4. FlattenSeq(Append(fr, la \o s)) = FlattenSeq(fr) \o (la \o s)
      BY <1>1, <3>3
    <3>5. (FlattenSeq(fr) \o la) \o s = FlattenSeq(fr) \o (la \o s)
      BY <2>2, <3>3, TextsAssociative
    <3>6. FlattenSeq(MergeSmallSections(Append(ss, s))) = FlattenSeq(Append(ss, s))
      BY <2>3, <3>1, <3>2, <3>3, <3>4, <3>5
    <3> QED BY <2>3, <3>6
  <2>5. CASE ~ (m # <<>> /\ Joins(Last(m), s))
    <3>1. MergeSmallSections(Append(ss, s)) = Append(m, s)
      BY <1>0, <2>1, <2>5
    <3>2. FlattenSeq(Append(m, s)) = FlattenSeq(m) \o s
      BY <1>1, <2>2
    <3> QED BY <2>3, <3>1, <3>2
  <2> QED BY <2>4, <2>5
<1>4. Seq(Bounded) \subseteq T
  <2> HIDE DEF T
  <2> QED BY <1>2, <1>3, SeqInduction
<1> QED BY <1>0, <1>4

(* splitMarkdownIntoSections: no section is longer than CHUNK_MAX_CHARS unless the
   heading put before it is too long for that, and together they have the text. *)
THEOREM SectionsWhole ==
  ASSUME NEW t \in Seq(Par)
  PROVE  SectionsOf(t) \in Seq(Bounded) /\ Rearranges(FlattenSeq(SectionsOf(t)), t)
<1> DEFINE blocks == Blocks(t, 2)
           split == [n \in DOMAIN blocks |-> SplitOversized(blocks[n])]
<1>1. SectionsOf(t) = MergeSmallSections(FlattenSeq(split))
  BY DEF SectionsOf
<1>2. blocks \in Seq(Some) /\ FlattenSeq(blocks) = t
  BY BlocksWhole
<1> HIDE DEF blocks
<1>3. PICK N \in Nat : N = Len(blocks) /\ DOMAIN blocks = 1 .. N
  BY <1>2, LenProperties
<1>4. ASSUME NEW n \in 1 .. N
      PROVE  split[n] \in Seq(Bounded) /\ split[n] \in Seq(Seq(Par)) /\ Rearranges(FlattenSeq(split[n]), blocks[n])
  <2>1. blocks[n] \in Some /\ split[n] = SplitOversized(blocks[n])
    BY <1>2, <1>3, ElementOfSeq
  <2> HIDE DEF split
  <2>2. split[n] \in Seq(Bounded) /\ Rearranges(FlattenSeq(split[n]), blocks[n])
    BY <2>1, SplitOversizedWhole
  <2> QED BY <2>2, BoundedLaws
<1>5. split \in [1 .. N -> Seq(Bounded)] /\ split \in [1 .. N -> Seq(Seq(Par))]
  BY <1>3, <1>4
<1> HIDE DEF split
<1>6. split \in Seq(Seq(Bounded)) /\ split \in Seq(Seq(Seq(Par))) /\ Len(split) = N
  BY <1>5, FunctionSeq
<1>7. FlattenSeq(split) \in Seq(Bounded)
  BY <1>6, FlattenSteps
<1>8. Rearranges(FlattenSeq(FlattenSeq(split)), FlattenSeq(blocks))
  <2>1. blocks \in Seq(Seq(Par))
    BY <1>2, SeqWider
  <2> QED BY <1>3, <1>4, <1>6, <2>1, FlattenNested
<1> QED BY <1>1, <1>2, <1>7, <1>8, MergeWhole


-----------------------------------------------------------------------------
(* Paragraphs that no split has copied. *)
Plain == [id : Nat, level : Nat, size : Nat, copy : {FALSE}]

(* A text whose paragraphs are numbered is in order, and has each of them once. *)
LEMMA NumberedWhole ==
  ASSUME NEW t \in Seq(Plain)
  PROVE  /\ Numbered(t) \in Seq(Par) /\ InOrder(Numbered(t))
         /\ \A i \in DOMAIN Numbered(t) : i \in Nat /\ Remaining(Numbered(t), i) = Numbered(t)[i].size
<1> DEFINE num == Numbered(t)
<1>1. PICK N \in Nat : N = Len(t) /\ DOMAIN t = 1 .. N
  BY LenProperties
<1>2. ASSUME NEW n \in 1 .. N
      PROVE  num[n] \in Par /\ num[n].id = n /\ ~ num[n].copy /\ num[n].size \in Nat
  <2>1. t[n] \in Plain /\ n \in Nat
    BY <1>1, ElementOfSeq
  <2>2. num[n] = [t[n] EXCEPT !.id = n]
    BY <1>1 DEF Numbered
  <2>3. t[n] = [id |-> t[n].id, level |-> t[n].level, size |-> t[n].size, copy |-> t[n].copy] /\ t[n].copy = FALSE
    BY <2>1 DEF Plain
  <2>4. num[n] = [id |-> n, level |-> t[n].level, size |-> t[n].size, copy |-> FALSE]
    BY <2>2, <2>3
  <2>5. t[n].level \in Nat /\ t[n].size \in Nat
    BY <2>1 DEF Plain
  <2> HIDE DEF num
  <2> QED BY <2>1, <2>4, <2>5 DEF Par
<1>3. num = [i \in 1 .. N |-> num[i]]
  BY <1>1 DEF Numbered
<1> HIDE DEF num
<1>4. num \in [1 .. N -> Par]
  BY <1>2, <1>3
<1>5. num \in Seq(Par) /\ Len(num) = N /\ DOMAIN num = 1 .. N
  BY <1>4, FunctionSeq
<1>6. InOrder(num)
  BY <1>2, <1>5 DEF InOrder
<1>7. ASSUME NEW i \in 1 .. N PROVE Remaining(num, i) = num[i].size
  <2> DEFINE T == {n \in 0 .. N : Remaining(SubSeq(num, 1, n), i) = IF i <= n THEN num[i].size ELSE 0}
  <2>1. /\ SubSeq(num, 1, 0) = <<>> /\ SubSeq(num, 1, N) = num
        /\ \A n \in 0 .. N : SubSeq(num, 1, n) \in Seq(Par)
        /\ \A n \in 1 .. N : SubSeq(num, 1, n) = Append(SubSeq(num, 1, n - 1), num[n])
    BY <1>5, PrefixLaws
  <2>2. /\ Remaining(<<>>, i) = 0
        /\ \A s \in Seq(Par) : Remaining(s, i) \in Nat
        /\ \A s \in Seq(Par), p \in Par :
             Remaining(Append(s, p), i) = (IF p.copy \/ p.id # i THEN Remaining(s, i) ELSE Remaining(s, i) + p.size)
    BY RemainingSteps
  <2>0. 0 \in 0 .. N /\ N \in 0 .. N /\ ~ (i <= 0) /\ i <= N /\ \A n \in 1 .. N : n - 1 \in 0 .. N /\ n \in 0 .. N
    OBVIOUS
  <2>3. 0 \in T
    BY <2>0, <2>1, <2>2
  <2>4. ASSUME NEW n \in 1 .. N, n - 1 \in T PROVE n \in T
    <3>1. PICK s \in Seq(Par) : s = SubSeq(num, 1, n - 1) /\ SubSeq(num, 1, n) = Append(s, num[n])
      BY <2>0, <2>1
    <3>2. Remaining(s, i) = IF i <= n - 1 THEN num[i].size ELSE 0
      BY <2>4, <3>1
    <3>3. Remaining(Append(s, num[n]), i) = IF n # i THEN Remaining(s, i) ELSE Remaining(s, i) + num[n].size
      BY <1>2, <2>2
    <3>4. num[i].size \in Nat
      BY <1>2
    <3>5. Remaining(Append(s, num[n]), i) = IF i <= n THEN num[i].size ELSE 0
      <4> HIDE DEF T
      <4>1. CASE i = n
        BY <3>2, <3>3, <3>4, <4>1
      <4>2. CASE i # n
        <5>1. (i <= n - 1) <=> (i <= n)
          BY <4>2
        <5> QED BY <3>2, <3>3, <4>2, <5>1
      <4> QED BY <4>1, <4>2
    <3> QED BY <2>0, <3>1, <3>5
  <2>5. N \in T
    <3>1. 0 .. N \subseteq T
      <4> HIDE DEF T
      <4> QED BY <2>3, <2>4, InductionTo
    <3> HIDE DEF T
    <3> QED BY <2>0, <3>1
  <2> QED BY <2>0, <2>1, <2>5
<1> QED BY <1>5, <1>6, <1>7 DEF num

(* convertPageToMarkdown: the Markdown of a document has every paragraph once. *)
LEMMA CombinedWhole ==
  ASSUME NEW pages \in Seq(PageTexts)
  PROVE  /\ Combined(pages) \in Seq(Par) /\ InOrder(Combined(pages))
         /\ \A i \in DOMAIN Combined(pages) :
              i \in Nat /\ Remaining(Combined(pages), i) = Combined(pages)[i].size
<1> DEFINE each == [i \in DOMAIN pages |-> PageMarkdown(pages[i])]
<1>1. PICK N \in Nat : N = Len(pages) /\ DOMAIN pages = 1 .. N
  BY LenProperties
<1>2. ASSUME NEW i \in 1 .. N PROVE PageMarkdown(pages[i]) \in Seq(Plain)
  <2>1. pages[i] \in PageTexts
    BY <1>1, ElementOfSeq
  <2>2. pages[i].text \in Seq(Plain)
    BY <2>1 DEF PageTexts, Plain
  <2>3. [MadeUp EXCEPT !.copy = FALSE] \in Plain
    <3>1. PICK m \in Par : m = MadeUp
      BY MadeUpCopy
    <3>2. [m EXCEPT !.copy = FALSE] \in Plain
      BY DEF Par, Plain
    <3> QED BY <3>1, <3>2
  <2>4. <<[MadeUp EXCEPT !.copy = FALSE]>> \in Seq(Plain)
    BY <2>3, Single
  <2>5. <<[MadeUp EXCEPT !.copy = FALSE]>> \o pages[i].text \in Seq(Plain)
    BY <2>2, <2>4, ConcatProperties
  <2> QED BY <2>2, <2>5 DEF PageMarkdown
<1>3. each \in [1 .. N -> Seq(Plain)]
  BY <1>1, <1>2
<1>4. Combined(pages) = Numbered(FlattenSeq(each))
  BY DEF Combined
<1> HIDE DEF each
<1>5. FlattenSeq(each) \in Seq(Plain)
  BY <1>3, FunctionSeq, FlattenSteps
<1> QED BY <1>4, <1>5, NumberedWhole

(* The sections of a document have its Markdown whole, and none is too long but
   for its heading. *)
LEMMA PagesWhole ==
  ASSUME NEW pages \in Seq(PageTexts)
  PROVE  /\ Whole(SectionsOf(Combined(pages)), Combined(pages))
         /\ SectionsOf(Combined(pages)) \in Seq(Bounded)
<1>1. PICK t \in Seq(Par) : /\ t = Combined(pages) /\ InOrder(t)
                            /\ \A i \in DOMAIN t : i \in Nat /\ Remaining(t, i) = t[i].size
  BY CombinedWhole
<1>2. SectionsOf(t) \in Seq(Bounded) /\ Rearranges(FlattenSeq(SectionsOf(t)), t)
  BY SectionsWhole
<1>3. Whole(SectionsOf(t), t)
  BY <1>1, <1>2 DEF Whole, Rearranges
<1> QED BY <1>1, <1>2, <1>3

-----------------------------------------------------------------------------
(* Segments of paths.  The strings that the pipeline itself puts into them are
   named because the provers do not know that they are in STRING. *)
PathSegments == [stem : STRING \cup {"section"}, suffix : STRING \cup {""}, no : Seq(Nat)]

(* Segments are segments of paths. *)
LEMMA SegmentsOfPaths == Segments \subseteq PathSegments /\ Seq(Segments) \subseteq Seq(PathSegments)
<1>1. Segments \subseteq PathSegments
  BY DEF Segments, PathSegments
<1> QED BY <1>1, SeqMonotonic

(* Paths without ".", ".." and empty segments, and those that have an empty one
   at an end. *)
Clean == {path \in Seq(PathSegments) : \A i \in DOMAIN path : ~ Special(path[i])}
Relative ==
  {path \in Seq(PathSegments) :
     \A i \in DOMAIN path : Special(path[i]) => path[i] = Empty /\ i \in {1, Len(path)}}

(* One segment more of a path without those. *)
LEMMA CleanAppend ==
  /\ <<>> \in Clean
  /\ \A path \in Clean, s \in PathSegments : ~ Special(s) => Append(path, s) \in Clean
<1>1. <<>> \in Clean
  BY EmptySeq DEF Clean
<1>2. ASSUME NEW path \in Clean, NEW s \in PathSegments, ~ Special(s) PROVE Append(path, s) \in Clean
  <2>1. path \in Seq(PathSegments) /\ DOMAIN path = 1 .. Len(path) /\ \A i \in 1 .. Len(path) : ~ Special(path[i])
    BY LenProperties DEF Clean
  <2> DEFINE longer == Append(path, s)
  <2>2. /\ longer \in Seq(PathSegments) /\ DOMAIN longer = 1 .. Len(path) + 1
        /\ \A i \in 1 .. Len(path) : longer[i] = path[i]
        /\ longer[Len(path) + 1] = s
    BY <2>1, AppendProperties, LenProperties
  <2>3. Len(path) \in Nat
    BY <2>1, LenProperties
  <2> HIDE DEF longer
  <2>4. \A i \in 1 .. Len(path) + 1 : ~ Special(longer[i])
    BY <1>2, <2>1, <2>2, <2>3
  <2>5. longer \in Clean
    BY <2>2, <2>4 DEF Clean
  <2> QED BY <2>5 DEF longer
<1> QED BY <1>1, <1>2

(* What is kept of a path, one segment more at a time. *)
LEMMA WithoutSpecialSteps ==
  /\ WithoutSpecial(<<>>) = <<>>
  /\ \A t \in Seq(PathSegments) : WithoutSpecial(t) \in Clean
  /\ \A t \in Seq(PathSegments), p \in PathSegments :
       WithoutSpecial(Append(t, p)) = (IF Special(p) THEN WithoutSpecial(t) ELSE Append(WithoutSpecial(t), p))
<1> DEFINE step == [x \in Clean |-> [p \in PathSegments |-> (IF Special(p) THEN x ELSE Append(x, p))]]
<1>1. /\ IsFold(Clean, PathSegments, step, <<>>)
      /\ \A x \in Clean, p \in PathSegments : step[x][p] = (IF Special(p) THEN x ELSE Append(x, p))
  BY CleanAppend DEF IsFold
<1> HIDE DEF step
<1>2. ASSUME NEW t \in Seq(PathSegments) PROVE WithoutSpecial(t) = Run(step, <<>>, t)
  <2> DEFINE Q(h) == h = [s \in SUBSET DOMAIN t |->
                            IF s = {} THEN <<>> ELSE (IF Special(t[Max(s)]) THEN h[s \ {Max(s)}] ELSE Append(h[s \ {Max(s)}], t[Max(s)]))]
             c == CHOOSE h : Q(h)
  <2>1. WithoutSpecial(t) = c[DOMAIN t]
    BY DEF WithoutSpecial, FoldLeft, MapThenFoldSet
  <2>2. PICK N \in Nat : N = Len(t) /\ DOMAIN t = 1 .. N /\ t \in Long(N, PathSegments)
    BY LenProperties DEF Long
  <2>3. \A n \in 1 .. N : t[n] \in PathSegments
    BY <2>2 DEF Long
  <2>4. PICK g : Folds(g, Clean, step, <<>>, t, N)
    BY <1>1, <2>2, FoldExists
  <2>5. Q(g)
    <3>1. /\ g = [s \in SUBSET DOMAIN t |-> g[s]]
          /\ g[{}] = <<>>
          /\ \A s \in SUBSET DOMAIN t : s # {} => g[s] = step[g[s \ {Max(s)}]][t[Max(s)]]
      BY <2>2, <2>4 DEF Folds
    <3>2. \A s \in SUBSET DOMAIN t : s # {} => g[s \ {Max(s)}] \in Clean /\ t[Max(s)] \in PathSegments
      BY <2>2, <2>3, <2>4, MaxOf DEF Folds
    <3>3. \A s \in SUBSET DOMAIN t :
            g[s] = IF s = {} THEN <<>> ELSE (IF Special(t[Max(s)]) THEN g[s \ {Max(s)}] ELSE Append(g[s \ {Max(s)}], t[Max(s)]))
      BY <1>1, <3>1, <3>2
    <3> QED BY <3>1, <3>3
  <2>6. Q(c)
    <3> HIDE DEF Q
    <3> QED BY <2>5
  <2> HIDE DEF c
  <2>7. Unfolds(c, Clean, step, <<>>, t, N)
    <3>1. \A s \in SUBSET (1 .. N) : c[s] = IF s = {} THEN <<>> ELSE (IF Special(t[Max(s)]) THEN c[s \ {Max(s)}] ELSE Append(c[s \ {Max(s)}], t[Max(s)]))
      BY <2>2, <2>6
    <3> HIDE DEF Q
    <3> QED BY <1>1, <2>3, <3>1 DEF Unfolds
  <2> HIDE DEF Q
  <2>8. c[1 .. N] = Run(step, <<>>, t)
    BY <1>1, <2>2, <2>7, FoldIsRun
  <2> QED BY <2>1, <2>2, <2>8
<1>3. <<>> \in Seq(PathSegments) /\ \A t \in Seq(PathSegments), p \in PathSegments : Append(t, p) \in Seq(PathSegments)
  BY AppendProperties, EmptySeq
<1>4. /\ Run(step, <<>>, <<>>) = <<>>
      /\ \A t \in Seq(PathSegments) : Run(step, <<>>, t) \in Clean
      /\ \A t \in Seq(PathSegments), p \in PathSegments : Run(step, <<>>, Append(t, p)) = step[Run(step, <<>>, t)][p]
  BY <1>1, RunSteps
<1>5. ASSUME NEW t \in Seq(PathSegments), NEW p \in PathSegments
      PROVE  WithoutSpecial(Append(t, p)) = (IF Special(p) THEN WithoutSpecial(t) ELSE Append(WithoutSpecial(t), p))
  <2>1. WithoutSpecial(t) = Run(step, <<>>, t) /\ Run(step, <<>>, t) \in Clean
    BY <1>2, <1>4
  <2>2. WithoutSpecial(Append(t, p)) = Run(step, <<>>, Append(t, p))
    BY <1>2, <1>3
  <2>3. Run(step, <<>>, Append(t, p)) = step[WithoutSpecial(t)][p]
    BY <1>4, <2>1
  <2>4. WithoutSpecial(t) \in Clean
    BY <2>1
  <2>5. step[WithoutSpecial(t)][p] = (IF Special(p) THEN WithoutSpecial(t) ELSE Append(WithoutSpecial(t), p))
    BY <1>1, <2>4
  <2> QED BY <2>2, <2>3, <2>5
<1>6. WithoutSpecial(<<>>) = <<>>
  BY <1>2, <1>3, <1>4
<1> QED BY <1>2, <1>4, <1>5, <1>6


(* A path without special segments has none that it may not have. *)
LEMMA CleanRelative == Clean \subseteq Relative
BY DEF Clean, Relative

(* Special segments have no number. *)
LEMMA SpecialBare == \A s : Special(s) => s.no = <<>>
<1>1. \A stem, suffix : Segment(stem, suffix).no = <<>>
  BY DEF Segment
<1> QED BY <1>1 DEF Special, Empty, Parent

(* normalizeRelativeChunkPath: nothing special is left. *)
LEMMA NormalizeWhole ==
  ASSUME NEW path \in Seq(PathSegments)
  PROVE  NormalizeRelativeChunkPath(path) \in Relative
<1>1. WithoutSpecial(path) \in Clean
  BY WithoutSpecialSteps
<1> QED BY <1>1, CleanAppend, CleanRelative DEF NormalizeRelativeChunkPath

(* The segments of a title: the only special one is empty. *)
LEMMA WordsLaws == \A s \in Words : s \in PathSegments /\ (Special(s) => s = Empty)
<1> SUFFICES ASSUME NEW s \in Words PROVE s \in PathSegments /\ (Special(s) => s = Empty)
  OBVIOUS
<1>1. s \in PathSegments
  BY SegmentsOfPaths DEF Words
<1>2. s.stem # "." /\ s.stem # ".."
  BY DEF Words
<1>3. Segment(".", "").stem = "." /\ Segment("..", "").stem = ".."
  BY DEF Segment
<1> QED BY <1>1, <1>2, <1>3 DEF Special, Parent

(* slugifyTitle: only at its ends is the slug of a title empty. *)
LEMMA SlugWhole ==
  ASSUME NEW title \in Seq(Words), title # <<>>
  PROVE  SlugifyTitle(title) \in Relative
<1>1. PICK N \in Nat : N = Len(title) /\ N # 0 /\ DOMAIN title = 1 .. N
  <2>1. Len(title) \in Nat \ {0} /\ DOMAIN title = 1 .. Len(title)
    BY EmptySeq, LenProperties
  <2> QED BY <2>1
<1>2. \A i \in 1 .. N : title[i] \in PathSegments /\ (Special(title[i]) => title[i] = Empty)
  <2>1. \A i \in 1 .. N : title[i] \in Words
    BY <1>1, ElementOfSeq
  <2> QED BY <2>1, WordsLaws
<1>3. title \in Seq(PathSegments)
  <2>1. Words \subseteq PathSegments
    BY WordsLaws
  <2> QED BY <2>1, SeqMonotonic
<1>4. <<>> \in Relative
  BY CleanAppend, CleanRelative
<1>5. CASE N = 1
  <2>1. title \in Relative
    BY <1>1, <1>2, <1>3, <1>5 DEF Relative
  <2> QED BY <1>1, <1>4, <1>5, <2>1 DEF SlugifyTitle
<1>6. CASE N # 1
  <2>1. PICK first \in PathSegments, last \in PathSegments :
          /\ first = Head(title) /\ last = Last(title)
          /\ (Special(first) => first = Empty) /\ (Special(last) => last = Empty)
    <3>1. Head(title) = title[1] /\ 1 \in 1 .. N /\ N \in 1 .. N
      BY <1>1
    <3>2. Last(title) = title[N]
      BY <1>1 DEF Last
    <3> QED BY <1>2, <3>1, <3>2
  <2>2. PICK middle \in Clean : middle = WithoutSpecial(SubSeq(title, 2, Len(title) - 1))
    <3>1. \A i \in 2 .. N - 1 : i \in 1 .. N
      BY <1>1
    <3>2. \A i \in 2 .. N - 1 : title[i] \in PathSegments
      BY <1>2, <3>1
    <3>3. 2 \in Int /\ N - 1 \in Int
      BY <1>1
    <3>4. SubSeq(title, 2, N - 1) \in Seq(PathSegments)
      BY <3>2, <3>3, SubSeqProperties
    <3> QED BY <1>1, <3>4, WithoutSpecialSteps
  <2>3. middle \in Seq(PathSegments) /\ \A i \in DOMAIN middle : ~ Special(middle[i])
    BY DEF Clean
  <2>4. PICK M \in Nat : M = Len(middle) /\ DOMAIN middle = 1 .. M
    BY <2>3, LenProperties
  <2>5. PICK front \in Seq(PathSegments) :
          /\ front = <<first>> \o middle /\ Len(front) = M + 1 /\ front[1] = first
          /\ \A i \in 2 .. M + 1 : ~ Special(front[i])
    <3>1. PICK f : f = <<first>> \o middle
      OBVIOUS
    <3>2. /\ f \in Seq(PathSegments) /\ f # <<>> /\ Head(f) = first /\ Len(f) = M + 1
          /\ \A i \in 2 .. M + 1 : f[i] = middle[i - 1] /\ i - 1 \in 1 .. M
      BY <2>1, <2>3, <2>4, <3>1, Rooted
    <3>3. Head(f) = f[1]
      BY <3>2
    <3>4. \A i \in 1 .. M : ~ Special(middle[i])
      BY <2>3, <2>4
    <3>5. \A i \in 2 .. M + 1 : ~ Special(f[i])
      BY <3>2, <3>4, Zenon
    <3> QED BY <3>1, <3>2, <3>3, <3>5
  <2>6. SlugifyTitle(title) = Append(front, last)
    <3>1. title # <<Empty>> /\ Len(title) # 1
      BY <1>1, <1>6, Single
    <3>2. SlugifyTitle(title) = (<<first>> \o middle) \o <<last>>
      BY <2>1, <2>2, <3>1 DEF SlugifyTitle
    <3> QED BY <2>5, <3>2, AppendIsConcat
  <2>7. PICK slug \in Seq(PathSegments) :
          /\ slug = Append(front, last) /\ Len(slug) = M + 2 /\ DOMAIN slug = 1 .. M + 2
          /\ slug[M + 2] = last /\ \A i \in 1 .. M + 1 : slug[i] = front[i]
    <3>1. PICK f : f = Append(front, last)
      OBVIOUS
    <3>2. /\ f \in Seq(PathSegments) /\ Len(f) = Len(front) + 1 /\ f[Len(front) + 1] = last
          /\ \A i \in 1 .. Len(front) : f[i] = front[i]
      BY <2>1, <3>1, AppendProperties
    <3>3. Len(front) + 1 = M + 2
      BY <2>4, <2>5
    <3>4. DOMAIN f = 1 .. Len(f)
      BY <3>2, LenProperties
    <3> QED BY <2>5, <3>1, <3>2, <3>3, <3>4
  <2>8. ASSUME NEW i \in 1 .. M + 2, Special(slug[i])
        PROVE  slug[i] = Empty /\ i \in {1, M + 2}
    <3>1. CASE i = M + 2
      BY <2>1, <2>7, <2>8, <3>1
    <3>2. CASE i = 1
      BY <2>1, <2>4, <2>5, <2>7, <2>8, <3>2
    <3>3. CASE i \in 2 .. M + 1
      BY <2>5, <2>7, <2>8, <3>3
    <3> QED BY <3>1, <3>2, <3>3
  <2> QED BY <2>6, <2>7, <2>8 DEF Relative
<1> QED BY <1>5, <1>6

(* toRelativeChunkPath: what is left are segments of the path. *)
LEMMA ToRelativeWhole ==
  ASSUME NEW raw \in Seq(PathSegments), NEW base
  PROVE  ToRelativeChunkPath(raw, base) \in Seq(PathSegments)
<1> DEFINE first == {i \in DOMAIN raw : raw[i] # Empty}
           start == IF first = {} THEN Len(raw) + 1 ELSE CHOOSE i \in first : \A j \in first : i <= j
           other == {i \in start .. Len(raw) : raw[i] # base}
           least == CHOOSE i \in other : \A j \in other : i <= j
<1>1. PICK N \in Nat : N = Len(raw) /\ DOMAIN raw = 1 .. N
  BY LenProperties
<1>2. start \in Nat /\ start >= 1
  <2>0. first \in SUBSET Nat /\ \A i \in first : i >= 1
    <3>1. \A i \in DOMAIN raw : i \in Nat /\ i >= 1
      BY <1>1
    <3> QED BY <3>1, Zenon
  <2> HIDE DEF first
  <2>1. CASE first = {}
    BY <1>1, <2>1
  <2>2. CASE first # {}
    <3>2. \E i \in first : \A j \in first : i <= j
      BY <2>0, <2>2, LeastOf
    <3>3. start \in first
      BY <2>2, <3>2
    <3> QED BY <2>0, <3>3
  <2> QED BY <2>1, <2>2
<1>3. ToRelativeChunkPath(raw, base) = IF other = {} THEN <<>> ELSE SubSeq(raw, least, Len(raw))
  BY DEF ToRelativeChunkPath
<1> HIDE DEF start
<1>4. CASE other = {}
  BY <1>3, <1>4, EmptySeq
<1>5. CASE other # {}
  <2>1. other \subseteq 1 .. N /\ other \in SUBSET Nat
    BY <1>1, <1>2
  <2>2. least \in 1 .. N
    <3> HIDE DEF other
    <3>1. \E i \in other : \A j \in other : i <= j
      BY <1>5, <2>1, LeastOf
    <3> QED BY <2>1, <3>1
  <2> HIDE DEF least
  <2>3. \A i \in least .. N : raw[i] \in PathSegments
    BY <1>1, <2>2, ElementOfSeq
  <2>4. SubSeq(raw, least, N) \in Seq(PathSegments)
    BY <2>2, <2>3, SubSeqProperties
  <2> QED BY <1>1, <1>3, <1>5, <2>4
<1> QED BY <1>4, <1>5

(* A number at the end of a path leaves it a path, and different numbers make
   different paths. *)
LEMMA WithNumberWhole ==
  ASSUME NEW path \in Relative, path # <<>>
  PROVE  /\ \A n \in Nat : WithNumber(path, n) \in Relative /\ WithNumber(path, n) # <<>>
         /\ \A m, n \in Nat : WithNumber(path, m) = WithNumber(path, n) => m = n
<1>1. PICK N \in Nat : /\ N = Len(path) /\ DOMAIN path = 1 .. N /\ N \in 1 .. N
                       /\ path \in Seq(PathSegments) /\ \A i \in 1 .. N : path[i] \in PathSegments
                       /\ \A i \in 1 .. N : Special(path[i]) => path[i] = Empty /\ i \in {1, N}
  <2>1. /\ path \in Seq(PathSegments)
        /\ \A i \in DOMAIN path : Special(path[i]) => path[i] = Empty /\ i \in {1, Len(path)}
    BY DEF Relative
  <2>2. Len(path) \in Nat /\ Len(path) # 0 /\ DOMAIN path = 1 .. Len(path)
    BY <2>1, LenProperties, EmptySeq
  <2>3. \A i \in 1 .. Len(path) : path[i] \in PathSegments
    BY <2>1, ElementOfSeq
  <2>4. Len(path) \in 1 .. Len(path)
    BY <2>2
  <2> QED BY <2>1, <2>2, <2>3, <2>4
<1>2. ASSUME NEW n \in Nat
      PROVE  /\ WithNumber(path, n) \in Relative /\ WithNumber(path, n) # <<>>
             /\ WithNumber(path, n)[N].no = Append(path[N].no, n)
  <2> DEFINE last == path[N]
             numbered == [last EXCEPT !.no = Append(@, n)]
             w == [path EXCEPT ![N] = numbered]
  <2>1. WithNumber(path, n) = w
    BY <1>1 DEF WithNumber
  <2>2. last \in PathSegments
    BY <1>1
  <2>3. last.no \in Seq(Nat) /\ Append(last.no, n) \in Seq(Nat)
    <3> HIDE DEF last
    <3>1. last.no \in Seq(Nat)
      BY <2>2 DEF PathSegments
    <3> QED BY <3>1, AppendProperties
  <2>4. numbered \in PathSegments /\ numbered.no = Append(last.no, n)
    <3> HIDE DEF last
    <3> QED BY <2>2, <2>3 DEF PathSegments
  <2> HIDE DEF last, numbered
  <2>5. ~ Special(numbered)
    <3>1. PICK nos \in Seq(Nat) : nos = last.no /\ Append(nos, n) # <<>>
      BY <2>3, AppendProperties
    <3> QED BY <2>4, <3>1, SpecialBare
  <2>6. w \in Seq(PathSegments) /\ Len(w) = N /\ \A i \in 1 .. N : w[i] = IF i = N THEN numbered ELSE path[i]
    BY <1>1, <2>4, ExceptSeq
  <2> HIDE DEF w
  <2>7. DOMAIN w = 1 .. N /\ w # <<>>
    BY <1>1, <2>6, LenProperties, EmptySeq
  <2>8. \A i \in DOMAIN w : Special(w[i]) => w[i] = Empty /\ i \in {1, Len(w)}
    BY <1>1, <2>5, <2>6, <2>7
  <2> QED BY <1>1, <2>1, <2>4, <2>6, <2>7, <2>8 DEF Relative, last
<1>3. ASSUME NEW m \in Nat, NEW n \in Nat, WithNumber(path, m) = WithNumber(path, n) PROVE m = n
  <2>1. Append(path[N].no, m) = Append(path[N].no, n)
    BY <1>2, <1>3
  <2>2. path[N].no \in Seq(Nat)
    BY <1>1 DEF PathSegments
  <2>3. Append(path[N].no, m)[Len(path[N].no) + 1] = m /\ Append(path[N].no, n)[Len(path[N].no) + 1] = n
    BY <2>2, AppendProperties
  <2> QED BY <2>1, <2>3
<1> QED BY <1>2, <1>3

(* ensureUniquePath: the path is one that is not used yet. *)
THEOREM EnsureUniqueWhole ==
  ASSUME NEW path \in Relative, path # <<>>, NEW taken, IsFiniteSet(taken)
  PROVE  /\ EnsureUniquePath(path, taken) \in Relative /\ EnsureUniquePath(path, taken) # <<>>
         /\ EnsureUniquePath(path, taken) \notin taken
<1> DEFINE C == Cardinality(taken)
           tried == 2 .. C + 2
           free == {n \in tried : WithNumber(path, n) \notin taken}
           least == CHOOSE n \in free : \A k \in free : n <= k
<1>1. C \in Nat
  BY FS_CardinalityType
<1>2. CASE path \in taken
  <2>1. free # {}
    <3> SUFFICES ASSUME \A n \in tried : WithNumber(path, n) \in taken PROVE FALSE
      OBVIOUS
    <3> DEFINE f == [n \in tried |-> WithNumber(path, n)]
    <3>1. f \in [tried -> taken]
      OBVIOUS
    <3>2. IsFiniteSet(tried) /\ Cardinality(tried) = C + 1 /\ tried \subseteq Nat
      <4> HIDE DEF C
      <4>1. 2 \in Int /\ C + 2 \in Int /\ ~ (2 > C + 2) /\ (C + 2) - 2 + 1 = C + 1
        BY <1>1
      <4>2. IsFiniteSet(2 .. C + 2) /\ Cardinality(2 .. C + 2) = IF 2 > C + 2 THEN 0 ELSE (C + 2) - 2 + 1
        BY <4>1, FS_Interval
      <4> QED BY <1>1, <4>1, <4>2
    <3>3. Cardinality(taken) < Cardinality(tried)
      BY <1>1, <3>2
    <3> HIDE DEF tried
    <3>4. \E x, y \in tried : x # y /\ f[x] = f[y]
      <4> HIDE DEF f
      <4> QED BY <3>1, <3>2, <3>3, FS_PigeonHole
    <3> QED BY <3>2, <3>4, WithNumberWhole
  <2>2. free \in SUBSET Nat /\ \A n \in free : WithNumber(path, n) \notin taken
    BY <1>1
  <2>3. EnsureUniquePath(path, taken) = WithNumber(path, least)
    BY <1>2 DEF EnsureUniquePath
  <2> HIDE DEF free
  <2>4. least \in free
    <3>1. \E n \in free : \A k \in free : n <= k
      BY <2>1, <2>2, LeastOf
    <3> QED BY <3>1
  <2> HIDE DEF least
  <2> QED BY <2>2, <2>3, <2>4, WithNumberWhole
<1>3. CASE path \notin taken
  BY <1>3 DEF EnsureUniquePath
<1> QED BY <1>2, <1>3

(* The path of a section is below the document, and no other chunk has it. *)
LEMMA ChunkPathWhole ==
  ASSUME NEW label \in Seq(PathSegments), NEW title \in Seq(Words) \ {<<>>}, NEW n \in Nat,
         NEW base, NEW taken, IsFiniteSet(taken)
  PROVE  /\ ChunkPath(label, title, n, base, taken) \in Relative /\ ChunkPath(label, title, n, base, taken) # <<>>
         /\ ChunkPath(label, title, n, base, taken) \notin taken
<1> DEFINE proposed == NormalizeRelativeChunkPath(ToRelativeChunkPath(label, base))
           slug == SlugifyTitle(title)
           section == [Segment("section", "") EXCEPT !.no = <<n>>]
           relative == IF proposed # <<>> THEN proposed ELSE IF slug # <<>> THEN slug ELSE <<section>>
<1>1. proposed \in Relative /\ slug \in Relative
  BY ToRelativeWhole, NormalizeWhole, SlugWhole
<1>2. <<section>> \in Relative /\ <<section>> # <<>>
  <2>0. PICK s \in PathSegments : s = Segment("section", "")
    <3>1. <<>> \in Seq(Nat)
      BY EmptySeq
    <3>3. [stem |-> "section", suffix |-> "", no |-> <<>>] \in PathSegments
      BY <3>1 DEF PathSegments
    <3> QED BY <3>3, Zenon DEF Segment
  <2>1. <<n>> \in Seq(Nat) /\ <<n>> # <<>>
    BY Single
  <2>2. section \in PathSegments /\ ~ Special(section)
    <3>1. [s EXCEPT !.no = <<n>>] \in PathSegments /\ [s EXCEPT !.no = <<n>>].no = <<n>>
      BY <2>0, <2>1 DEF PathSegments
    <3> QED BY <2>0, <2>1, <3>1, SpecialBare
  <2> HIDE DEF section
  <2> QED BY <2>2, CleanAppend, CleanRelative, Single
<1>3. ChunkPath(label, title, n, base, taken) = EnsureUniquePath(relative, taken)
  BY DEF ChunkPath
<1> HIDE DEF proposed, slug, section
<1>4. relative \in Relative /\ relative # <<>>
  BY <1>1, <1>2
<1> HIDE DEF relative
<1> QED BY <1>3, <1>4, EnsureUniqueWhole

-----------------------------------------------------------------------------
(* Chunks, the paths below a document, and a chunk more behind others. *)
Chunks == [path : Seq(PathSegments) \ {<<>>}, content : Seq(Par)]
Under(base) ==
  {path \in Seq(PathSegments) : Len(path) > 1 /\ Head(path) = base /\ Tail(path) \in Relative}
Others(x) == {Tail(c.path) : c \in ToSet(x)}
NextChunk(x, n, base, sections, labels, titles) ==
  [path |-> <<base>> \o ChunkPath(labels[n], titles[n], n, base, Others(x)), content |-> sections[n]]
Overview(base) == [path |-> <<base>>, content |-> <<>>]
Start(base) == <<Overview(base)>>
Assembly(t, base, sections, labels, titles) ==
  FoldLeft(LAMBDA chs, n : Append(chs, [path |-> <<base>> \o ChunkPath(labels[n], titles[n], n, base,
                                                               {Tail(c.path) : c \in ToSet(chs)}),
                                        content |-> sections[n]]),
           <<[path |-> <<base>>, content |-> <<>>]>>, t)

(* A chunk for the n-th section, with a path that no other chunk has. *)
IsNext(c, x, n, base, sections) ==
  /\ c \in Chunks /\ c.path \in Under(base) /\ c.content = sections[n]
  /\ \A o \in ToSet(x) : o.path # c.path

(* The paths that are taken are finitely many. *)
LEMMA OthersFinite ==
  ASSUME NEW x \in Seq(Chunks)
  PROVE  IsFiniteSet(Others(x))
<1>1. PICK N \in Nat : N = Len(x) /\ DOMAIN x = 1 .. N
  BY LenProperties
<1> DEFINE f == [i \in 1 .. N |-> Tail(x[i].path)]
<1>2. f \in Surjection(1 .. N, Others(x))
  BY <1>1 DEF Others, ToSet, Surjection
<1>3. IsFiniteSet(1 .. N)
  BY FS_Interval
<1> HIDE DEF f
<1> QED BY <1>2, <1>3, FS_Surjection

(* The next chunk is one. *)
LEMMA NextChunkWhole ==
  ASSUME NEW base \in PathSegments, NEW N \in Nat, NEW sections \in [1 .. N -> Seq(Par)],
         NEW labels \in [1 .. N -> Seq(PathSegments)], NEW titles \in [1 .. N -> Seq(Words) \ {<<>>}], NEW x \in Seq(Chunks), NEW n \in 1 .. N
  PROVE  IsNext(NextChunk(x, n, base, sections, labels, titles), x, n, base, sections)
<1>1. PICK relative : relative = ChunkPath(labels[n], titles[n], n, base, Others(x))
  OBVIOUS
<1>2. relative \in Relative /\ relative # <<>> /\ relative \notin Others(x)
  <2>1. labels[n] \in Seq(PathSegments) /\ titles[n] \in Seq(Words) \ {<<>>} /\ n \in Nat /\ IsFiniteSet(Others(x))
    BY OthersFinite
  <2> QED BY <1>1, <2>1, ChunkPathWhole
<1>3. PICK path : path = <<base>> \o relative
  OBVIOUS
<1>4. path \in Seq(PathSegments) /\ path # <<>> /\ Tail(path) = relative /\ path \in Under(base)
  <2>1. relative \in Seq(PathSegments)
    BY <1>2 DEF Relative
  <2>2. PICK L \in Nat : L = Len(relative) /\ L # 0 /\ L + 1 > 1
    <3>1. Len(relative) \in Nat \ {0}
      BY <1>2, <2>1, EmptySeq
    <3> QED BY <3>1
  <2>3. /\ path \in Seq(PathSegments) /\ path # <<>> /\ Tail(path) = relative /\ Head(path) = base
        /\ Len(path) = L + 1
    BY <1>3, <2>1, <2>2, Rooted
  <2>4. Len(path) > 1 /\ Tail(path) \in Relative
    BY <1>2, <2>2, <2>3
  <2>5. path \in Under(base)
    BY <2>3, <2>4 DEF Under
  <2> QED BY <2>3, <2>5
<1>5. NextChunk(x, n, base, sections, labels, titles) = [path |-> path, content |-> sections[n]]
  BY <1>1, <1>3 DEF NextChunk
<1>6. \A c \in ToSet(x) : c.path # path
  BY <1>2, <1>4 DEF Others
<1> QED BY <1>4, <1>5, <1>6 DEF Chunks, IsNext

(* What the chunks of M sections are made of. *)
Material(M, base, sections, labels, titles) ==
  /\ base \in PathSegments /\ M \in Nat /\ sections \in [1 .. M -> Seq(Par)]
  /\ labels \in [1 .. M -> Seq(PathSegments)] /\ titles \in [1 .. M -> Seq(Words) \ {<<>>}]

(* The chunks of a document, one section more at a time. *)
LEMMA AssemblySteps ==
  ASSUME NEW base, NEW M, NEW sections, NEW labels, NEW titles, Material(M, base, sections, labels, titles)
  PROVE  /\ Assembly(<<>>, base, sections, labels, titles) = Start(base)
         /\ \A t \in Seq((1 .. M)) : Assembly(t, base, sections, labels, titles) \in Seq(Chunks)
         /\ \A t \in Seq((1 .. M)), p \in (1 .. M) :
              Assembly(Append(t, p), base, sections, labels, titles) = Append(Assembly(t, base, sections, labels, titles), NextChunk(Assembly(t, base, sections, labels, titles), p, base, sections, labels, titles))
<1> DEFINE step == [x \in Seq(Chunks) |-> [p \in (1 .. M) |-> Append(x, NextChunk(x, p, base, sections, labels, titles))]]
<1>1. /\ IsFold(Seq(Chunks), (1 .. M), step, Start(base))
      /\ \A x \in Seq(Chunks), p \in (1 .. M) : step[x][p] = Append(x, NextChunk(x, p, base, sections, labels, titles))
  <2>0. /\ base \in PathSegments /\ M \in Nat /\ sections \in [1 .. M -> Seq(Par)]
        /\ labels \in [1 .. M -> Seq(PathSegments)] /\ titles \in [1 .. M -> Seq(Words) \ {<<>>}]
    BY DEF Material
  <2>1. \A x \in Seq(Chunks), p \in 1 .. M : Append(x, NextChunk(x, p, base, sections, labels, titles)) \in Seq(Chunks)
    BY <2>0, NextChunkWhole, AppendProperties DEF IsNext
  <2>2. Overview(base) \in Chunks
    <3>1. <<base>> \in Seq(PathSegments) \ {<<>>} /\ <<>> \in Seq(Par)
      BY <2>0, Single, EmptySeq
    <3> QED BY <3>1 DEF Overview, Chunks
  <2>3. Start(base) \in Seq(Chunks)
    BY <2>2, Single DEF Start
  <2> QED BY <2>1, <2>3 DEF IsFold
<1> HIDE DEF step
<1>2. ASSUME NEW t \in Seq((1 .. M)) PROVE Assembly(t, base, sections, labels, titles) = Run(step, Start(base), t)
  <2> DEFINE Q(h) == h = [s \in SUBSET DOMAIN t |->
                            IF s = {} THEN Start(base) ELSE Append(h[s \ {Max(s)}], NextChunk(h[s \ {Max(s)}], t[Max(s)], base, sections, labels, titles))]
             c == CHOOSE h : Q(h)
  <2>1. Assembly(t, base, sections, labels, titles) = c[DOMAIN t]
    BY DEF Assembly, NextChunk, Others, Overview, Start, FoldLeft, MapThenFoldSet
  <2>2. PICK N \in Nat : N = Len(t) /\ DOMAIN t = 1 .. N /\ t \in Long(N, (1 .. M))
    BY LenProperties DEF Long
  <2>3. \A n \in 1 .. N : t[n] \in (1 .. M)
    BY <2>2 DEF Long
  <2>4. PICK g : Folds(g, Seq(Chunks), step, Start(base), t, N)
    BY <1>1, <2>2, FoldExists
  <2>5. Q(g)
    <3>1. /\ g = [s \in SUBSET DOMAIN t |-> g[s]]
          /\ g[{}] = Start(base)
          /\ \A s \in SUBSET DOMAIN t : s # {} => g[s] = step[g[s \ {Max(s)}]][t[Max(s)]]
      BY <2>2, <2>4 DEF Folds
    <3>2. \A s \in SUBSET DOMAIN t : s # {} => g[s \ {Max(s)}] \in Seq(Chunks) /\ t[Max(s)] \in (1 .. M)
      BY <2>2, <2>3, <2>4, MaxOf DEF Folds
    <3>3. \A s \in SUBSET DOMAIN t :
            g[s] = IF s = {} THEN Start(base) ELSE Append(g[s \ {Max(s)}], NextChunk(g[s \ {Max(s)}], t[Max(s)], base, sections, labels, titles))
      BY <1>1, <3>1, <3>2
    <3> QED BY <3>1, <3>3
  <2>6. Q(c)
    <3> HIDE DEF Q
    <3> QED BY <2>5
  <2> HIDE DEF c
  <2>7. Unfolds(c, Seq(Chunks), step, Start(base), t, N)
    <3>1. \A s \in SUBSET (1 .. N) : c[s] = IF s = {} THEN Start(base) ELSE Append(c[s \ {Max(s)}], NextChunk(c[s \ {Max(s)}], t[Max(s)], base, sections, labels, titles))
      BY <2>2, <2>6
    <3> HIDE DEF Q
    <3> QED BY <1>1, <2>3, <3>1 DEF Unfolds
  <2> HIDE DEF Q
  <2>8. c[1 .. N] = Run(step, Start(base), t)
    BY <1>1, <2>2, <2>7, FoldIsRun
  <2> QED BY <2>1, <2>2, <2>8
<1>3. <<>> \in Seq((1 .. M)) /\ \A t \in Seq((1 .. M)), p \in (1 .. M) : Append(t, p) \in Seq((1 .. M))
  BY AppendProperties, EmptySeq
<1>4. /\ Run(step, Start(base), <<>>) = Start(base)
      /\ \A t \in Seq((1 .. M)) : Run(step, Start(base), t) \in Seq(Chunks)
      /\ \A t \in Seq((1 .. M)), p \in (1 .. M) : Run(step, Start(base), Append(t, p)) = step[Run(step, Start(base), t)][p]
  BY <1>1, RunSteps DEF Material
<1>5. ASSUME NEW t \in Seq((1 .. M)), NEW p \in (1 .. M)
      PROVE  Assembly(Append(t, p), base, sections, labels, titles) = Append(Assembly(t, base, sections, labels, titles), NextChunk(Assembly(t, base, sections, labels, titles), p, base, sections, labels, titles))
  <2>1. Assembly(t, base, sections, labels, titles) = Run(step, Start(base), t) /\ Run(step, Start(base), t) \in Seq(Chunks)
    BY <1>2, <1>4
  <2>2. Assembly(Append(t, p), base, sections, labels, titles) = Run(step, Start(base), Append(t, p))
    BY <1>2, <1>3
  <2>3. Run(step, Start(base), Append(t, p)) = step[Assembly(t, base, sections, labels, titles)][p]
    BY <1>4, <2>1
  <2>4. Assembly(t, base, sections, labels, titles) \in Seq(Chunks)
    BY <2>1
  <2>5. step[Assembly(t, base, sections, labels, titles)][p] = Append(Assembly(t, base, sections, labels, titles), NextChunk(Assembly(t, base, sections, labels, titles), p, base, sections, labels, titles))
    BY <1>1, <2>4
  <2> QED BY <2>2, <2>3, <2>5
<1>6. Assembly(<<>>, base, sections, labels, titles) = Start(base)
  BY <1>2, <1>3, <1>4
<1> QED BY <1>2, <1>4, <1>5, <1>6


(* The chunks of a document after n of its sections: the overview, and a chunk
   for each of those, with paths that differ. *)
Assembled(x, n, base, sections) ==
  /\ x \in Seq(Chunks) /\ Len(x) = n + 1 /\ x[1] = Overview(base)
  /\ \A k \in 2 .. n + 1 : x[k].path \in Under(base) /\ x[k].content = sections[k - 1]
  /\ \A j, k \in 1 .. n + 1 : x[j].path = x[k].path => j = k

(* A chunk more keeps them so. *)
LEMMA AssembledNext ==
  ASSUME NEW base \in PathSegments, NEW N \in Nat, NEW sections \in [1 .. N -> Seq(Par)],
         NEW labels \in [1 .. N -> Seq(PathSegments)], NEW titles \in [1 .. N -> Seq(Words) \ {<<>>}], NEW n \in 1 .. N, NEW x,
         Assembled(x, n - 1, base, sections)
  PROVE  Assembled(Append(x, NextChunk(x, n, base, sections, labels, titles)), n, base, sections)
<1>1. x \in Seq(Chunks) /\ Len(x) = n /\ n \in Nat /\ n - 1 + 1 = n
  BY DEF Assembled
<1>2. PICK c \in Chunks : /\ c = NextChunk(x, n, base, sections, labels, titles)
                          /\ c.path \in Under(base) /\ c.content = sections[n]
                          /\ \A o \in ToSet(x) : o.path # c.path
  <2>1. IsNext(NextChunk(x, n, base, sections, labels, titles), x, n, base, sections)
    BY <1>1, NextChunkWhole
  <2> QED BY <2>1 DEF IsNext
<1> DEFINE y == Append(x, c)
<1>3. /\ y \in Seq(Chunks) /\ Len(y) = n + 1 /\ y[n + 1] = c
      /\ \A k \in 1 .. n : y[k] = x[k] /\ x[k] \in ToSet(x)
  <2>1. DOMAIN x = 1 .. n
    BY <1>1, LenProperties
  <2>2. \A k \in 1 .. n : x[k] \in ToSet(x)
    BY <2>1 DEF ToSet
  <2> QED BY <1>1, <2>2, AppendProperties
<1> HIDE DEF y
<1>4. 1 \in 1 .. n /\ \A k \in 1 .. n + 1 : k \in 1 .. n \/ k = n + 1
  OBVIOUS
<1>5. y[1] = Overview(base)
  BY <1>3, <1>4 DEF Assembled
<1>6. ASSUME NEW k \in 2 .. n + 1 PROVE y[k].path \in Under(base) /\ y[k].content = sections[k - 1]
  <2>1. CASE k = n + 1
    BY <1>1, <1>2, <1>3, <2>1
  <2>2. CASE k # n + 1
    <3>1. k \in 2 .. (n - 1) + 1 /\ k \in 1 .. n
      BY <2>2
    <3> QED BY <1>3, <3>1 DEF Assembled
  <2> QED BY <2>1, <2>2
<1>7. ASSUME NEW j \in 1 .. n + 1, NEW k \in 1 .. n + 1, y[j].path = y[k].path PROVE j = k
  <2>1. CASE j \in 1 .. n /\ k \in 1 .. n
    <3>1. x[j].path = x[k].path
      BY <1>3, <1>7, <2>1
    <3> QED BY <1>1, <2>1, <3>1 DEF Assembled
  <2>2. CASE j = n + 1 /\ k \in 1 .. n
    BY <1>2, <1>3, <1>7, <2>2
  <2>3. CASE j \in 1 .. n /\ k = n + 1
    BY <1>2, <1>3, <1>7, <2>3
  <2> QED BY <1>4, <2>1, <2>2, <2>3
<1>8. Assembled(y, n, base, sections)
  BY <1>3, <1>5, <1>6, <1>7 DEF Assembled
<1> QED BY <1>2, <1>8 DEF y

(* assembleChunkArtifacts: all of them. *)
LEMMA AssembleWhole ==
  ASSUME NEW base \in PathSegments, NEW sections \in Seq(Seq(Par)),
         NEW labels \in [DOMAIN sections -> Seq(PathSegments)],
         NEW titles \in [DOMAIN sections -> Seq(Words) \ {<<>>}]
  PROVE  Assembled(Assemble(base, sections, labels, titles), Len(sections), base, sections)
<1>1. PICK N \in Nat : N = Len(sections) /\ DOMAIN sections = 1 .. N /\ sections \in [1 .. N -> Seq(Par)]
  BY LenProperties
<1>2. labels \in [1 .. N -> Seq(PathSegments)] /\ titles \in [1 .. N -> Seq(Words) \ {<<>>}]
  BY <1>1
<1> DEFINE numbers == [n \in 1 .. N |-> n]
           A(n) == Assembly(SubSeq(numbers, 1, n), base, sections, labels, titles)
           T == {n \in 0 .. N : Assembled(A(n), n, base, sections)}
<1>3. numbers \in Seq(1 .. N) /\ Len(numbers) = N /\ \A n \in 1 .. N : numbers[n] = n
  <2>1. numbers \in [1 .. N -> 1 .. N]
    OBVIOUS
  <2> QED BY <2>1, FunctionSeq
<1>4. Assemble(base, sections, labels, titles) = Assembly(numbers, base, sections, labels, titles)
  BY <1>1 DEF Assemble, Assembly
<1> HIDE DEF numbers
<1>5. /\ SubSeq(numbers, 1, 0) = <<>> /\ SubSeq(numbers, 1, N) = numbers
      /\ \A n \in 0 .. N : SubSeq(numbers, 1, n) \in Seq(1 .. N)
      /\ \A n \in 1 .. N : SubSeq(numbers, 1, n) = Append(SubSeq(numbers, 1, n - 1), n)
  BY <1>3, PrefixLaws
<1>6. /\ Assembly(<<>>, base, sections, labels, titles) = Start(base)
      /\ \A t \in Seq(1 .. N) : Assembly(t, base, sections, labels, titles) \in Seq(Chunks)
      /\ \A t \in Seq(1 .. N), p \in 1 .. N :
           Assembly(Append(t, p), base, sections, labels, titles)
             = Append(Assembly(t, base, sections, labels, titles),
                      NextChunk(Assembly(t, base, sections, labels, titles), p, base, sections, labels, titles))
  <2>1. Material(N, base, sections, labels, titles)
    BY <1>1, <1>2 DEF Material
  <2> QED BY <2>1, AssemblySteps
<1>7. 0 \in 0 .. N /\ N \in 0 .. N /\ \A n \in 1 .. N : n - 1 \in 0 .. N /\ n \in 0 .. N
  OBVIOUS
<1>8. 0 \in T
  <2>1. A(0) = Start(base) /\ A(0) \in Seq(Chunks)
    BY <1>5, <1>6, <1>7
  <2>2. Len(A(0)) = 1 /\ A(0)[1] = Overview(base)
    BY <2>1 DEF Start
  <2>3. 2 .. 0 + 1 = {} /\ 1 .. 0 + 1 = {1}
    OBVIOUS
  <2> HIDE DEF A
  <2> QED BY <1>7, <2>1, <2>2, <2>3 DEF Assembled
<1>9. ASSUME NEW n \in 1 .. N, n - 1 \in T PROVE n \in T
  <2>1. A(n) = Append(A(n - 1), NextChunk(A(n - 1), n, base, sections, labels, titles))
    BY <1>5, <1>6, <1>7
  <2>2. Assembled(A(n - 1), n - 1, base, sections)
    BY <1>9
  <2>3. PICK x : x = A(n - 1) /\ A(n) = Append(x, NextChunk(x, n, base, sections, labels, titles))
    BY <2>1
  <2> HIDE DEF A
  <2>4. Assembled(x, n - 1, base, sections)
    BY <2>2, <2>3
  <2>5. Assembled(Append(x, NextChunk(x, n, base, sections, labels, titles)), n, base, sections)
    BY <1>1, <1>2, <2>4, AssembledNext
  <2> QED BY <1>7, <2>3, <2>5
<1>10. 0 .. N \subseteq T
  <2> HIDE DEF T
  <2> QED BY <1>8, <1>9, InductionTo
<1> QED BY <1>1, <1>4, <1>5, <1>7, <1>10

-----------------------------------------------------------------------------
(* What is published of a document: its name above paths that differ, and
   sections that have its Markdown. *)
Body(x) == [n \in 1 .. Len(x) - 1 |-> x[n + 1].content]
Complete(d) ==
  chunks[d] # <<>> =>
    /\ Assembled(chunks[d], Len(chunks[d]) - 1, NameOf[d], Body(chunks[d]))
    /\ Body(chunks[d]) \in Seq(Bounded)
    /\ Whole(Body(chunks[d]), text[d])

(* Paths below a document have nothing special below its name, unless they are
   empty at an end there. *)
LEMMA UnderLaws ==
  ASSUME NEW base, NEW path \in Under(base)
  PROVE  /\ Len(path) > 1 /\ Head(path) = base
         /\ \A i \in 2 .. Len(path) : Special(path[i]) => path[i] = Empty /\ i \in {2, Len(path)}
<1>1. PICK N \in Nat : /\ N = Len(path) /\ path \in Seq(PathSegments) /\ N > 1 /\ Head(path) = base
                       /\ path # <<>> /\ Tail(path) \in Relative
  <2>1. path \in Seq(PathSegments) /\ Len(path) > 1 /\ Head(path) = base /\ Tail(path) \in Relative
    BY DEF Under
  <2> QED BY <2>1, LenProperties, EmptySeq
<1>2. PICK rest \in Relative : rest = Tail(path) /\ Len(rest) = N - 1 /\ \A j \in 1 .. N - 1 : rest[j] = path[j + 1]
  BY <1>1, HeadTailProperties
<1>3. \A j \in 1 .. N - 1 : Special(rest[j]) => rest[j] = Empty /\ j \in {1, N - 1}
  <2>1. DOMAIN rest = 1 .. N - 1
    BY <1>2, LenProperties DEF Relative
  <2> QED BY <1>2, <2>1 DEF Relative
<1>4. ASSUME NEW i \in 2 .. N, Special(path[i]) PROVE path[i] = Empty /\ i \in {2, N}
  <2>1. i - 1 \in 1 .. N - 1 /\ (i - 1) + 1 = i
    BY <1>1
  <2>2. rest[i - 1] = path[i]
    BY <1>2, <2>1
  <2>3. path[i] = Empty /\ i - 1 \in {1, N - 1}
    BY <1>3, <1>4, <2>1, <2>2
  <2> QED BY <1>1, <2>3
<1> QED BY <1>1, <1>4

(* As many paths as there are chunks, if they differ. *)
LEMMA PathsDiffer ==
  ASSUME NEW N \in Nat, NEW paths \in [1 .. N -> Seq(PathSegments)],
         \A j, k \in 1 .. N : paths[j] = paths[k] => j = k
  PROVE  Cardinality(ToSet(paths)) = N /\ Len(paths) = N
<1>1. paths \in Surjection(1 .. N, ToSet(paths)) /\ paths \in Injection(1 .. N, ToSet(paths))
  BY DEF ToSet, Surjection, Injection, IsInjective
<1>2. IsFiniteSet(1 .. N) /\ Cardinality(1 .. N) = N
  BY FS_Interval
<1>3. Cardinality(ToSet(paths)) = N
  BY <1>1, <1>2, FS_Surjection
<1> QED BY <1>3, FunctionSeq

(* What is published of every document is whole. *)
LEMMA CompleteIsWhole ==
  ASSUME \A d \in Doc : Complete(d)
  PROVE  PublishedIsWhole
<1> SUFFICES ASSUME NEW d \in Doc, chunks[d] # <<>>
             PROVE  LET sections == [n \in 1 .. Len(chunks[d]) - 1 |-> chunks[d][n + 1].content]
                        paths == PathsOf(d)
                    IN /\ Whole(sections, text[d])
                       /\ \A n \in DOMAIN sections : Fitting(sections[n])
                       /\ paths[1] = Root(d) /\ Cardinality(ToSet(paths)) = Len(paths)
                       /\ \A n \in 2 .. Len(paths) : /\ Len(paths[n]) > 1 /\ Head(paths[n]) = NameOf[d]
                                                      /\ \A i \in 2 .. Len(paths[n]) :
                                                           Special(paths[n][i]) => paths[n][i] = Empty /\ i \in {2, Len(paths[n])}
  BY DEF PublishedIsWhole
<1>1. PICK x : x = chunks[d]
  OBVIOUS
<1>2. /\ Assembled(x, Len(x) - 1, NameOf[d], Body(x))
      /\ Body(x) \in Seq(Bounded) /\ Whole(Body(x), text[d])
  BY <1>1 DEF Complete
<1>3. PICK N \in Nat : N = Len(x) - 1 /\ Len(x) = N + 1 /\ DOMAIN x = 1 .. N + 1 /\ x \in Seq(Chunks)
  <2>1. x \in Seq(Chunks) /\ x # <<>>
    BY <1>1, <1>2 DEF Assembled
  <2>2. Len(x) \in Nat /\ DOMAIN x = 1 .. Len(x)
    BY <2>1, LenProperties
  <2>3. PICK L \in Nat : L = Len(x) /\ L # 0
    <3>1. Len(x) \in Nat \ {0}
      BY <2>1, EmptySeq
    <3> QED BY <3>1
  <2>4. L - 1 \in Nat /\ L = (L - 1) + 1
    BY <2>3
  <2> QED BY <2>1, <2>2, <2>3, <2>4
<1>0. Assembled(x, N, NameOf[d], Body(x))
  BY <1>2, <1>3
<1>4. DOMAIN Body(x) = 1 .. N
  BY <1>3 DEF Body
<1>5. ASSUME NEW n \in 1 .. N PROVE Fitting(Body(x)[n])
  <2>1. n \in 1 .. Len(Body(x))
    <3>1. DOMAIN Body(x) = 1 .. Len(Body(x))
      BY <1>2, LenProperties
    <3> QED BY <1>4, <3>1
  <2>2. Body(x)[n] \in Bounded
    BY <1>2, <2>1, ElementOfSeq
  <2> QED BY <2>2 DEF Bounded
<1> DEFINE paths == PathsOf(d)
<1>6. /\ paths \in [1 .. N + 1 -> Seq(PathSegments)]
      /\ \A n \in 1 .. N + 1 : paths[n] = x[n].path
  <2>1. paths = [n \in 1 .. N + 1 |-> x[n].path]
    BY <1>1, <1>3 DEF PathsOf
  <2>2. \A n \in 1 .. N + 1 : x[n].path \in Seq(PathSegments)
    <3>1. \A n \in 1 .. N + 1 : x[n] \in Chunks
      BY <1>3, ElementOfSeq
    <3> QED BY <3>1 DEF Chunks
  <2> HIDE DEF paths
  <2> QED BY <2>1, <2>2
<1> HIDE DEF paths
<1>7. 1 \in 1 .. N + 1 /\ N + 1 \in Nat /\ \A n \in 2 .. N + 1 : n \in 1 .. N + 1
  OBVIOUS
<1>8. paths[1] = Root(d)
  BY <1>0, <1>6, <1>7 DEF Assembled, Overview, Root
<1>9. Cardinality(ToSet(paths)) = N + 1 /\ Len(paths) = N + 1
  <2>1. \A j, k \in 1 .. N + 1 : paths[j] = paths[k] => j = k
    BY <1>0, <1>6 DEF Assembled
  <2> QED BY <1>6, <1>7, <2>1, PathsDiffer
<1>10. ASSUME NEW n \in 2 .. N + 1
       PROVE  /\ Len(paths[n]) > 1 /\ Head(paths[n]) = NameOf[d]
              /\ \A i \in 2 .. Len(paths[n]) :
                                                           Special(paths[n][i]) => paths[n][i] = Empty /\ i \in {2, Len(paths[n])}
  <2>1. paths[n] \in Under(NameOf[d])
    BY <1>0, <1>6, <1>7 DEF Assembled
  <2> QED BY <2>1, UnderLaws
<1> QED BY <1>1, <1>2, <1>4, <1>5, <1>8, <1>9, <1>10 DEF Body, paths

(* Processing a document publishes it whole. *)
LEMMA AssembledComplete ==
  ASSUME NEW d \in Doc, NEW pages \in Pages[d],
         NEW labels \in [DOMAIN SectionsOf(Combined(pages)) -> Label[d]],
         NEW titles \in [DOMAIN SectionsOf(Combined(pages)) -> Titles[d]], NEW x,
         x = Assemble(NameOf[d], SectionsOf(Combined(pages)), labels, titles)
  PROVE  /\ Assembled(x, Len(x) - 1, NameOf[d], Body(x)) /\ x \in Seq(Chunks)
         /\ Body(x) \in Seq(Bounded) /\ Whole(Body(x), Combined(pages))
         /\ Combined(pages) \in Seq(Par)
<1>1. /\ pages \in Seq(PageTexts) /\ NameOf[d] \in PathSegments /\ Label[d] \subseteq Seq(PathSegments)
      /\ Titles[d] \subseteq Seq(Words) \ {<<>>}
  BY RetrievalAssumption, SegmentsOfPaths
<1>2. PICK whole \in Seq(Par) : whole = Combined(pages)
  BY <1>1, CombinedWhole
<1>3. PICK sections \in Seq(Bounded) : sections = SectionsOf(whole) /\ Whole(sections, whole)
  BY <1>1, <1>2, PagesWhole
<1>4. sections \in Seq(Seq(Par))
  BY <1>3, BoundedLaws
<1>5. labels \in [DOMAIN sections -> Seq(PathSegments)] /\ titles \in [DOMAIN sections -> Seq(Words) \ {<<>>}]
  BY <1>1, <1>2, <1>3
<1>6. Assembled(x, Len(sections), NameOf[d], sections)
  BY <1>1, <1>2, <1>3, <1>4, <1>5, AssembleWhole
<1>7. PICK N \in Nat : N = Len(sections) /\ DOMAIN sections = 1 .. N
  BY <1>4, LenProperties
<1>8. x \in Seq(Chunks) /\ Len(x) = N + 1 /\ Len(x) - 1 = N
  BY <1>6, <1>7 DEF Assembled
<1>9. Body(x) = sections
  <2>1. ASSUME NEW n \in 1 .. N PROVE x[n + 1].content = sections[n]
    <3>1. n + 1 \in 2 .. N + 1 /\ (n + 1) - 1 = n
      OBVIOUS
    <3> QED BY <1>6, <1>7, <3>1 DEF Assembled
  <2>2. Body(x) = [n \in 1 .. N |-> sections[n]]
    BY <1>8, <2>1 DEF Body
  <2>3. sections = [n \in 1 .. N |-> sections[n]]
    BY <1>4, <1>7, LenProperties
  <2> QED BY <2>2, <2>3
<1> QED BY <1>2, <1>3, <1>6, <1>7, <1>8, <1>9

-----------------------------------------------------------------------------
(* Paths of chunks, and chunks that are found under them. *)
Paths == Seq(PathSegments) \ {<<>>}
Finds == [path : Paths, hit : Readable]
Find(p) == [path |-> p, hit |-> CHOOSE c \in Hits(p) : TRUE]

(* The first segment of a path is a path. *)
LEMMA HeadPath ==
  ASSUME NEW p \in Paths
  PROVE  Head(p) \in PathSegments /\ <<Head(p)>> \in Paths /\ Head(<<Head(p)>>) = Head(p)
<1>1. p \in Seq(PathSegments) /\ p # <<>>
  BY DEF Paths
<1>2. PICK h \in PathSegments : h = Head(p)
  BY <1>1, HeadTailProperties
<1>3. <<h>> \in Seq(PathSegments) /\ <<h>> # <<>> /\ Head(<<h>>) = h
  BY Single
<1> QED BY <1>2, <1>3 DEF Paths

(* The elements of a sequence, and of one that is longer by one. *)
LEMMA Elements ==
  ASSUME NEW S, NEW s \in Seq(S)
  PROVE  /\ ToSet(s) \subseteq S
         /\ \A e \in S : ToSet(Append(s, e)) = ToSet(s) \cup {e}
<1>1. DOMAIN s = 1 .. Len(s) /\ Len(s) \in Nat /\ \A i \in 1 .. Len(s) : s[i] \in S
  BY LenProperties, ElementOfSeq
<1>2. ToSet(s) = {s[i] : i \in 1 .. Len(s)} /\ ToSet(s) \subseteq S
  BY <1>1 DEF ToSet
<1>3. ASSUME NEW e \in S PROVE ToSet(Append(s, e)) = ToSet(s) \cup {e}
  <2> DEFINE t == Append(s, e)
  <2>1. PICK N \in Nat : N = Len(s)
    BY <1>1
  <2>2. t \in Seq(S) /\ Len(t) = N + 1 /\ t[N + 1] = e /\ \A i \in 1 .. N : t[i] = s[i]
    BY <2>1, AppendProperties
  <2> HIDE DEF t
  <2>3. ToSet(t) = {t[i] : i \in 1 .. N + 1}
    BY <2>2, LenProperties DEF ToSet
  <2>4. N + 1 \in 1 .. N + 1 /\ (\A i \in 1 .. N : i \in 1 .. N + 1) /\ \A i \in 1 .. N + 1 : i \in 1 .. N \/ i = N + 1
    OBVIOUS
  <2>5. ToSet(t) = ToSet(s) \cup {e}
    BY <1>2, <2>1, <2>2, <2>3, <2>4
  <2> QED BY <2>5 DEF t
<1> QED BY <1>2, <1>3

(* The overviews of a choice, one path more at a time. *)
LEMMA OverviewsSteps ==
  /\ Overviews(<<>>) = <<>>
  /\ \A t \in Seq(Paths) : Overviews(t) \in Seq(Paths)
  /\ \A t \in Seq(Paths), p \in Paths :
       Overviews(Append(t, p)) = (IF Contains(Overviews(t), <<Head(p)>>) THEN Overviews(t) ELSE Append(Overviews(t), <<Head(p)>>))
<1> DEFINE step == [x \in Seq(Paths) |-> [p \in Paths |-> (IF Contains(x, <<Head(p)>>) THEN x ELSE Append(x, <<Head(p)>>))]]
<1>1. /\ IsFold(Seq(Paths), Paths, step, <<>>)
      /\ \A x \in Seq(Paths), p \in Paths : step[x][p] = (IF Contains(x, <<Head(p)>>) THEN x ELSE Append(x, <<Head(p)>>))
  <2>1. \A x \in Seq(Paths), p \in Paths :
          (IF Contains(x, <<Head(p)>>) THEN x ELSE Append(x, <<Head(p)>>)) \in Seq(Paths)
    BY HeadPath, AppendProperties
  <2>2. <<>> \in Seq(Paths)
    BY EmptySeq
  <2> QED BY <2>1, <2>2 DEF IsFold
<1> HIDE DEF step
<1>2. ASSUME NEW t \in Seq(Paths) PROVE Overviews(t) = Run(step, <<>>, t)
  <2> DEFINE Q(h) == h = [s \in SUBSET DOMAIN t |->
                            IF s = {} THEN <<>> ELSE (IF Contains(h[s \ {Max(s)}], <<Head(t[Max(s)])>>) THEN h[s \ {Max(s)}] ELSE Append(h[s \ {Max(s)}], <<Head(t[Max(s)])>>))]
             c == CHOOSE h : Q(h)
  <2>1. Overviews(t) = c[DOMAIN t]
    BY DEF Overviews, FoldLeft, MapThenFoldSet
  <2>2. PICK N \in Nat : N = Len(t) /\ DOMAIN t = 1 .. N /\ t \in Long(N, Paths)
    BY LenProperties DEF Long
  <2>3. \A n \in 1 .. N : t[n] \in Paths
    BY <2>2 DEF Long
  <2>4. PICK g : Folds(g, Seq(Paths), step, <<>>, t, N)
    BY <1>1, <2>2, FoldExists
  <2>5. Q(g)
    <3>1. /\ g = [s \in SUBSET DOMAIN t |-> g[s]]
          /\ g[{}] = <<>>
          /\ \A s \in SUBSET DOMAIN t : s # {} => g[s] = step[g[s \ {Max(s)}]][t[Max(s)]]
      BY <2>2, <2>4 DEF Folds
    <3>2. \A s \in SUBSET DOMAIN t : s # {} => g[s \ {Max(s)}] \in Seq(Paths) /\ t[Max(s)] \in Paths
      BY <2>2, <2>3, <2>4, MaxOf DEF Folds
    <3>3. \A s \in SUBSET DOMAIN t :
            g[s] = IF s = {} THEN <<>> ELSE (IF Contains(g[s \ {Max(s)}], <<Head(t[Max(s)])>>) THEN g[s \ {Max(s)}] ELSE Append(g[s \ {Max(s)}], <<Head(t[Max(s)])>>))
      BY <1>1, <3>1, <3>2
    <3> QED BY <3>1, <3>3
  <2>6. Q(c)
    <3> HIDE DEF Q
    <3> QED BY <2>5
  <2> HIDE DEF c
  <2>7. Unfolds(c, Seq(Paths), step, <<>>, t, N)
    <3>1. \A s \in SUBSET (1 .. N) : c[s] = IF s = {} THEN <<>> ELSE (IF Contains(c[s \ {Max(s)}], <<Head(t[Max(s)])>>) THEN c[s \ {Max(s)}] ELSE Append(c[s \ {Max(s)}], <<Head(t[Max(s)])>>))
      BY <2>2, <2>6
    <3> HIDE DEF Q
    <3> QED BY <1>1, <2>3, <3>1 DEF Unfolds
  <2> HIDE DEF Q
  <2>8. c[1 .. N] = Run(step, <<>>, t)
    BY <1>1, <2>2, <2>7, FoldIsRun
  <2> QED BY <2>1, <2>2, <2>8
<1>3. <<>> \in Seq(Paths) /\ \A t \in Seq(Paths), p \in Paths : Append(t, p) \in Seq(Paths)
  BY AppendProperties, EmptySeq
<1>4. /\ Run(step, <<>>, <<>>) = <<>>
      /\ \A t \in Seq(Paths) : Run(step, <<>>, t) \in Seq(Paths)
      /\ \A t \in Seq(Paths), p \in Paths : Run(step, <<>>, Append(t, p)) = step[Run(step, <<>>, t)][p]
  BY <1>1, RunSteps
<1>5. ASSUME NEW t \in Seq(Paths), NEW p \in Paths
      PROVE  Overviews(Append(t, p)) = (IF Contains(Overviews(t), <<Head(p)>>) THEN Overviews(t) ELSE Append(Overviews(t), <<Head(p)>>))
  <2>1. Overviews(t) = Run(step, <<>>, t) /\ Run(step, <<>>, t) \in Seq(Paths)
    BY <1>2, <1>4
  <2>2. Overviews(Append(t, p)) = Run(step, <<>>, Append(t, p))
    BY <1>2, <1>3
  <2>3. Run(step, <<>>, Append(t, p)) = step[Overviews(t)][p]
    BY <1>4, <2>1
  <2>4. Overviews(t) \in Seq(Paths)
    BY <2>1
  <2>5. step[Overviews(t)][p] = (IF Contains(Overviews(t), <<Head(p)>>) THEN Overviews(t) ELSE Append(Overviews(t), <<Head(p)>>))
    BY <1>1, <2>4
  <2> QED BY <2>2, <2>3, <2>5
<1>6. Overviews(<<>>) = <<>>
  BY <1>2, <1>3, <1>4
<1> QED BY <1>2, <1>4, <1>5, <1>6


(* The paths below overviews, one path more at a time. *)
LEMMA BelowSteps ==
  /\ Below(<<>>) = <<>>
  /\ \A t \in Seq(Paths) : Below(t) \in Seq(Paths)
  /\ \A t \in Seq(Paths), p \in Paths :
       Below(Append(t, p)) = (IF Len(p) > 1 THEN Append(Below(t), p) ELSE Below(t))
<1> DEFINE step == [x \in Seq(Paths) |-> [p \in Paths |-> (IF Len(p) > 1 THEN Append(x, p) ELSE x)]]
<1>1. /\ IsFold(Seq(Paths), Paths, step, <<>>)
      /\ \A x \in Seq(Paths), p \in Paths : step[x][p] = (IF Len(p) > 1 THEN Append(x, p) ELSE x)
  BY AppendProperties, EmptySeq DEF IsFold
<1> HIDE DEF step
<1>2. ASSUME NEW t \in Seq(Paths) PROVE Below(t) = Run(step, <<>>, t)
  <2> DEFINE Q(h) == h = [s \in SUBSET DOMAIN t |->
                            IF s = {} THEN <<>> ELSE (IF Len(t[Max(s)]) > 1 THEN Append(h[s \ {Max(s)}], t[Max(s)]) ELSE h[s \ {Max(s)}])]
             c == CHOOSE h : Q(h)
  <2>1. Below(t) = c[DOMAIN t]
    BY DEF Below, FoldLeft, MapThenFoldSet
  <2>2. PICK N \in Nat : N = Len(t) /\ DOMAIN t = 1 .. N /\ t \in Long(N, Paths)
    BY LenProperties DEF Long
  <2>3. \A n \in 1 .. N : t[n] \in Paths
    BY <2>2 DEF Long
  <2>4. PICK g : Folds(g, Seq(Paths), step, <<>>, t, N)
    BY <1>1, <2>2, FoldExists
  <2>5. Q(g)
    <3>1. /\ g = [s \in SUBSET DOMAIN t |-> g[s]]
          /\ g[{}] = <<>>
          /\ \A s \in SUBSET DOMAIN t : s # {} => g[s] = step[g[s \ {Max(s)}]][t[Max(s)]]
      BY <2>2, <2>4 DEF Folds
    <3>2. \A s \in SUBSET DOMAIN t : s # {} => g[s \ {Max(s)}] \in Seq(Paths) /\ t[Max(s)] \in Paths
      BY <2>2, <2>3, <2>4, MaxOf DEF Folds
    <3>3. \A s \in SUBSET DOMAIN t :
            g[s] = IF s = {} THEN <<>> ELSE (IF Len(t[Max(s)]) > 1 THEN Append(g[s \ {Max(s)}], t[Max(s)]) ELSE g[s \ {Max(s)}])
      BY <1>1, <3>1, <3>2, ZenonT(60)
    <3> QED BY <3>1, <3>3
  <2>6. Q(c)
    <3> HIDE DEF Q
    <3> QED BY <2>5
  <2> HIDE DEF c
  <2>7. Unfolds(c, Seq(Paths), step, <<>>, t, N)
    <3>1. \A s \in SUBSET (1 .. N) : c[s] = IF s = {} THEN <<>> ELSE (IF Len(t[Max(s)]) > 1 THEN Append(c[s \ {Max(s)}], t[Max(s)]) ELSE c[s \ {Max(s)}])
      BY <2>2, <2>6
    <3> HIDE DEF Q
    <3> QED BY <1>1, <2>3, <3>1 DEF Unfolds
  <2> HIDE DEF Q
  <2>8. c[1 .. N] = Run(step, <<>>, t)
    BY <1>1, <2>2, <2>7, FoldIsRun
  <2> QED BY <2>1, <2>2, <2>8
<1>3. <<>> \in Seq(Paths) /\ \A t \in Seq(Paths), p \in Paths : Append(t, p) \in Seq(Paths)
  BY AppendProperties, EmptySeq
<1>4. /\ Run(step, <<>>, <<>>) = <<>>
      /\ \A t \in Seq(Paths) : Run(step, <<>>, t) \in Seq(Paths)
      /\ \A t \in Seq(Paths), p \in Paths : Run(step, <<>>, Append(t, p)) = step[Run(step, <<>>, t)][p]
  BY <1>1, RunSteps
<1>5. ASSUME NEW t \in Seq(Paths), NEW p \in Paths
      PROVE  Below(Append(t, p)) = (IF Len(p) > 1 THEN Append(Below(t), p) ELSE Below(t))
  <2>1. Below(t) = Run(step, <<>>, t) /\ Run(step, <<>>, t) \in Seq(Paths)
    BY <1>2, <1>4
  <2>2. Below(Append(t, p)) = Run(step, <<>>, Append(t, p))
    BY <1>2, <1>3
  <2>3. Run(step, <<>>, Append(t, p)) = step[Below(t)][p]
    BY <1>4, <2>1
  <2>4. Below(t) \in Seq(Paths)
    BY <2>1
  <2>5. step[Below(t)][p] = (IF Len(p) > 1 THEN Append(Below(t), p) ELSE Below(t))
    BY <1>1, <2>4
  <2> QED BY <2>2, <2>3, <2>5
<1>6. Below(<<>>) = <<>>
  BY <1>2, <1>3, <1>4
<1> QED BY <1>2, <1>4, <1>5, <1>6


(* What is found, one path more at a time. *)
LEMMA FoundSteps ==
  /\ Found(<<>>) = <<>>
  /\ \A t \in Seq(Paths) : Found(t) \in Seq(Finds)
  /\ \A t \in Seq(Paths), p \in Paths :
       Found(Append(t, p)) = (IF Hits(p) = {} THEN Found(t) ELSE Append(Found(t), Find(p)))
<1> DEFINE step == [x \in Seq(Finds) |-> [p \in Paths |-> (IF Hits(p) = {} THEN x ELSE Append(x, Find(p)))]]
<1>1. /\ IsFold(Seq(Finds), Paths, step, <<>>)
      /\ \A x \in Seq(Finds), p \in Paths : step[x][p] = (IF Hits(p) = {} THEN x ELSE Append(x, Find(p)))
  <2>1. \A p \in Paths : Hits(p) # {} => Find(p) \in Finds
    BY DEF Find, Finds, Hits
  <2>2. \A x \in Seq(Finds), p \in Paths :
          (IF Hits(p) = {} THEN x ELSE Append(x, Find(p))) \in Seq(Finds)
    BY <2>1, AppendProperties
  <2>3. <<>> \in Seq(Finds)
    BY EmptySeq
  <2> QED BY <2>2, <2>3 DEF IsFold
<1> HIDE DEF step
<1>2. ASSUME NEW t \in Seq(Paths) PROVE Found(t) = Run(step, <<>>, t)
  <2> DEFINE Q(h) == h = [s \in SUBSET DOMAIN t |->
                            IF s = {} THEN <<>> ELSE (IF Hits(t[Max(s)]) = {} THEN h[s \ {Max(s)}] ELSE Append(h[s \ {Max(s)}], Find(t[Max(s)])))]
             c == CHOOSE h : Q(h)
  <2>1. Found(t) = c[DOMAIN t]
    BY DEF Found, Find, FoldLeft, MapThenFoldSet
  <2>2. PICK N \in Nat : N = Len(t) /\ DOMAIN t = 1 .. N /\ t \in Long(N, Paths)
    BY LenProperties DEF Long
  <2>3. \A n \in 1 .. N : t[n] \in Paths
    BY <2>2 DEF Long
  <2>4. PICK g : Folds(g, Seq(Finds), step, <<>>, t, N)
    BY <1>1, <2>2, FoldExists
  <2>5. Q(g)
    <3>1. /\ g = [s \in SUBSET DOMAIN t |-> g[s]]
          /\ g[{}] = <<>>
          /\ \A s \in SUBSET DOMAIN t : s # {} => g[s] = step[g[s \ {Max(s)}]][t[Max(s)]]
      BY <2>2, <2>4 DEF Folds
    <3>2. \A s \in SUBSET DOMAIN t : s # {} => g[s \ {Max(s)}] \in Seq(Finds) /\ t[Max(s)] \in Paths
      BY <2>2, <2>3, <2>4, MaxOf DEF Folds
    <3>3. \A s \in SUBSET DOMAIN t :
            g[s] = IF s = {} THEN <<>> ELSE (IF Hits(t[Max(s)]) = {} THEN g[s \ {Max(s)}] ELSE Append(g[s \ {Max(s)}], Find(t[Max(s)])))
      BY <1>1, <3>1, <3>2
    <3> QED BY <3>1, <3>3
  <2>6. Q(c)
    <3> HIDE DEF Q
    <3> QED BY <2>5
  <2> HIDE DEF c
  <2>7. Unfolds(c, Seq(Finds), step, <<>>, t, N)
    <3>1. \A s \in SUBSET (1 .. N) : c[s] = IF s = {} THEN <<>> ELSE (IF Hits(t[Max(s)]) = {} THEN c[s \ {Max(s)}] ELSE Append(c[s \ {Max(s)}], Find(t[Max(s)])))
      BY <2>2, <2>6
    <3> HIDE DEF Q
    <3> QED BY <1>1, <2>3, <3>1 DEF Unfolds
  <2> HIDE DEF Q
  <2>8. c[1 .. N] = Run(step, <<>>, t)
    BY <1>1, <2>2, <2>7, FoldIsRun
  <2> QED BY <2>1, <2>2, <2>8
<1>3. <<>> \in Seq(Paths) /\ \A t \in Seq(Paths), p \in Paths : Append(t, p) \in Seq(Paths)
  BY AppendProperties, EmptySeq
<1>4. /\ Run(step, <<>>, <<>>) = <<>>
      /\ \A t \in Seq(Paths) : Run(step, <<>>, t) \in Seq(Finds)
      /\ \A t \in Seq(Paths), p \in Paths : Run(step, <<>>, Append(t, p)) = step[Run(step, <<>>, t)][p]
  BY <1>1, RunSteps
<1>5. ASSUME NEW t \in Seq(Paths), NEW p \in Paths
      PROVE  Found(Append(t, p)) = (IF Hits(p) = {} THEN Found(t) ELSE Append(Found(t), Find(p)))
  <2>1. Found(t) = Run(step, <<>>, t) /\ Run(step, <<>>, t) \in Seq(Finds)
    BY <1>2, <1>4
  <2>2. Found(Append(t, p)) = Run(step, <<>>, Append(t, p))
    BY <1>2, <1>3
  <2>3. Run(step, <<>>, Append(t, p)) = step[Found(t)][p]
    BY <1>4, <2>1
  <2>4. Found(t) \in Seq(Finds)
    BY <2>1
  <2>5. step[Found(t)][p] = (IF Hits(p) = {} THEN Found(t) ELSE Append(Found(t), Find(p)))
    BY <1>1, <2>4
  <2> QED BY <2>2, <2>3, <2>5
<1>6. Found(<<>>) = <<>>
  BY <1>2, <1>3, <1>4
<1> QED BY <1>2, <1>4, <1>5, <1>6


-----------------------------------------------------------------------------
(* The overviews of a choice: one for each of its paths, and no more than it
   has paths. *)
Led(choice, roots) ==
  /\ roots \in Seq(Paths) /\ Len(roots) <= Len(choice)
  /\ \A k \in 1 .. Len(choice) : \E i \in 1 .. Len(roots) : roots[i] = <<Head(choice[k])>>
  /\ \A i \in 1 .. Len(roots) : roots[i] = <<Head(roots[i])>>

(* One path more. *)
LEMMA LedNext ==
  ASSUME NEW choice \in Seq(Paths), NEW roots, Led(choice, roots), NEW p \in Paths
  PROVE  Led(Append(choice, p), IF Contains(roots, <<Head(p)>>) THEN roots ELSE Append(roots, <<Head(p)>>))
<1> DEFINE c == Append(choice, p)
           r == Append(roots, <<Head(p)>>)
<1>1. PICK M \in Nat, N \in Nat : M = Len(roots) /\ N = Len(choice) /\ M <= N /\ M <= N + 1 /\ M + 1 <= N + 1
  <2>1. Len(roots) \in Nat /\ Len(choice) \in Nat /\ Len(roots) <= Len(choice)
    BY LenProperties DEF Led
  <2> QED BY <2>1
<1>2. PICK h : h = <<Head(p)>> /\ h \in Paths /\ Head(h) = Head(p) /\ h = <<Head(h)>>
  BY HeadPath
<1>3. /\ c \in Seq(Paths) /\ Len(c) = N + 1 /\ c[N + 1] = p /\ \A k \in 1 .. N : c[k] = choice[k]
  BY <1>1, AppendProperties
<1>4. /\ r \in Seq(Paths) /\ Len(r) = M + 1 /\ r[M + 1] = h /\ \A i \in 1 .. M : r[i] = roots[i]
  BY <1>1, <1>2, AppendProperties DEF Led
<1>5. /\ roots \in Seq(Paths)
      /\ \A k \in 1 .. N : \E i \in 1 .. M : roots[i] = <<Head(choice[k])>>
      /\ \A i \in 1 .. M : roots[i] = <<Head(roots[i])>>
  BY <1>1 DEF Led
<1>6. /\ \A k \in 1 .. N + 1 : k \in 1 .. N \/ k = N + 1
      /\ \A i \in 1 .. M + 1 : i \in 1 .. M \/ i = M + 1
      /\ M + 1 \in 1 .. M + 1 /\ \A i \in 1 .. M : i \in 1 .. M + 1
  OBVIOUS
<1> HIDE DEF c, r
<1>7. CASE Contains(roots, h)
  <2>1. PICK j \in 1 .. M : roots[j] = h
    BY <1>1, <1>7 DEF Contains
  <2>2. \A k \in 1 .. N + 1 : \E i \in 1 .. M : roots[i] = <<Head(c[k])>>
    BY <1>2, <1>3, <1>5, <1>6, <2>1
  <2>3. Led(c, roots)
    BY <1>1, <1>3, <1>5, <2>2 DEF Led
  <2> QED BY <1>2, <1>7, <2>3 DEF c
<1>8. CASE ~ Contains(roots, h)
  <2>1. \A k \in 1 .. N + 1 : \E i \in 1 .. M + 1 : r[i] = <<Head(c[k])>>
    <3>1. \A k \in 1 .. N : \E i \in 1 .. M + 1 : r[i] = <<Head(c[k])>>
      BY <1>3, <1>4, <1>5, <1>6
    <3>2. r[M + 1] = <<Head(c[N + 1])>>
      BY <1>2, <1>3, <1>4
    <3> QED BY <1>6, <3>1, <3>2
  <2>2. \A i \in 1 .. M + 1 : r[i] = <<Head(r[i])>>
    BY <1>2, <1>4, <1>5, <1>6
  <2>3. Led(c, r)
    BY <1>1, <1>3, <1>4, <2>1, <2>2 DEF Led
  <2> QED BY <1>2, <1>8, <2>3 DEF c, r
<1> QED BY <1>7, <1>8

(* All of them. *)
LEMMA OverviewsWhole ==
  \A choice \in Seq(Paths) : Led(choice, Overviews(choice))
<1> DEFINE T == {choice \in Seq(Paths) : Led(choice, Overviews(choice))}
<1>1. <<>> \in T
  <2>1. Overviews(<<>>) = <<>> /\ <<>> \in Seq(Paths)
    BY OverviewsSteps, EmptySeq
  <2>2. Led(<<>>, <<>>)
    BY <2>1 DEF Led
  <2> QED BY <2>1, <2>2
<1>2. ASSUME NEW choice \in Seq(Paths), choice \in T, NEW p \in Paths PROVE Append(choice, p) \in T
  <2>1. PICK roots : roots = Overviews(choice) /\ Led(choice, roots)
    BY <1>2
  <2>2. Overviews(Append(choice, p)) = IF Contains(roots, <<Head(p)>>) THEN roots ELSE Append(roots, <<Head(p)>>)
    BY <2>1, OverviewsSteps
  <2>3. Led(Append(choice, p), Overviews(Append(choice, p)))
    BY <2>1, <2>2, LedNext
  <2> QED BY <2>3, AppendProperties
<1>3. Seq(Paths) \subseteq T
  <2> HIDE DEF T
  <2> QED BY <1>1, <1>2, SeqInduction
<1> QED BY <1>3

(* The paths below the overviews are of the choice. *)
LEMMA BelowWhole ==
  \A choice \in Seq(Paths) : Below(choice) \in Seq(Paths) /\ ToSet(Below(choice)) \subseteq ToSet(choice)
<1>0. /\ Below(<<>>) = <<>> /\ \A t \in Seq(Paths) : Below(t) \in Seq(Paths)
      /\ \A t \in Seq(Paths), p \in Paths : Below(Append(t, p)) = IF Len(p) > 1 THEN Append(Below(t), p) ELSE Below(t)
  BY BelowSteps
<1> DEFINE T == {choice \in Seq(Paths) : ToSet(Below(choice)) \subseteq ToSet(choice)}
<1>1. <<>> \in T
  BY <1>0, EmptySeq
<1>2. ASSUME NEW choice \in Seq(Paths), choice \in T, NEW p \in Paths PROVE Append(choice, p) \in T
  <2>1. PICK b \in Seq(Paths) : b = Below(choice) /\ ToSet(b) \subseteq ToSet(choice)
    BY <1>0, <1>2
  <2>2. ToSet(Append(choice, p)) = ToSet(choice) \cup {p} /\ ToSet(Append(b, p)) = ToSet(b) \cup {p}
    BY Elements
  <2>3. Below(Append(choice, p)) = IF Len(p) > 1 THEN Append(b, p) ELSE b
    BY <1>0, <2>1
  <2>4. ToSet(Below(Append(choice, p))) \subseteq ToSet(Append(choice, p))
    BY <2>1, <2>2, <2>3
  <2> QED BY <2>4, AppendProperties
<1>3. Seq(Paths) \subseteq T
  <2> HIDE DEF T
  <2> QED BY <1>1, <1>2, SeqInduction
<1> QED BY <1>0, <1>3

(* What is found under paths: the chunks of some of them, in their order, and
   of every one under which there is a chunk. *)
Finding(paths, finds) ==
  /\ finds \in Seq(Finds) /\ Len(finds) <= Len(paths)
  /\ \A u \in ToSet(finds) : u.path \in ToSet(paths) /\ u.hit \in Hits(u.path)
  /\ \A k \in 1 .. Len(paths) :
       Hits(paths[k]) # {} => \E j \in 1 .. Len(finds) : j <= k /\ finds[j] = Find(paths[k])

(* One path more. *)
LEMMA FindingNext ==
  ASSUME NEW paths \in Seq(Paths), NEW finds, Finding(paths, finds), NEW p \in Paths
  PROVE  Finding(Append(paths, p), IF Hits(p) = {} THEN finds ELSE Append(finds, Find(p)))
<1> DEFINE c == Append(paths, p)
           f == Append(finds, Find(p))
<1>1. PICK M \in Nat, N \in Nat : M = Len(finds) /\ N = Len(paths) /\ M <= N /\ M <= N + 1 /\ M + 1 <= N + 1
  <2>1. Len(finds) \in Nat /\ Len(paths) \in Nat /\ Len(finds) <= Len(paths)
    BY LenProperties DEF Finding
  <2> QED BY <2>1
<1>3. /\ c \in Seq(Paths) /\ Len(c) = N + 1 /\ c[N + 1] = p /\ (\A k \in 1 .. N : c[k] = paths[k])
      /\ ToSet(c) = ToSet(paths) \cup {p}
  BY <1>1, AppendProperties, Elements
<1>5. /\ finds \in Seq(Finds)
      /\ \A u \in ToSet(finds) : u.path \in ToSet(paths) /\ u.hit \in Hits(u.path)
      /\ \A k \in 1 .. N : Hits(paths[k]) # {} => \E j \in 1 .. M : j <= k /\ finds[j] = Find(paths[k])
  BY <1>1 DEF Finding
<1>6. /\ \A k \in 1 .. N + 1 : k \in 1 .. N \/ k = N + 1
      /\ M + 1 \in 1 .. M + 1 /\ \A i \in 1 .. M : i \in 1 .. M + 1
  OBVIOUS
<1>7. CASE Hits(p) = {}
  <2> HIDE DEF c
  <2>1. \A k \in 1 .. N + 1 : Hits(c[k]) # {} => \E j \in 1 .. M : j <= k /\ finds[j] = Find(c[k])
    BY <1>3, <1>5, <1>6, <1>7
  <2>2. Finding(c, finds)
    BY <1>1, <1>3, <1>5, <2>1 DEF Finding
  <2> QED BY <1>7, <2>2 DEF c
<1>8. CASE Hits(p) # {}
  <2>1. Find(p) \in Finds /\ Find(p).path = p /\ Find(p).hit \in Hits(p)
    <3>1. (CHOOSE x \in Hits(p) : TRUE) \in Hits(p) /\ Hits(p) \subseteq Readable
      BY <1>8 DEF Hits
    <3> QED BY <3>1 DEF Find, Finds
  <2>2. /\ f \in Seq(Finds) /\ Len(f) = M + 1 /\ f[M + 1] = Find(p) /\ (\A i \in 1 .. M : f[i] = finds[i])
        /\ ToSet(f) = ToSet(finds) \cup {Find(p)}
    BY <1>1, <1>5, <2>1, AppendProperties, Elements
  <2> HIDE DEF c, f
  <2>3. \A u \in ToSet(f) : u.path \in ToSet(c) /\ u.hit \in Hits(u.path)
    BY <1>3, <1>5, <2>1, <2>2
  <2>4. \A k \in 1 .. N + 1 : Hits(c[k]) # {} => \E j \in 1 .. M + 1 : j <= k /\ f[j] = Find(c[k])
    <3>1. \A k \in 1 .. N : Hits(c[k]) # {} => \E j \in 1 .. M + 1 : j <= k /\ f[j] = Find(c[k])
      BY <1>3, <1>5, <1>6, <2>2
    <3>2. M + 1 <= N + 1 /\ f[M + 1] = Find(c[N + 1])
      BY <1>1, <1>3, <2>2
    <3> QED BY <1>6, <3>1, <3>2
  <2>5. Finding(c, f)
    BY <1>1, <1>3, <2>2, <2>3, <2>4 DEF Finding
  <2> QED BY <1>8, <2>5 DEF c, f
<1> QED BY <1>7, <1>8

(* All of them. *)
LEMMA FoundWhole ==
  \A paths \in Seq(Paths) : Finding(paths, Found(paths))
<1> DEFINE T == {paths \in Seq(Paths) : Finding(paths, Found(paths))}
<1>1. <<>> \in T
  <2>1. Found(<<>>) = <<>> /\ <<>> \in Seq(Paths) /\ <<>> \in Seq(Finds)
    BY FoundSteps, EmptySeq
  <2>2. Finding(<<>>, <<>>)
    BY <2>1 DEF Finding, ToSet
  <2> QED BY <2>1, <2>2
<1>2. ASSUME NEW paths \in Seq(Paths), paths \in T, NEW p \in Paths PROVE Append(paths, p) \in T
  <2>1. PICK finds : finds = Found(paths) /\ Finding(paths, finds)
    BY <1>2
  <2>2. Found(Append(paths, p)) = IF Hits(p) = {} THEN finds ELSE Append(finds, Find(p))
    BY <2>1, FoundSteps
  <2>3. Finding(Append(paths, p), Found(Append(paths, p)))
    BY <2>1, <2>2, FindingNext
  <2> QED BY <2>3, AppendProperties
<1>3. Seq(Paths) \subseteq T
  <2> HIDE DEF T
  <2> QED BY <1>1, <1>2, SeqInduction
<1> QED BY <1>3

-----------------------------------------------------------------------------
(* Every path of a selection has its document's overview among the first. *)
Chosen(sel) ==
  /\ sel \in Seq(Paths)
  /\ \A p \in ToSet(sel) : \E k \in 1 .. Len(sel) : k <= MaxSelected /\ sel[k] = <<Head(p)>>

(* The inductive invariant: documents are published whole, what a turn has
   listed and chosen are paths, and it can cite what it is going to find. *)
Documents ==
  /\ chunks \in [Doc -> Seq(Chunks)] /\ text \in [Doc -> Seq(Par)] /\ visible \subseteq Doc
  /\ \A d \in Doc : Complete(d)
Turns ==
  /\ catalogue \in [Doc -> Seq(Paths)]
  /\ turn = "fetch" => Chosen(selected)
IInv == Documents /\ Turns /\ UsedIsCited

(* A sequence has finitely many elements. *)
LEMMA ElementsFinite ==
  ASSUME NEW S, NEW s \in Seq(S)
  PROVE  IsFiniteSet(ToSet(s))
<1>1. PICK N \in Nat : N = Len(s) /\ DOMAIN s = 1 .. N
  BY LenProperties
<1> DEFINE f == [i \in 1 .. N |-> s[i]]
<1>2. f \in Surjection(1 .. N, ToSet(s))
  BY <1>1 DEF ToSet, Surjection
<1>3. IsFiniteSet(1 .. N)
  BY FS_Interval
<1> HIDE DEF f
<1> QED BY <1>2, <1>3, FS_Surjection

(* The candidates are finitely many paths. *)
LEMMA CandidatesFinite ==
  ASSUME catalogue \in [Doc -> Seq(Paths)]
  PROVE  /\ IsFiniteSet(UNION {CandidatesOf(d) : d \in Doc})
         /\ UNION {CandidatesOf(d) : d \in Doc} \subseteq Paths
<1>1. ASSUME NEW d \in Doc PROVE CandidatesOf(d) \in SUBSET ToSet(catalogue[d])
  BY DEF CandidatesOf, Details
<1>2. ASSUME NEW d \in Doc PROVE IsFiniteSet(CandidatesOf(d)) /\ CandidatesOf(d) \subseteq Paths
  <2>1. catalogue[d] \in Seq(Paths)
    OBVIOUS
  <2>2. IsFiniteSet(ToSet(catalogue[d])) /\ ToSet(catalogue[d]) \subseteq Paths
    BY <2>1, ElementsFinite, Elements
  <2> QED BY <1>1, <2>2, FS_Subset
<1> DEFINE sets == {CandidatesOf(d) : d \in Doc}
           f == [d \in Doc |-> CandidatesOf(d)]
<1>3. f \in Surjection(Doc, sets)
  BY DEF Surjection
<1>4. \A s \in sets : IsFiniteSet(s) /\ s \subseteq Paths
  BY <1>2
<1> HIDE DEF f, sets
<1>5. IsFiniteSet(Doc)
  BY RetrievalAssumption
<1>6. IsFiniteSet(sets)
  BY <1>3, <1>5, FS_Surjection
<1>7. IsFiniteSet(UNION sets) /\ UNION sets \subseteq Paths
  BY <1>4, <1>6, FS_UNION
<1> QED BY <1>7 DEF sets

(* selectRelevantChunkPaths: the overviews are among the first of a selection. *)
LEMMA SelectionChosen ==
  ASSUME NEW choice \in Seq(Paths), Len(choice) <= MaxSelected
  PROVE  Chosen(Overviews(choice) \o Below(choice))
<1>1. PICK roots, below : /\ roots = Overviews(choice) /\ Led(choice, roots)
                          /\ below = Below(choice) /\ below \in Seq(Paths) /\ ToSet(below) \subseteq ToSet(choice)
  BY OverviewsWhole, BelowWhole
<1>2. PICK N \in Nat, M \in Nat, L \in Nat : /\ N = Len(choice) /\ M = Len(roots) /\ L = Len(below)
                                             /\ \A i \in 1 .. M : i <= MaxSelected
  <2>1. Len(choice) \in Nat /\ Len(roots) \in Nat /\ Len(below) \in Nat /\ Len(roots) <= Len(choice)
    BY <1>1, LenProperties DEF Led
  <2>2. MaxSelected \in Nat
    BY RetrievalAssumption
  <2>3. \A i \in 1 .. Len(roots) : i <= MaxSelected
    BY <2>1, <2>2
  <2> QED BY <2>1, <2>3
<1>3. PICK sel : /\ sel = roots \o below /\ sel \in Seq(Paths) /\ Len(sel) = M + L
                 /\ \A i \in 1 .. M + L : sel[i] = IF i <= M THEN roots[i] ELSE below[i - M]
  <2>1. PICK rts \in Seq(Paths) : rts = roots
    BY <1>1 DEF Led
  <2>2. /\ rts \o below \in Seq(Paths) /\ Len(rts \o below) = Len(rts) + Len(below)
        /\ \A i \in 1 .. Len(rts) + Len(below) : (rts \o below)[i] = IF i <= Len(rts) THEN rts[i] ELSE below[i - Len(rts)]
    BY <1>1, <2>1, ConcatProperties
  <2> QED BY <1>2, <2>1, <2>2
<1>4. /\ \A i \in 1 .. M : i \in 1 .. M + L /\ i <= M
      /\ \A i \in 1 .. M + L : i \in 1 .. M \/ (i - M \in 1 .. L /\ ~ (i <= M))
  OBVIOUS
<1>5. \A i \in 1 .. M : sel[i] = roots[i]
  BY <1>3, <1>4
<1>6. ASSUME NEW p \in ToSet(sel) PROVE \E k \in 1 .. M + L : k <= MaxSelected /\ sel[k] = <<Head(p)>>
  <2>1. PICK i \in 1 .. M + L : p = sel[i]
    <3>1. DOMAIN sel = 1 .. Len(sel)
      BY <1>3, LenProperties
    <3> QED BY <1>3, <3>1 DEF ToSet
  <2>2. CASE i \in 1 .. M
    <3>1. p = roots[i] /\ roots[i] = <<Head(roots[i])>>
      BY <1>1, <1>2, <1>5, <2>1, <2>2 DEF Led
    <3>2. sel[i] = <<Head(p)>>
      BY <2>1, <3>1
    <3> QED BY <1>2, <1>4, <2>2, <3>2
  <2>3. CASE i - M \in 1 .. L /\ ~ (i <= M)
    <3>0. DOMAIN below = 1 .. Len(below) /\ DOMAIN choice = 1 .. Len(choice)
      BY <1>1, LenProperties
    <3>1. p = below[i - M] /\ p \in ToSet(below)
      BY <1>2, <1>3, <2>1, <2>3, <3>0 DEF ToSet
    <3>2. PICK j \in 1 .. N : p = choice[j]
      BY <1>1, <1>2, <3>0, <3>1 DEF ToSet
    <3>3. PICK k \in 1 .. M : roots[k] = <<Head(p)>>
      BY <1>1, <1>2, <3>2 DEF Led
    <3> QED BY <1>2, <1>4, <1>5, <3>3
  <2> QED BY <1>4, <2>2, <2>3
<1>7. Chosen(sel)
  BY <1>3, <1>6 DEF Chosen
<1> QED BY <1>1, <1>3, <1>7

-----------------------------------------------------------------------------
(* A path whose end is not taken for an extension is looked up as it is. *)
LEMMA ClearStripped ==
  ASSUME NEW path, Clear(path)
  PROVE  Stripped(path, ShortSuffix) = path /\ Stripped(path, KnownSuffix) = path
BY DEF Clear, Stripped, ShortSuffix, KnownSuffix

(* The name of the document stays in front if it is not taken for a file. *)
LEMMA StrippedHead ==
  ASSUME NEW path \in Paths, Clear(<<Head(path)>>)
  PROVE  Head(Stripped(path, ShortSuffix)) = Head(path)
<1>1. path \in Seq(PathSegments) /\ path # <<>>
  BY DEF Paths
<1>2. PICK N \in Nat : N = Len(path) /\ N # 0 /\ DOMAIN path = 1 .. N
  <2>1. Len(path) \in Nat \ {0}
    BY <1>1, EmptySeq
  <2>2. DOMAIN path = 1 .. Len(path)
    BY <1>1, LenProperties
  <2> QED BY <2>1, <2>2
<1>3. path[1] = Head(path) /\ \A i \in 1 .. N : path[i] \in PathSegments
  <2>1. Head(path) = path[1]
    BY <1>1
  <2> QED BY <1>1, <1>2, <2>1, ElementOfSeq
<1>4. CASE N = 1
  <2>1. path = <<Head(path)>>
    <3>1. PICK h \in PathSegments : h = Head(path)
      BY <1>1, HeadTailProperties
    <3>2. <<h>> \in Seq(PathSegments) /\ Len(<<h>>) = 1 /\ <<h>>[1] = h
      BY Single
    <3> DEFINE one == <<h>>
    <3>3. one \in Seq(PathSegments) /\ Len(one) = 1 /\ one[1] = h
      BY <3>2
    <3> HIDE DEF one
    <3>4. \A i \in 1 .. Len(path) : path[i] = one[i]
      BY <1>2, <1>3, <1>4, <3>1, <3>3
    <3>5. path = one
      BY <1>1, <1>2, <1>4, <3>3, <3>4, SeqEqual
    <3> QED BY <3>1, <3>5 DEF one
  <2>2. Clear(path)
    BY <2>1
  <2> QED BY <2>2, ClearStripped
<1>5. CASE N # 1
  <2> DEFINE last == path[N]
             bare == [last EXCEPT !.suffix = ""]
             p == [path EXCEPT ![N] = bare]
  <2>1. Stripped(path, ShortSuffix) \in {path, p}
    BY <1>2 DEF Stripped
  <2>2. last \in PathSegments
    BY <1>2, <1>3
  <2> HIDE DEF last
  <2>3. bare \in PathSegments
    BY <2>2 DEF PathSegments
  <2> HIDE DEF bare
  <2>4. p \in Seq(PathSegments) /\ Len(p) = N /\ \A i \in 1 .. N : p[i] = IF i = N THEN bare ELSE path[i]
    BY <1>1, <1>2, <2>3, ExceptSeq
  <2> HIDE DEF p
  <2>5. p # <<>> /\ p[1] = path[1]
    BY <1>2, <1>5, <2>4, EmptySeq
  <2>6. Head(p) = p[1]
    BY <2>4, <2>5
  <2> QED BY <1>3, <2>1, <2>5, <2>6
<1> QED BY <1>4, <1>5

(* The chunks of a document are below its name, with an overview in front and
   no two under one path. *)
LEMMA ChunkOf ==
  ASSUME Documents, NEW d \in Doc, NEW c \in ToSet(chunks[d])
  PROVE  /\ Head(c.path) = NameOf[d]
         /\ chunks[d][1] \in ToSet(chunks[d]) /\ chunks[d][1].path = <<NameOf[d]>>
         /\ \A o \in ToSet(chunks[d]) : o.path = c.path => o = c
<1>1. PICK x \in Seq(Chunks) : x = chunks[d]
  BY DEF Documents
<1>2. PICK N \in Nat : Len(x) = N + 1 /\ N = Len(x) - 1 /\ x # <<>> /\ DOMAIN x = 1 .. N + 1
  <2>1. x # <<>>
    BY <1>1 DEF ToSet
  <2>2. PICK L \in Nat : L = Len(x) /\ L # 0 /\ DOMAIN x = 1 .. L
    <3>1. Len(x) \in Nat \ {0}
      BY <2>1, EmptySeq
    <3>2. DOMAIN x = 1 .. Len(x)
      BY LenProperties
    <3> QED BY <3>1, <3>2
  <2>3. L - 1 \in Nat /\ L = (L - 1) + 1
    BY <2>2
  <2> QED BY <2>1, <2>2, <2>3
<1>3. /\ x[1] = Overview(NameOf[d])
      /\ \A k \in 2 .. N + 1 : x[k].path \in Under(NameOf[d])
      /\ \A j, k \in 1 .. N + 1 : x[j].path = x[k].path => j = k
  <2>1. Assembled(x, N, NameOf[d], Body(x))
    BY <1>1, <1>2 DEF Documents, Complete
  <2> QED BY <2>1 DEF Assembled
<1>4. ToSet(x) = {x[i] : i \in 1 .. N + 1} /\ 1 \in 1 .. N + 1
  BY <1>2 DEF ToSet
<1>5. x[1] \in ToSet(x) /\ x[1].path = <<NameOf[d]>>
  BY <1>3, <1>4 DEF Overview
<1>6. PICK i \in 1 .. N + 1 : c = x[i]
  BY <1>1, <1>4
<1>7. Head(c.path) = NameOf[d]
  <2>1. CASE i = 1
    BY <1>5, <1>6, <2>1
  <2>2. CASE i # 1
    <3>1. i \in 2 .. N + 1
      BY <2>2
    <3>2. c.path \in Under(NameOf[d])
      BY <1>3, <1>6, <3>1
    <3> QED BY <3>2, UnderLaws
  <2> QED BY <2>1, <2>2
<1>8. \A o \in ToSet(x) : o.path = c.path => o = c
  BY <1>3, <1>4, <1>6
<1> QED BY <1>1, <1>5, <1>7, <1>8

(* A chunk that can be read is the only one under its path, and its document
   has an overview that can be read. *)
LEMMA ReadableWhole ==
  ASSUME Documents, NEW c \in Readable
  PROVE  /\ \E o \in Readable : o.path = <<Head(c.path)>>
         /\ \A o \in Readable : o.path = c.path => o = c
<1>1. PICK d \in visible : d \in Doc /\ c \in ToSet(chunks[d])
  BY DEF Readable, Documents
<1>2. Head(c.path) = NameOf[d] /\ chunks[d][1] \in Readable /\ chunks[d][1].path = <<NameOf[d]>>
  BY <1>1, ChunkOf DEF Readable
<1>3. ASSUME NEW o \in Readable, o.path = c.path PROVE o = c
  <2>1. PICK e \in visible : e \in Doc /\ o \in ToSet(chunks[e])
    BY DEF Readable, Documents
  <2>2. NameOf[e] = NameOf[d]
    BY <1>2, <1>3, <2>1, ChunkOf
  <2>3. e = d
    BY <1>1, <2>1, <2>2, RetrievalAssumption
  <2> QED BY <1>1, <1>3, <2>1, <2>3, ChunkOf
<1> QED BY <1>2, <1>3

(* What is looked up under a clear path that was selected is the chunk that can
   be read under it. *)
LEMMA HitIsChunk ==
  ASSUME Documents, NEW c \in Readable, c.path \in ToSet(selected), Clear(c.path)
  PROVE  Hits(c.path) = {c} /\ Find(c.path) = [path |-> c.path, hit |-> c]
<1>1. Stripped(c.path, ShortSuffix) = c.path /\ Stripped(c.path, KnownSuffix) = c.path
  BY ClearStripped
<1>2. Hits(c.path) = {c}
  BY <1>1, ReadableWhole DEF Hits
<1> QED BY <1>2 DEF Find

(* Of a document from which something is found, the overview is found, early
   enough to be cited. *)
LEMMA FoundIsCited ==
  ASSUME Documents, Chosen(selected), NEW u \in ToSet(Found(selected)), Clear(<<Head(u.path)>>)
  PROVE  TopLevelPdf(u.path) \in CitedOf(Found(selected))
<1>1. PICK finds : finds = Found(selected) /\ Finding(selected, finds) /\ selected \in Seq(Paths)
  BY FoundWhole DEF Chosen
<1>2. u.path \in ToSet(selected) /\ u.hit \in Hits(u.path) /\ u.path \in Paths
  BY <1>1, Elements DEF Finding
<1>3. PICK root : root = <<Head(u.path)>> /\ root \in Paths /\ Head(root) = Head(u.path)
  BY <1>2, HeadPath
<1>4. PICK o \in Readable : o.path = root
  <2>1. u.hit \in Readable /\ u.hit.path = Stripped(u.path, ShortSuffix)
    BY <1>2 DEF Hits
  <2>2. Head(u.hit.path) = Head(u.path)
    BY <1>2, <2>1, StrippedHead
  <2> QED BY <1>3, <2>1, <2>2, ReadableWhole
<1>5. PICK k \in 1 .. Len(selected) : k <= MaxSelected /\ selected[k] = root
  BY <1>2, <1>3 DEF Chosen
<1>6. root \in ToSet(selected)
  <2>1. DOMAIN selected = 1 .. Len(selected)
    BY <1>1, LenProperties
  <2> QED BY <1>5, <2>1 DEF ToSet
<1>7. Hits(root) # {} /\ Find(root).path = root
  <2>1. o.path \in ToSet(selected) /\ Clear(o.path)
    BY <1>3, <1>4, <1>6
  <2>2. Hits(o.path) = {o}
    BY <2>1, HitIsChunk
  <2> QED BY <1>4, <2>2 DEF Find
<1>8. PICK j \in 1 .. Len(finds) : j <= k /\ finds[j] = Find(root)
  BY <1>1, <1>5, <1>7 DEF Finding
<1>9. finds[j] \in ToSet(FirstOf(finds, MaxSelected))
  <2>1. finds \in Seq(Finds) /\ Len(finds) \in Nat /\ MaxSelected \in Nat /\ j \in Nat /\ j <= MaxSelected /\ 1 <= j
    <3>1. finds \in Seq(Finds) /\ Len(finds) \in Nat /\ Len(selected) \in Nat
      BY <1>1, LenProperties DEF Finding
    <3> QED BY <1>5, <1>8, <3>1, RetrievalAssumption
  <2>2. PICK n \in Nat : n = (IF Len(finds) < MaxSelected THEN Len(finds) ELSE MaxSelected) /\ n <= Len(finds) /\ j \in 1 .. n
    BY <1>8, <2>1
  <2>3. FirstOf(finds, MaxSelected) = SubSeq(finds, 1, n)
    BY <2>2 DEF FirstOf
  <2>4. \A i \in 1 .. n : finds[i] \in Finds
    <3>1. \A i \in 1 .. n : i \in 1 .. Len(finds)
      BY <2>1, <2>2
    <3> QED BY <2>1, <3>1, ElementOfSeq
  <2>5. PICK s \in Seq(Finds) : s = SubSeq(finds, 1, n) /\ Len(s) = n /\ s[j] = finds[j]
    <3>0. PICK s : s = SubSeq(finds, 1, n)
      OBVIOUS
    <3>1. /\ s \in Seq(Finds) /\ Len(s) = IF 1 <= n THEN n - 1 + 1 ELSE 0
          /\ \A i \in 1 .. n - 1 + 1 : s[i] = finds[1 + i - 1]
      BY <2>2, <2>4, <3>0, SubSeqProperties
    <3>2. 1 <= n /\ n - 1 + 1 = n /\ 1 + j - 1 = j /\ j \in 1 .. n - 1 + 1
      BY <2>1, <2>2
    <3>3. Len(s) = n
      BY <3>1, <3>2
    <3>4. s[j] = finds[1 + j - 1]
      BY <3>1, <3>2
    <3> QED BY <3>0, <3>1, <3>2, <3>3, <3>4
  <2>6. DOMAIN s = 1 .. Len(s)
    BY <2>5, LenProperties
  <2> QED BY <2>2, <2>3, <2>5, <2>6 DEF ToSet
<1>10. TopLevelPdf(finds[j].path) = TopLevelPdf(u.path)
  BY <1>3, <1>7, <1>8 DEF TopLevelPdf
<1> QED BY <1>1, <1>9, <1>10 DEF CitedOf

-----------------------------------------------------------------------------
(* It holds at the start. *)
LEMMA IInvInit == Init => IInv
<1> SUFFICES ASSUME Init PROVE IInv
  OBVIOUS
<1>1. chunks = [d \in Doc |-> <<>>] /\ text = [d \in Doc |-> <<>>] /\ catalogue = [d \in Doc |-> <<>>]
  BY DEF Init, NoCatalogue
<1>2. visible = {} /\ turn = "idle"
  BY DEF Init
<1>3. <<>> \in Seq(Chunks) /\ <<>> \in Seq(Par) /\ <<>> \in Seq(Paths)
  BY EmptySeq
<1>4. Documents
  BY <1>1, <1>2, <1>3 DEF Documents, Complete
<1>5. Turns
  BY <1>1, <1>2, <1>3 DEF Turns
<1>6. UsedIsCited
  BY <1>2 DEF UsedIsCited
<1> QED BY <1>4, <1>5, <1>6 DEF IInv

(* A step that leaves the documents alone leaves them whole. *)
LEMMA DocumentsKept ==
  ASSUME Documents, chunks' = chunks, text' = text, visible' \subseteq Doc
  PROVE  Documents'
BY DEF Documents, Complete

(* A step that leaves the turn alone leaves it able to cite what it finds. *)
LEMMA TurnKept ==
  ASSUME Turns, UsedIsCited, UNCHANGED turnVars
  PROVE  Turns' /\ UsedIsCited'
BY DEF Turns, UsedIsCited, turnVars

(* Processing a document. *)
LEMMA ProcessStep ==
  ASSUME IInv, NEW d \in Doc, Process(d)
  PROVE  IInv'
<1>1. PICK pages \in Pages[d] :
        /\ \E labels \in [DOMAIN SectionsOf(Combined(pages)) -> Label[d]],
              titles \in [DOMAIN SectionsOf(Combined(pages)) -> Titles[d]] :
             chunks' = [chunks EXCEPT ![d] = Assemble(NameOf[d], SectionsOf(Combined(pages)), labels, titles)]
        /\ text' = [text EXCEPT ![d] = Combined(pages)]
  BY DEF Process
<1>0. PICK labels \in [DOMAIN SectionsOf(Combined(pages)) -> Label[d]],
           titles \in [DOMAIN SectionsOf(Combined(pages)) -> Titles[d]] :
        chunks' = [chunks EXCEPT ![d] = Assemble(NameOf[d], SectionsOf(Combined(pages)), labels, titles)]
  BY <1>1
<1>2. visible' = visible \cup {d} /\ UNCHANGED turnVars
  BY DEF Process
<1>3. PICK x : x = Assemble(NameOf[d], SectionsOf(Combined(pages)), labels, titles)
  OBVIOUS
<1>4. PICK whole : whole = Combined(pages)
  OBVIOUS
<1>5. /\ Assembled(x, Len(x) - 1, NameOf[d], Body(x)) /\ x \in Seq(Chunks)
      /\ Body(x) \in Seq(Bounded) /\ Whole(Body(x), whole) /\ whole \in Seq(Par)
  BY <1>3, <1>4, AssembledComplete
<1>6. chunks' = [chunks EXCEPT ![d] = x] /\ text' = [text EXCEPT ![d] = whole]
  BY <1>0, <1>1, <1>3, <1>4
<1>7. chunks \in [Doc -> Seq(Chunks)] /\ text \in [Doc -> Seq(Par)] /\ visible \subseteq Doc /\ \A e \in Doc : Complete(e)
  BY DEF IInv, Documents
<1>8. ASSUME NEW e \in Doc PROVE Complete(e)'
  <2>1. CASE e = d
    <3>1. chunks'[e] = x /\ text'[e] = whole
      BY <1>6, <1>7, <2>1
    <3> QED BY <1>5, <2>1, <3>1 DEF Complete
  <2>2. CASE e # d
    <3>1. chunks'[e] = chunks[e] /\ text'[e] = text[e]
      BY <1>6, <1>7, <2>2
    <3> QED BY <1>7, <3>1 DEF Complete
  <2> QED BY <2>1, <2>2
<1>9. chunks' \in [Doc -> Seq(Chunks)] /\ text' \in [Doc -> Seq(Par)] /\ visible' \subseteq Doc
  BY <1>2, <1>5, <1>6, <1>7
<1>10. Documents'
  BY <1>8, <1>9 DEF Documents
<1> QED BY <1>2, <1>10, TurnKept DEF IInv

(* Listing the catalogue. *)
LEMMA ListCatalogStep ==
  ASSUME IInv, ListCatalog
  PROVE  IInv'
<1>1. ASSUME NEW d \in Doc PROVE PathsOf(d) \in Seq(Paths)
  <2>1. PICK x \in Seq(Chunks) : x = chunks[d]
    BY DEF IInv, Documents
  <2>2. PICK N \in Nat : N = Len(x) /\ DOMAIN x = 1 .. N
    BY LenProperties
  <2>3. \A n \in 1 .. N : x[n].path \in Paths
    <3>1. \A n \in 1 .. N : x[n] \in Chunks
      BY <2>2, ElementOfSeq
    <3> QED BY <3>1 DEF Chunks, Paths
  <2>4. PathsOf(d) = [n \in 1 .. N |-> x[n].path]
    BY <2>1, <2>2 DEF PathsOf
  <2>5. PathsOf(d) \in [1 .. N -> Paths]
    BY <2>3, <2>4
  <2> QED BY <2>5, FunctionSeq
<1>2. <<>> \in Seq(Paths)
  BY EmptySeq
<1>3. catalogue' = [d \in Doc |-> IF d \in visible THEN PathsOf(d) ELSE <<>>] /\ turn' = "select"
  BY DEF ListCatalog
<1>4. Turns'
  BY <1>1, <1>2, <1>3 DEF Turns
<1>5. UsedIsCited'
  BY <1>3 DEF UsedIsCited
<1>6. Documents'
  BY DocumentsKept DEF IInv, Documents, ListCatalog, docVars
<1> QED BY <1>4, <1>5, <1>6 DEF IInv

(* Selecting chunks. *)
LEMMA SelectStep ==
  ASSUME IInv, Select
  PROVE  IInv'
<1>1. catalogue \in [Doc -> Seq(Paths)] /\ Documents
  BY DEF IInv, Turns
<1>0. PICK S \in SUBSET UNION {CandidatesOf(d) : d \in Doc} :
        /\ Cardinality(S) <= MaxSelected
        /\ \E choice \in SetToSeqs(S) : selected' = Overviews(choice) \o Below(choice)
  BY DEF Select
<1>2. PICK choice \in SetToSeqs(S) : selected' = Overviews(choice) \o Below(choice)
  BY <1>0
<1>3. IsFiniteSet(S) /\ S \subseteq Paths
  BY <1>1, CandidatesFinite, FS_Subset
<1>4. PICK N \in Nat : N = Cardinality(S) /\ choice \in [1 .. N -> S]
  BY <1>3, FS_CardinalityType DEF SetToSeqs
<1>5. choice \in [1 .. N -> Paths]
  BY <1>3, <1>4
<1>6. choice \in Seq(Paths) /\ Len(choice) <= MaxSelected
  BY <1>0, <1>4, <1>5, FunctionSeq
<1>7. Chosen(selected')
  BY <1>2, <1>6, SelectionChosen
<1>8. catalogue' \in {NoCatalogue, catalogue} /\ turn' \in {"idle", "fetch"}
  BY DEF Select
<1>9. NoCatalogue \in [Doc -> Seq(Paths)]
  BY EmptySeq DEF NoCatalogue
<1>10. Turns'
  BY <1>1, <1>7, <1>8, <1>9 DEF Turns, Chosen
<1>11. UsedIsCited'
  BY <1>8 DEF UsedIsCited
<1>12. Documents'
  BY <1>1, DocumentsKept DEF Documents, Select, docVars
<1> QED BY <1>10, <1>11, <1>12 DEF IInv

(* Fetching their contents. *)
LEMMA FetchStep ==
  ASSUME IInv, FetchContents
  PROVE  IInv'
<1>1. Documents /\ Chosen(selected)
  BY DEF IInv, Turns, FetchContents
<1>2. used' = Found(selected) /\ turn' = "answer" /\ catalogue' = NoCatalogue
  BY DEF FetchContents
<1>3. Found(selected) # <<>> => CitedOf(Found(selected)) \subseteq cited'
  BY DEF FetchContents
<1>4. ASSUME NEW u \in ToSet(used'), Clear(<<Head(u.path)>>) PROVE TopLevelPdf(u.path) \in cited'
  <2>1. Found(selected) # <<>>
    BY <1>2 DEF ToSet
  <2> QED BY <1>1, <1>2, <1>3, <1>4, <2>1, FoundIsCited
<1>5. UsedIsCited'
  BY <1>4 DEF UsedIsCited
<1>6. NoCatalogue \in [Doc -> Seq(Paths)]
  BY EmptySeq DEF NoCatalogue
<1>7. Turns'
  BY <1>2, <1>6 DEF Turns
<1>8. Documents'
  BY <1>1, DocumentsKept DEF Documents, FetchContents, docVars
<1> QED BY <1>5, <1>7, <1>8 DEF IInv

(* The invariant is inductive. *)
LEMMA IInvStep == IInv /\ [Next]_vars => IInv'
<1> SUFFICES ASSUME IInv, [Next]_vars PROVE IInv'
  OBVIOUS
<1>1. ASSUME NEW d \in Doc, Process(d) PROVE IInv'
  BY <1>1, ProcessStep
<1>2. ASSUME NEW d \in Doc, Hide(d) PROVE IInv'
  <2>1. visible' \subseteq Doc /\ chunks' = chunks /\ text' = text /\ UNCHANGED turnVars
    BY <1>2 DEF Hide, IInv, Documents
  <2> QED BY <2>1, DocumentsKept, TurnKept DEF IInv
<1>3. ASSUME NEW d \in Doc, Show(d) PROVE IInv'
  <2>1. visible' \subseteq Doc /\ chunks' = chunks /\ text' = text /\ UNCHANGED turnVars
    BY <1>3 DEF Show, IInv, Documents
  <2> QED BY <2>1, DocumentsKept, TurnKept DEF IInv
<1>4. CASE ListCatalog
  BY <1>4, ListCatalogStep
<1>5. CASE Select
  BY <1>5, SelectStep
<1>6. CASE FetchContents
  BY <1>6, FetchStep
<1>7. CASE Answer
  <2>1. turn' = "idle" /\ catalogue' = catalogue /\ UNCHANGED docVars
    BY <1>7 DEF Answer
  <2>2. Turns' /\ UsedIsCited'
    BY <2>1 DEF Turns, UsedIsCited, IInv
  <2>3. Documents'
    BY <2>1, DocumentsKept DEF Documents, docVars, IInv
  <2> QED BY <2>2, <2>3 DEF IInv
<1>8. CASE UNCHANGED vars
  <2>1. UNCHANGED docVars /\ UNCHANGED turnVars
    BY <1>8 DEF vars
  <2> QED BY <2>1, DocumentsKept, TurnKept DEF IInv, Documents, docVars
<1> QED BY <1>1, <1>2, <1>3, <1>4, <1>5, <1>6, <1>7, <1>8 DEF Next

(* Whatever is published, hidden, processed again and asked for, in any order,
   the invariant holds. *)
THEOREM InvariantHolds == Spec => []IInv
<1>1. Init => IInv
  BY IInvInit
<1>2. IInv /\ [Next]_vars => IInv'
  BY IInvStep
<1> QED BY <1>1, <1>2, PTL DEF Spec

(* What is published of a document is all of it: splitMarkdownIntoSections loses,
   repeats and reorders nothing and makes no section longer than CHUNK_MAX_CHARS
   but for a heading that leaves it no choice, and assembleChunkArtifacts gives
   every section a path of its own below the document's name, which goes nowhere
   else and is empty at most at its ends, for pages of any number and length,
   whatever paths the model proposes and whatever titles stand in for them. *)
THEOREM PublishedWhole == Spec => []PublishedIsWhole
<1>1. IInv => PublishedIsWhole
  BY CompleteIsWhole DEF IInv, Documents
<1> QED BY <1>1, InvariantHolds, PTL

(* The reader is told of every document from which the model got something,
   however few chunks are cited and however the documents have changed since
   the catalogue was listed (appendFePdfResourceEntryFromUsed). *)
THEOREM UsedCited == Spec => []UsedIsCited
<1>1. IInv => UsedIsCited
  BY DEF IInv
<1> QED BY <1>1, InvariantHolds, PTL

(* A chosen chunk reaches the model as long as its document is visible, and
   nothing that is hidden or gone does (getContentsByPaths). *)
THEOREM SelectedFound == Spec => SelectedIsFound
<1>1. ASSUME IInv, [Next]_vars, turn = "fetch", turn' = "answer"
      PROVE  /\ \A c \in Readable : c.path \in ToSet(selected) /\ Clear(c.path) =>
                                     [path |-> c.path, hit |-> c] \in ToSet(used')
             /\ \A u \in ToSet(used') : u.hit \in Readable
  <2>1. FetchContents
    BY <1>1 DEF Next, Process, Hide, Show, ListCatalog, Select, Answer, vars, turnVars
  <2>2. Documents /\ Chosen(selected) /\ used' = Found(selected)
    BY <1>1, <2>1 DEF IInv, Turns, FetchContents
  <2>3. PICK finds : finds = used' /\ Finding(selected, finds) /\ selected \in Seq(Paths)
    BY <2>2, FoundWhole DEF Chosen
  <2>4. ASSUME NEW c \in Readable, c.path \in ToSet(selected), Clear(c.path)
        PROVE  [path |-> c.path, hit |-> c] \in ToSet(finds)
    <3>1. Hits(c.path) = {c} /\ Find(c.path) = [path |-> c.path, hit |-> c]
      BY <2>2, <2>4, HitIsChunk
    <3>2. PICK k \in 1 .. Len(selected) : selected[k] = c.path
      <4>1. DOMAIN selected = 1 .. Len(selected)
        BY <2>3, LenProperties
      <4> QED BY <2>4, <4>1 DEF ToSet
    <3>3. PICK j \in 1 .. Len(finds) : finds[j] = Find(c.path)
      BY <2>3, <3>1, <3>2 DEF Finding
    <3>4. DOMAIN finds = 1 .. Len(finds)
      BY <2>3, LenProperties DEF Finding
    <3> QED BY <3>1, <3>3, <3>4 DEF ToSet
  <2>5. \A u \in ToSet(finds) : u.hit \in Readable
    BY <2>3 DEF Finding, Hits
  <2> QED BY <2>3, <2>4, <2>5
<1>2. IInv /\ [Next]_vars =>
        [turn = "fetch" /\ turn' = "answer" =>
           /\ \A c \in Readable : c.path \in ToSet(selected) /\ Clear(c.path) =>
                                  [path |-> c.path, hit |-> c] \in ToSet(used')
           /\ \A u \in ToSet(used') : u.hit \in Readable]_vars
  BY <1>1
<1> QED BY <1>2, InvariantHolds, PTL DEF Spec, SelectedIsFound
=============================================================================
