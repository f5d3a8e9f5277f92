---------------------------- MODULE Billing_proofs ----------------------------
(***************************************************************************)
(* Proofs about modules PaymentImport and Accounting, the two views of a   *)
(* registrar's money.                                                      *)
(*                                                                         *)
(* PaymentImport: for any number of importers, debts, payments, aborts and *)
(* deadlock victims, the committed credit agrees with the committed        *)
(* invoices, and no payment brings more credit than its price.  A          *)
(* transaction decides by balances it has read without a lock.  The        *)
(* invariant says in which way such a balance may be out of date: it is    *)
(* only ever too high, for every commit lowers a balance or makes it zero. *)
(* With the rows a transaction keeps locked, whose balances stand still,   *)
(* and the books each transaction keeps of its own changes, it is          *)
(* inductive.                                                              *)
(*                                                                         *)
(* Accounting: for any VAT rate, prices and calendar, the tables keep      *)
(* their types (no balance below zero), a fee is charged once for a month, *)
(* and a payment is credited to less than one cent.  The work is in the    *)
(* loops: processPayment over the debts, create_account_invoice over the   *)
(* operations and advances, which compute a waterfall whatever their       *)
(* input.  From these the books close: the inductive invariant BooksInv    *)
(* is the properties themselves, said of tables as values, and that an     *)
(* operation is accounted for by an invoice there is.  That prepaid work   *)
(* leaves no debt needs more (CoverInv): for every day, the deposits dated *)
(* up to it cover the operations up to it that wait for a default run.     *)
(***************************************************************************)
EXTENDS Accounting, PaymentImport, FiniteSetTheorems, TLAPS

(* Sums and loops are FoldLeft of the community modules, which folds over  *)
(* the subsets of the domain, largest index first.  The facts about it are *)
(* proved by smallest counterexample.                                      *)
LEMMA SmallestSubset ==
    ASSUME NEW S, IsFiniteSet(S), NEW Bad \in SUBSET SUBSET S, Bad # {}
    PROVE  \E s \in Bad : \A t \in Bad : ~(t \subseteq s /\ t # s)
<1> DEFINE R == StrictSubsetOrdering(S)
<1>1. \A s, t \in SUBSET S : t \subseteq s /\ t # s => <<t, s>> \in R
  BY DEF StrictSubsetOrdering
<1>2. IsWellFoundedOn(R, SUBSET S)
  BY FS_StrictSubsetOrderingWellFounded, FS_FiniteSubsetsOfFinite
<1> HIDE DEF R
<1>3. PICK s \in Bad : \A t \in Bad : ~(<<t, s>> \in R)
  BY <1>2, WFMin
<1>4. QED
  BY <1>1, <1>3

LEMMA SmallestNumber ==
    ASSUME NEW Bad \in SUBSET Nat, Bad # {}
    PROVE  \E k \in Bad : \A m \in Bad : k <= m
<1>1. PICK n \in Bad : TRUE
  OBVIOUS
<1> DEFINE S == 1 .. n
           Below == {s \in SUBSET S : \E k \in Bad : s = 1 .. k}
<1>2. IsFiniteSet(S)
  BY FS_Interval
<1>3. Below \in SUBSET SUBSET S /\ S \in Below
  BY <1>1
<1> HIDE DEF Below, S
<1>4. PICK s \in Below : \A t \in Below : ~(t \subseteq s /\ t # s)
  BY <1>2, <1>3, SmallestSubset
<1>5. PICK k \in Bad : s = 1 .. k /\ k <= n
  BY <1>4 DEF Below, S
<1>6. ASSUME NEW m \in Bad, m < k PROVE FALSE
  <2>1. 1 .. m \in Below
    BY <1>5, <1>6 DEF Below, S
  <2>2. 1 .. m \subseteq s /\ 1 .. m # s
    BY <1>5, <1>6
  <2>3. QED
    BY <1>4, <2>1, <2>2
<1>7. QED
  BY <1>5, <1>6

LEMMA NumberInduction ==
    ASSUME NEW n \in Nat, NEW Good, 0 \in Good, \A k \in 1 .. n : k - 1 \in Good => k \in Good
    PROVE  \A k \in 0 .. n : k \in Good
<1> DEFINE Bad == {k \in 0 .. n : k \notin Good}
<1> SUFFICES ASSUME Bad # {} PROVE FALSE
  OBVIOUS
<1>1. \E k \in Bad : \A m \in Bad : k <= m
  <2>1. Bad \in SUBSET Nat
    OBVIOUS
  <2> HIDE DEF Bad
  <2>2. QED
    BY <2>1, SmallestNumber
<1>2. PICK k \in Bad : \A m \in Bad : k <= m
  BY <1>1
<1>3. k \in 1 .. n /\ k - 1 \notin Bad
  BY <1>2
<1>4. QED
  BY <1>2, <1>3

LEMMA LargestIndex ==
    ASSUME NEW n \in Nat, NEW s, s \subseteq 1 .. n, s # {}
    PROVE  Max(s) \in s /\ \A i \in s : i <= Max(s)
<1> DEFINE Gaps == {g \in Nat : \E i \in s : g = n - i}
<1>1. Gaps \in SUBSET Nat /\ Gaps # {}
  <2>1. PICK i \in s : TRUE
    OBVIOUS
  <2>2. n - i \in Gaps
    BY <2>1
  <2>3. QED
    BY <2>2
<1>2. \E g \in Gaps : \A h \in Gaps : g <= h
  <2> HIDE DEF Gaps
  <2>1. QED
    BY <1>1, SmallestNumber
<1>3. PICK g \in Gaps : \A h \in Gaps : g <= h
  BY <1>2
<1>4. PICK i \in s : g = n - i
  BY <1>3
<1>5. \A j \in s : i >= j
  <2>1. \A j \in s : n - j \in Gaps
    OBVIOUS
  <2>2. QED
    BY <1>3, <1>4, <2>1
<1>6. \E x \in s : \A y \in s : x >= y
  BY <1>5
<1>7. QED
  BY <1>6 DEF Max

LEMMA IndexSetsAreFinite ==
    ASSUME NEW n \in Nat, NEW S, S \subseteq 1 .. n
    PROVE  IsFiniteSet(S)
<1>1. 1 \in Int /\ n \in Int
  OBVIOUS
<1>2. IsFiniteSet(1 .. n)
  BY <1>1, FS_Interval
<1>3. QED
  BY <1>2, FS_Subset

(* All that the recursion needs of the set of indices.                     *)
Indices(S) == IsFiniteSet(S) /\ \A s \in SUBSET S : s # {} => Max(s) \in s

LEMMA IntervalsAreIndices == ASSUME NEW n \in Nat PROVE Indices(1 .. n)
<1>1. IsFiniteSet(1 .. n)
  BY IndexSetsAreFinite
<1>2. \A s \in SUBSET (1 .. n) : s # {} => Max(s) \in s
  BY LargestIndex
<1>3. QED
  BY <1>1, <1>2 DEF Indices

LEMMA SubsetsAreIndices ==
    ASSUME NEW S, NEW T, Indices(S), T \subseteq S PROVE Indices(T)
  BY FS_Subset DEF Indices

LEMMA SmallestIndices ==
    ASSUME NEW S, Indices(S), NEW Bad, Bad \subseteq SUBSET S, Bad # {}
    PROVE  \E s \in Bad : \A t \in Bad : ~(t \subseteq s /\ t # s)
  BY SmallestSubset DEF Indices

(* A set of subsets that has {} and every s whose s without its last index *)
(* it has, has them all.                                                   *)
Inductive(Good, S) ==
    \A s \in SUBSET S : (s # {} => s \ {Max(s)} \in Good) => s \in Good

LEMMA IndexInduction ==
    ASSUME NEW S, Indices(S), NEW Good, Inductive(Good, S)
    PROVE  \A s \in SUBSET S : s \in Good
<1> DEFINE Bad == {s \in SUBSET S : s \notin Good}
<1> SUFFICES ASSUME Bad # {} PROVE FALSE
  OBVIOUS
<1>1. PICK s \in Bad : \A t \in Bad : ~(t \subseteq s /\ t # s)
  <2>1. Bad \subseteq SUBSET S
    OBVIOUS
  <2> HIDE DEF Bad
  <2>2. QED
    BY <2>1, SmallestIndices
<1>2. s \in SUBSET S /\ s \notin Good
  OBVIOUS
<1>3. ASSUME s # {} PROVE s \ {Max(s)} \in Good
  <2>1. Max(s) \in s
    BY <1>2, <1>3 DEF Indices
  <2>2. s \ {Max(s)} \notin Bad
    BY <1>1, <2>1
  <2>3. QED
    BY <1>2, <2>2
<1>4. QED
  BY <1>2, <1>3 DEF Inductive

(* g folds step over the subsets of S, last index first, as FoldLeft does. *)
Runs(g, base, step, S) ==
    g = [s \in SUBSET S |-> IF s = {} THEN base ELSE step[<<g[s \ {Max(s)}], Max(s)>>]]

LEMMA RunsAgree ==
    ASSUME NEW S, Indices(S), NEW T, T \subseteq S, NEW base, NEW step,
           NEW g, NEW h, Runs(g, base, step, S), Runs(h, base, step, T)
    PROVE  g[T] = h[T]
<1> DEFINE Good == {s \in SUBSET T : g[s] = h[s]}
<1>1. Indices(T)
  BY SubsetsAreIndices
<1>2. ASSUME NEW s \in SUBSET T, s # {} => s \ {Max(s)} \in Good PROVE s \in Good
  <2>1. /\ g[s] = IF s = {} THEN base ELSE step[<<g[s \ {Max(s)}], Max(s)>>]
        /\ h[s] = IF s = {} THEN base ELSE step[<<h[s \ {Max(s)}], Max(s)>>]
    BY DEF Runs
  <2>2. g[s] = h[s]
    BY <1>2, <2>1
  <2>3. QED
    BY <2>2
<1>3. Inductive(Good, T)
  BY <1>2 DEF Inductive
<1>4. T \in Good
  <2> HIDE DEF Good
  <2>1. QED
    BY <1>1, <1>3, IndexInduction
<1>5. QED
  BY <1>4

(* The recursion has a solution: on the way up, the solutions of the       *)
(* smaller sets fit together.                                              *)
LEMMA RunsExist ==
    ASSUME NEW S, Indices(S), NEW base, NEW step
    PROVE  \E g : Runs(g, base, step, S)
<1> DEFINE Bad == {s \in SUBSET S : ~\E g : Runs(g, base, step, s)}
<1> SUFFICES ASSUME Bad # {} PROVE FALSE
  OBVIOUS
<1>1. PICK s \in Bad : \A t \in Bad : ~(t \subseteq s /\ t # s)
  <2>1. Bad \subseteq SUBSET S
    OBVIOUS
  <2> HIDE DEF Bad
  <2>2. QED
    BY <2>1, SmallestIndices
<1>2. s \in SUBSET S /\ ~\E g : Runs(g, base, step, s)
  OBVIOUS
<1>3. \A t \in SUBSET S : t \subseteq s /\ t # s => \E g : Runs(g, base, step, t)
  BY <1>1
<1> HIDE DEF Bad
<1> DEFINE G(t) == CHOOSE g : Runs(g, base, step, t)
<1>4. \A t \in SUBSET s : t # s => Runs(G(t), base, step, t)
  BY <1>2, <1>3
<1> DEFINE below(t) == t \ {Max(t)}
           v(t) == IF t = {} THEN base ELSE step[<<G(below(t))[below(t)], Max(t)>>]
           f == [t \in SUBSET s |-> v(t)]
<1>5. ASSUME NEW t \in SUBSET s, t # s PROVE G(t)[t] = v(t)
  <2>1. Runs(G(t), base, step, t)
    BY <1>4, <1>5
  <2> HIDE DEF G
  <2>2. G(t)[t] = IF t = {} THEN base ELSE step[<<G(t)[below(t)], Max(t)>>]
    BY <2>1 DEF Runs
  <2>3. CASE t # {}
    <3>2. Max(t) \in t
      BY <1>2, <2>3 DEF Indices
    <3>3. below(t) \subseteq t /\ below(t) \in SUBSET s /\ below(t) # s
      BY <3>2
    <3>4. Runs(G(below(t)), base, step, below(t)) /\ Indices(t)
      BY <1>2, <1>4, <3>3, SubsetsAreIndices
    <3>5. G(below(t))[below(t)] = G(t)[below(t)]
      <4> HIDE DEF below
      <4>1. QED
        BY <2>1, <3>3, <3>4, RunsAgree
    <3>6. QED
      BY <2>2, <2>3, <3>5
  <2>4. QED
    BY <2>2, <2>3
<1>6. \A t \in SUBSET s : t # {} => f[below(t)] = G(below(t))[below(t)]
  <2> SUFFICES ASSUME NEW t \in SUBSET s, t # {}
               PROVE  f[below(t)] = G(below(t))[below(t)]
    OBVIOUS
  <2>1. Max(t) \in t
    BY <1>2 DEF Indices
  <2>2. below(t) \in SUBSET s /\ below(t) # s
    BY <2>1
  <2> HIDE DEF below, G, v
  <2>3. QED
    BY <1>5, <2>2
<1>7. Runs(f, base, step, s)
  <2> DEFINE u(t) == IF t = {} THEN base ELSE step[<<f[below(t)], Max(t)>>]
  <2>1. ASSUME NEW t \in SUBSET s PROVE v(t) = u(t)
    <3> HIDE DEF below, G, f
    <3>1. QED
      BY <1>6, <2>1
  <2> HIDE DEF u, v
  <2>2. [t \in SUBSET s |-> v(t)] = [t \in SUBSET s |-> u(t)]
    BY <2>1
  <2>3. QED
    BY <2>2 DEF Runs, u
<1>8. QED
  BY <1>2, <1>7

(* The steps stay in U.                                                    *)
Closed(step, U, S) == \A y \in U, i \in S : step[<<y, i>>] \in U

(* All results of a fold stay in a set that its steps stay in.             *)
LEMMA RunsStay ==
    ASSUME NEW S, Indices(S), NEW U, NEW base \in U, NEW step, Closed(step, U, S),
           NEW g, Runs(g, base, step, S)
    PROVE  \A s \in SUBSET S : g[s] \in U
<1> DEFINE Good == {s \in SUBSET S : g[s] \in U}
<1>1. ASSUME NEW s \in SUBSET S, s # {} => s \ {Max(s)} \in Good PROVE s \in Good
  <2>1. g[s] = IF s = {} THEN base ELSE step[<<g[s \ {Max(s)}], Max(s)>>]
    BY DEF Runs
  <2>2. s # {} => Max(s) \in S
    BY DEF Indices
  <2>3. g[s] \in U
    BY <1>1, <2>1, <2>2 DEF Closed
  <2>4. QED
    BY <2>3
<1>2. Inductive(Good, S)
  BY <1>1 DEF Inductive
<1>3. \A s \in SUBSET S : s \in Good
  <2> HIDE DEF Good
  <2>1. QED
    BY <1>2, IndexInduction
<1>4. QED
  BY <1>3

(* The state of a loop after its first n turns.                            *)
RunTo(base, step, n) == (CHOOSE g : Runs(g, base, step, 1 .. n))[1 .. n]

LEMMA RunToStep ==
    ASSUME NEW base, NEW step, NEW k \in Nat
    PROVE  /\ RunTo(base, step, 0) = base
           /\ RunTo(base, step, k + 1) = step[<<RunTo(base, step, k), k + 1>>]
<1> DEFINE G(i) == CHOOSE g : Runs(g, base, step, 1 .. i)
<1>1. ASSUME NEW i \in Nat PROVE Runs(G(i), base, step, 1 .. i)
  <2>1. \E g : Runs(g, base, step, 1 .. i)
    BY IntervalsAreIndices, RunsExist
  <2>2. QED
    BY <2>1
<1> HIDE DEF G
<1>2. G(0)[1 .. 0] = base
  <2>1. Runs(G(0), base, step, 1 .. 0) /\ 1 .. 0 = {}
    BY <1>1
  <2>2. QED
    BY <2>1 DEF Runs
<1> DEFINE S == 1 .. k + 1
           T == 1 .. k
<1>3. /\ S # {} /\ S \subseteq 1 .. k + 1 /\ T \subseteq 1 .. k + 1 /\ k + 1 \in Nat
      /\ k + 1 \in S /\ \A i \in S : i <= k + 1
  OBVIOUS
<1>4. Max(S) = k + 1
  <2>1. Max(S) \in S /\ \A i \in S : i <= Max(S)
    <3> HIDE DEF S, T
    <3> DEFINE m == k + 1
    <3>1. m \in Nat /\ S \subseteq 1 .. m /\ S # {}
      BY <1>3
    <3> HIDE DEF m
    <3>2. QED
      BY <3>1, LargestIndex
  <2>2. QED
    BY <1>3, <2>1
<1>5. S \ {k + 1} = T /\ T \subseteq S
  OBVIOUS
<1>6. Runs(G(k + 1), base, step, S) /\ Runs(G(k), base, step, T)
  BY <1>1
<1> HIDE DEF S, T
<1>7. G(k + 1)[S] = step[<<G(k + 1)[T], k + 1>>]
  BY <1>3, <1>4, <1>5, <1>6 DEF Runs
<1>8. G(k)[T] = G(k + 1)[T]
  <2>1. Indices(S)
    BY IntervalsAreIndices DEF S
  <2> DEFINE g == G(k)
             h == G(k + 1)
  <2>2. T \subseteq S /\ Runs(g, base, step, T) /\ Runs(h, base, step, S)
    BY <1>5, <1>6
  <2> HIDE DEF g, h
  <2>3. h[T] = g[T]
    BY <2>1, <2>2, RunsAgree
  <2>4. QED
    BY <2>3 DEF g, h
<1>9. QED
  BY <1>2, <1>7, <1>8 DEF RunTo, G, S, T

LEMMA RunToStays ==
    ASSUME NEW n \in Nat, NEW U, NEW base \in U, NEW step, Closed(step, U, 1 .. n)
    PROVE  \A k \in 0 .. n : RunTo(base, step, k) \in U
<1> DEFINE Good == {k \in 0 .. n : RunTo(base, step, k) \in U}
<1>1. 0 \in Good
  <2>1. RunTo(base, step, 0) \in U
    BY RunToStep
  <2>2. QED
    BY <2>1
<1>2. ASSUME NEW k \in 1 .. n, k - 1 \in Good PROVE k \in Good
  <2>1. k - 1 \in Nat /\ (k - 1) + 1 = k
    OBVIOUS
  <2>2. RunTo(base, step, k) = step[<<RunTo(base, step, k - 1), k>>]
    BY <2>1, RunToStep
  <2>3. QED
    BY <1>2, <2>2 DEF Closed
<1>3. \A k \in 0 .. n : k \in Good
  <2> HIDE DEF Good
  <2>1. QED
    BY <1>1, <1>2, NumberInduction
<1>4. QED
  BY <1>3

(* The states after each turn.                                             *)
RunTrace(g, base, step, U, n) ==
    /\ g \in [0 .. n -> U] /\ g[0] = base /\ g[n] = RunTo(base, step, n)
    /\ \A k \in 1 .. n : g[k] = step[<<g[k - 1], k>>]

LEMMA RunToTrace ==
    ASSUME NEW n \in Nat, NEW U, NEW base \in U, NEW step, Closed(step, U, 1 .. n)
    PROVE  \E g : RunTrace(g, base, step, U, n)
<1>1. PICK g : g = [k \in 0 .. n |-> RunTo(base, step, k)]
  OBVIOUS
<1>2. \A k \in 0 .. n : RunTo(base, step, k) \in U
  BY RunToStays
<1>3. RunTo(base, step, 0) = base
  BY RunToStep
<1>4. ASSUME NEW k \in 1 .. n PROVE g[k] = step[<<g[k - 1], k>>]
  <2>1. PICK j \in Nat : j = k - 1
    OBVIOUS
  <2>2. RunTo(base, step, j + 1) = step[<<RunTo(base, step, j), j + 1>>]
    BY RunToStep
  <2>3. j + 1 = k /\ g[k] = RunTo(base, step, k) /\ g[j] = RunTo(base, step, j)
    BY <1>1, <2>1
  <2>4. QED
    BY <2>1, <2>2, <2>3
<1>5. g \in [0 .. n -> U] /\ g[0] = base /\ g[n] = RunTo(base, step, n)
  BY <1>1, <1>2, <1>3
<1>6. RunTrace(g, base, step, U, n)
  BY <1>4, <1>5 DEF RunTrace
<1>7. QED
  BY <1>6

(* A fold of an operator is a fold of step, if step is the operator on U   *)
(* and its results stay in U: f is then a solution of the recursion of the *)
(* operator too, and h, a solution of it, is f.                            *)
Follows(h, base, step, U, S) ==
    \A s \in SUBSET S :
        /\ s = {} => h[s] = base
        /\ s # {} /\ h[s \ {Max(s)}] \in U => h[s] = step[<<h[s \ {Max(s)}], Max(s)>>]

LEMMA FollowersRun ==
    ASSUME NEW n \in Nat, NEW U, NEW base \in U, NEW step, Closed(step, U, 1 .. n),
           NEW h, Follows(h, base, step, U, 1 .. n)
    PROVE  h[1 .. n] = RunTo(base, step, n)
<1> DEFINE S == 1 .. n
           g == CHOOSE f : Runs(f, base, step, S)
           Good == {s \in SUBSET S : h[s] = g[s]}
<1>1. Indices(S)
  BY IntervalsAreIndices
<1>2. Closed(step, U, S) /\ Follows(h, base, step, U, S)
  OBVIOUS
<1>3. RunTo(base, step, n) = g[S]
  BY DEF RunTo
<1>4. S \in SUBSET S
  OBVIOUS
<1> HIDE DEF S
<1>5. Runs(g, base, step, S)
  <2>1. \E f : Runs(f, base, step, S)
    BY <1>1, RunsExist
  <2>2. QED
    BY <2>1
<1> HIDE DEF g
<1>6. \A s \in SUBSET S : g[s] \in U
  BY <1>1, <1>2, <1>5, RunsStay
<1>7. ASSUME NEW s \in SUBSET S, s # {} => s \ {Max(s)} \in Good PROVE s \in Good
  <2>1. g[s] = IF s = {} THEN base ELSE step[<<g[s \ {Max(s)}], Max(s)>>]
    BY <1>5 DEF Runs
  <2>2. s # {} => h[s \ {Max(s)}] = g[s \ {Max(s)}] /\ g[s \ {Max(s)}] \in U
    BY <1>6, <1>7
  <2>3. h[s] = g[s]
    BY <1>2, <2>1, <2>2 DEF Follows
  <2>4. QED
    BY <2>3
<1>8. Inductive(Good, S)
  BY <1>7 DEF Inductive
<1>9. S \in Good
  <2> HIDE DEF Good
  <2>1. QED
    BY <1>1, <1>4, <1>8, IndexInduction
<1>10. QED
  BY <1>3, <1>9 DEF S

(* Sums.  w is a sequence of n integers.                                   *)
Integers(w, n) == DOMAIN w = 1 .. n /\ \A i \in 1 .. n : w[i] \in Int

Plus(w) == [p \in Int \X DOMAIN w |-> p[1] + w[p[2]]]

LEMMA SumRuns ==
    ASSUME NEW n \in Nat, NEW w, Integers(w, n)
    PROVE  Sum(w) = RunTo(0, Plus(w), n)
<1> DEFINE S == 1 .. n
           Solves(g) == g = [s \in SUBSET S |-> IF s = {} THEN 0 ELSE g[s \ {Max(s)}] + w[Max(s)]]
           h == CHOOSE g : Solves(g)
<1>1. Sum(w) = h[S]
  BY DEF Sum, FoldLeft, MapThenFoldSet, Integers
<1>2. Indices(S)
  BY IntervalsAreIndices
<1>3. \A y \in Int, i \in S : Plus(w)[<<y, i>>] = y + w[i] /\ y + w[i] \in Int
  BY DEF Integers, Plus
<1>4. Closed(Plus(w), Int, S)
  BY <1>3 DEF Closed
<1> HIDE DEF S
<1>5. PICK g : Runs(g, 0, Plus(w), S)
  BY <1>2, RunsExist
<1>6. \A s \in SUBSET S : g[s] \in Int
  BY <1>2, <1>4, <1>5, RunsStay
<1>7. Solves(g)
  <2> DEFINE v(s) == IF s = {} THEN 0 ELSE Plus(w)[<<g[s \ {Max(s)}], Max(s)>>]
             u(s) == IF s = {} THEN 0 ELSE g[s \ {Max(s)}] + w[Max(s)]
  <2>1. ASSUME NEW s \in SUBSET S PROVE v(s) = u(s)
    <3>1. s # {} => Max(s) \in S /\ s \ {Max(s)} \in SUBSET S
      BY <1>2 DEF Indices
    <3>2. QED
      BY <1>3, <1>6, <3>1
  <2>2. g = [s \in SUBSET S |-> v(s)]
    BY <1>5 DEF Runs
  <2> HIDE DEF u, v
  <2>3. g = [s \in SUBSET S |-> u(s)]
    BY <2>1, <2>2
  <2>4. QED
    BY <2>3 DEF u
<1>8. Solves(h)
  BY <1>7
<1> HIDE DEF h
<1>9. Follows(h, 0, Plus(w), Int, S)
  <2>1. ASSUME NEW s \in SUBSET S
        PROVE  h[s] = IF s = {} THEN 0 ELSE h[s \ {Max(s)}] + w[Max(s)]
    BY <1>8
  <2>2. \A s \in SUBSET S : s # {} => Max(s) \in S
    BY <1>2 DEF Indices
  <2>3. QED
    BY <1>3, <2>1, <2>2 DEF Follows
<1>10. h[S] = RunTo(0, Plus(w), n)
  <2>1. 0 \in Int /\ Closed(Plus(w), Int, 1 .. n) /\ Follows(h, 0, Plus(w), Int, 1 .. n)
    BY <1>4, <1>9 DEF S
  <2>2. PICK plus : plus = Plus(w)
    OBVIOUS
  <2>3. h[1 .. n] = RunTo(0, plus, n)
    BY <2>1, <2>2, FollowersRun
  <2>4. QED
    BY <2>2, <2>3 DEF S
<1>11. QED
  BY <1>1, <1>10

(* The sum of the first k values of w.                                     *)
SumTo(w, k) == RunTo(0, Plus(w), k)

LEMMA SumToStep ==
    ASSUME NEW n \in Nat, NEW w, Integers(w, n)
    PROVE  /\ SumTo(w, 0) = 0
           /\ \A k \in 0 .. n : SumTo(w, k) \in Int
           /\ \A k \in 1 .. n : SumTo(w, k) = SumTo(w, k - 1) + w[k]
<1>1. \A y \in Int, i \in 1 .. n : Plus(w)[<<y, i>>] = y + w[i] /\ y + w[i] \in Int
  BY DEF Integers, Plus
<1>2. PICK plus : plus = Plus(w)
  OBVIOUS
<1>3. Closed(plus, Int, 1 .. n)
  BY <1>1, <1>2 DEF Closed
<1>4. \A k \in 0 .. n : RunTo(0, plus, k) \in Int
  <2>1. PICK U : U = Int
    OBVIOUS
  <2>2. 0 \in U /\ Closed(plus, U, 1 .. n)
    BY <1>3, <2>1
  <2>3. \A k \in 0 .. n : RunTo(0, plus, k) \in U
    BY <2>2, RunToStays
  <2>4. QED
    BY <2>1, <2>3
<1>5. RunTo(0, plus, 0) = 0
  BY RunToStep
<1>6. ASSUME NEW k \in 1 .. n PROVE RunTo(0, plus, k) = RunTo(0, plus, k - 1) + w[k]
  <2>1. k - 1 \in Nat /\ (k - 1) + 1 = k /\ k - 1 \in 0 .. n
    OBVIOUS
  <2>2. RunTo(0, plus, k) = plus[<<RunTo(0, plus, k - 1), k>>]
    BY <2>1, RunToStep
  <2>3. RunTo(0, plus, k - 1) \in Int
    BY <1>4, <2>1
  <2>4. QED
    BY <1>1, <1>2, <2>2, <2>3
<1>7. QED
  BY <1>2, <1>4, <1>5, <1>6 DEF SumTo

LEMMA SumIsSumTo == ASSUME NEW n \in Nat, NEW w, Integers(w, n) PROVE Sum(w) = SumTo(w, n)
  BY SumRuns DEF SumTo

LEMMA SumToSame ==
    ASSUME NEW m \in Nat, NEW n \in 0 .. m, NEW w, NEW v, Integers(w, m), Integers(v, n),
           \A i \in 1 .. n : w[i] = v[i]
    PROVE  SumTo(w, n) = SumTo(v, n)
<1> DEFINE Good == {k \in 0 .. n : SumTo(w, k) = SumTo(v, k)}
<1>1. 0 \in Good
  <2>1. SumTo(w, 0) = 0 /\ SumTo(v, 0) = 0
    BY SumToStep
  <2>2. QED
    BY <2>1
<1>2. ASSUME NEW k \in 1 .. n, k - 1 \in Good PROVE k \in Good
  <2>1. k \in 1 .. m
    OBVIOUS
  <2>2. SumTo(w, k) = SumTo(w, k - 1) + w[k]
    BY <2>1, SumToStep
  <2>3. SumTo(v, k) = SumTo(v, k - 1) + v[k]
    BY SumToStep
  <2>4. QED
    BY <1>2, <2>2, <2>3
<1>3. \A k \in 0 .. n : k \in Good
  <2> HIDE DEF Good
  <2>1. QED
    BY <1>1, <1>2, NumberInduction
<1>4. QED
  BY <1>3

(* w is v and u taken together, item by item.                              *)
Adds(w, v, u, n) ==
    \A i \in 1 .. n : v[i] \in Int /\ u[i] \in Int /\ w[i] = v[i] + u[i]

LEMMA SumToAdds ==
    ASSUME NEW n \in Nat, NEW w, NEW v, NEW u,
           Integers(w, n), Integers(v, n), Integers(u, n), Adds(w, v, u, n)
    PROVE  SumTo(w, n) = SumTo(v, n) + SumTo(u, n)
<1> DEFINE Good == {k \in 0 .. n : SumTo(w, k) = SumTo(v, k) + SumTo(u, k)}
<1>1. 0 \in Good
  <2>1. SumTo(w, 0) = 0 /\ SumTo(v, 0) = 0 /\ SumTo(u, 0) = 0
    BY SumToStep
  <2>2. QED
    BY <2>1
<1>2. ASSUME NEW k \in 1 .. n, k - 1 \in Good PROVE k \in Good
  <2>1. /\ SumTo(w, k) = SumTo(w, k - 1) + w[k]
        /\ SumTo(v, k) = SumTo(v, k - 1) + v[k]
        /\ SumTo(u, k) = SumTo(u, k - 1) + u[k]
    BY SumToStep
  <2>2. k - 1 \in 0 .. n
    OBVIOUS
  <2>3. SumTo(v, k - 1) \in Int /\ SumTo(u, k - 1) \in Int
    BY <2>2, SumToStep
  <2>4. QED
    BY <1>2, <2>1, <2>3 DEF Adds
<1>3. \A k \in 0 .. n : k \in Good
  <2> HIDE DEF Good
  <2>1. QED
    BY <1>1, <1>2, NumberInduction
<1>4. QED
  BY <1>3

(* One value alone is the sum.                                             *)
LEMMA SumToPoint ==
    ASSUME NEW n \in Nat, NEW j \in 1 .. n, NEW c \in Int, NEW u, Integers(u, n),
           \A i \in 1 .. n : u[i] = IF i = j THEN c ELSE 0
    PROVE  SumTo(u, n) = c
<1> DEFINE Good == {k \in 0 .. n : SumTo(u, k) = IF j <= k THEN c ELSE 0}
<1>1. 0 \in Good
  <2>1. SumTo(u, 0) = 0
    BY SumToStep
  <2>2. QED
    BY <2>1
<1>2. ASSUME NEW k \in 1 .. n, k - 1 \in Good PROVE k \in Good
  <2>1. SumTo(u, k) = SumTo(u, k - 1) + u[k]
    BY SumToStep
  <2>2. QED
    BY <1>2, <2>1
<1>3. \A k \in 0 .. n : k \in Good
  <2> HIDE DEF Good
  <2>1. QED
    BY <1>1, <1>2, NumberInduction
<1>4. QED
  BY <1>3

(* Hence the facts about Sum that the books need.                          *)
LEMMA SumOfEmpty == ASSUME NEW s, DOMAIN s = {} PROVE Sum(s) = 0
<1>1. Integers(s, 0)
  BY DEF Integers
<1>2. QED
  BY <1>1, SumIsSumTo, SumToStep

LEMMA SumIsInt ==
    ASSUME NEW n \in Nat, NEW s, Integers(s, n) PROVE Sum(s) \in Int
<1>1. n \in 0 .. n
  OBVIOUS
<1>2. SumTo(s, n) \in Int
  BY <1>1, SumToStep
<1>3. QED
  BY <1>2, SumIsSumTo

LEMMA SumOfSums ==
    ASSUME NEW n \in Nat, NEW w, NEW v, NEW u,
           Integers(w, n), Integers(v, n), Integers(u, n), Adds(w, v, u, n)
    PROVE  Sum(w) = Sum(v) + Sum(u)
  BY SumToAdds, SumIsSumTo

(* w and v differ at j, by c.                                              *)
Differ(w, v, n, j, c) == \A i \in 1 .. n : w[i] = v[i] + (IF i = j THEN c ELSE 0)

LEMMA SumOfPoint ==
    ASSUME NEW n \in Nat, NEW w, NEW v, Integers(w, n), Integers(v, n),
           NEW j \in 1 .. n, NEW c \in Int, Differ(w, v, n, j, c)
    PROVE  Sum(w) = Sum(v) + c
<1> DEFINE u == [i \in 1 .. n |-> IF i = j THEN c ELSE 0]
<1>1. Integers(u, n) /\ (\A i \in 1 .. n : u[i] = IF i = j THEN c ELSE 0)
  BY DEF Integers
<1>2. Adds(w, v, u, n)
  BY DEF Differ, Integers, Adds
<1> HIDE DEF u
<1>3. Sum(u) = c
  BY <1>1, SumToPoint, SumIsSumTo
<1>4. QED
  BY <1>1, <1>2, <1>3, SumOfSums

LEMMA SumOfAppend ==
    ASSUME NEW n \in Nat, NEW s, NEW w, Integers(s, n), Integers(w, n + 1),
           \A i \in 1 .. n : w[i] = s[i]
    PROVE  Sum(w) = Sum(s) + w[n + 1]
<1>1. PICK m \in Nat : m = n + 1
  OBVIOUS
<1>2. Integers(w, m) /\ n \in 0 .. m /\ m \in 1 .. m /\ m - 1 = n
  BY <1>1
<1>3. SumTo(w, n) = SumTo(s, n)
  BY <1>2, SumToSame
<1>4. SumTo(w, m) = SumTo(w, m - 1) + w[m]
  BY <1>2, SumToStep
<1>5. Sum(w) = SumTo(w, m) /\ Sum(s) = SumTo(s, n)
  BY <1>2, SumIsSumTo
<1>6. QED
  BY <1>1, <1>2, <1>3, <1>4, <1>5
-----------------------------------------------------------------------------
(* The inductive invariant.  What it says of a transaction x is stated     *)
(* over the record, the committed balances b and the next number m.        *)
Debt == [invoice : AccountInvoices, balance : Int]
Payment == [invoice : AccountInvoices, change : Int]
Deposit == [number : Nat, amount : Nat]

Transactions ==
    [pc : {"idle", "checked", "paying", "crediting", "deposit", "done"},
     uuid : BankPayments \cup {NoUuid}, todo : SUBSET Debt, rest : Nat, change : Int,
     paid : Seq(Payment), credited : Int, locksCredit : BOOLEAN, deposit : Seq(Deposit)]

ImportTypes ==
    /\ balance \in [AccountInvoices -> Int]
    /\ credit \in Int /\ number \in Nat /\ charged \in 0 .. MaxCharges
    /\ deposits \in Seq(Deposit)
    /\ payments \in Seq([uuid : BankPayments, credited : Int])
    /\ tx \in [Importers -> Transactions]

(* What a transaction holds at which step of processPayment.               *)
Course(x) ==
    /\ x.pc # "idle" => x.uuid \in BankPayments
    /\ x.pc \in {"idle", "checked"} => x.todo = {} /\ x.paid = << >> /\ x.credited = 0
    /\ x.pc # "crediting" => x.change = 0
    /\ x.pc \notin {"crediting", "done"} => x.deposit = << >>

(* The number of a deposit invoice is the next one for as long as the row  *)
(* of the prefix is locked.                                                *)
DepositIsNext(x, m) ==
    \/ x.deposit = << >>
    \/ x.deposit = <<x.deposit[1]>> /\ x.deposit[1].number = m

DepositOf(x) == IF x.deposit = << >> THEN 0 ELSE x.deposit[1].amount

Pays(x, i) == \E k \in DOMAIN x.paid : x.paid[k].invoice = i

(* The balances read before may be out of date, but only too high: every   *)
(* commit lowers a balance or makes it zero.  No invoice comes twice.      *)
DebtsRead(x, b) ==
    /\ \A uai \in x.todo : /\ uai.balance > 0
                           /\ b[uai.invoice] <= uai.balance
                           /\ ~Pays(x, uai.invoice)
    /\ \A uai, other \in x.todo : uai.invoice = other.invoice => uai = other

(* What payments take off the balance of an invoice, and off all of them.  *)
Takes(paid, i) ==
    Sum([k \in DOMAIN paid |-> IF paid[k].invoice = i THEN paid[k].change ELSE 0])

TakesAll(paid) == [i \in AccountInvoices |-> Takes(paid, i)]

(* An invoice is paid off in part or to zero: its balance stays what it    *)
(* was while the row is locked.                                            *)
PaidOff(x, b) ==
    \A i \in AccountInvoices :
        IF Pays(x, i) THEN Takes(x.paid, i) > 0 \/ Takes(x.paid, i) = b[i]
                      ELSE Takes(x.paid, i) = 0

(* The books of the transaction: what is credited, or about to be, is what *)
(* is taken off the balances or deposited.                                 *)
BooksOf(x) == Sum(TakesAll(x.paid)) + DepositOf(x) = x.credited + x.change

WithinPrice(x) == x.pc # "idle" => x.credited + x.change + x.rest <= PriceOf[x.uuid]

TxSound(x, b, m) ==
    /\ Course(x) /\ DepositIsNext(x, m) /\ DebtsRead(x, b) /\ PaidOff(x, b)
    /\ BooksOf(x) /\ WithinPrice(x)

(* No row is locked by both transactions.                                  *)
Apart(x, y) ==
    /\ ~(x.locksCredit /\ y.locksCredit)
    /\ x.deposit = << >> \/ y.deposit = << >>
    /\ \A i \in AccountInvoices : ~(Pays(x, i) /\ Pays(y, i))

IInv ==
    /\ ImportTypes
    /\ \A t \in Importers : TxSound(tx[t], balance, number)
    /\ \A t, u \in Importers : t # u => Apart(tx[t], tx[u])
    /\ CommittedLedgerBalanced
    /\ NumbersFollowCommits
    /\ CreditedAtMostPrice

-----------------------------------------------------------------------------
(* The sums of the books.                                                  *)
LEMMA InvoicesAreNumbered == \E n \in Nat : AccountInvoices = 1 .. n
  BY ImportAssumption DEF AccountInvoices

LEMMA TakesNothing ==
    ASSUME NEW paid, DOMAIN paid = {}
    PROVE  (\A i : Takes(paid, i) = 0) /\ Sum(TakesAll(paid)) = 0
<1>1. ASSUME NEW i PROVE Takes(paid, i) = 0
  <2> DEFINE s == [k \in DOMAIN paid |-> IF paid[k].invoice = i THEN paid[k].change ELSE 0]
  <2>1. DOMAIN s = {}
    OBVIOUS
  <2> HIDE DEF s
  <2>2. Sum(s) = 0
    BY <2>1, SumOfEmpty
  <2>3. QED
    BY <2>2 DEF Takes, s
<1>2. PICK n \in Nat : AccountInvoices = 1 .. n
  BY InvoicesAreNumbered
<1> DEFINE z == TakesAll(paid)
<1>3. Integers(z, n) /\ \A i \in 1 .. n : z[i] = 0
  BY <1>1, <1>2 DEF TakesAll, Integers
<1> HIDE DEF z
<1>4. Sum(z) \in Int
  BY <1>3, SumIsInt
<1>5. Sum(z) = Sum(z) + Sum(z)
  <2>1. Adds(z, z, z, n)
    BY <1>3 DEF Adds
  <2>2. QED
    BY <1>3, <2>1, SumOfSums
<1>6. QED
  BY <1>1, <1>4, <1>5 DEF z

LEMMA TakesMore ==
    ASSUME NEW paid \in Seq(Payment), NEW p \in Payment, NEW i
    PROVE  /\ Takes(paid, i) \in Int
           /\ Takes(Append(paid, p), i)
                = Takes(paid, i) + (IF p.invoice = i THEN p.change ELSE 0)
<1> DEFINE f(q) == IF q.invoice = i THEN q.change ELSE 0
           n == Len(paid)
           more == Append(paid, p)
           s == [k \in DOMAIN paid |-> f(paid[k])]
           w == [k \in DOMAIN more |-> f(more[k])]
<1>1. \A q \in Payment : f(q) \in Int
  BY DEF Payment
<1>2. /\ n \in Nat /\ DOMAIN paid = 1 .. n /\ DOMAIN more = 1 .. n + 1 /\ n + 1 \in 1 .. n + 1
      /\ \A k \in 1 .. n : paid[k] \in Payment /\ more[k] = paid[k]
      /\ more[n + 1] = p /\ \A k \in 1 .. n + 1 : more[k] \in Payment
  OBVIOUS
<1> HIDE DEF n, more, f
<1>3. Integers(s, n) /\ Integers(w, n + 1)
  BY <1>1, <1>2 DEF Integers
<1>4. (\A k \in 1 .. n : w[k] = s[k]) /\ w[n + 1] = f(p)
  BY <1>2
<1>5. Takes(paid, i) = Sum(s) /\ Takes(more, i) = Sum(w)
  BY DEF Takes, f
<1> HIDE DEF s, w
<1>6. Sum(s) \in Int /\ Sum(w) = Sum(s) + w[n + 1]
  BY <1>2, <1>3, <1>4, SumIsInt, SumOfAppend
<1>7. QED
  BY <1>4, <1>5, <1>6 DEF f, more

LEMMA TakesAllMore ==
    ASSUME NEW paid \in Seq(Payment), NEW p \in Payment
    PROVE  /\ Sum(TakesAll(paid)) \in Int
           /\ Sum(TakesAll(Append(paid, p))) = Sum(TakesAll(paid)) + p.change
<1>1. PICK n \in Nat : AccountInvoices = 1 .. n
  BY InvoicesAreNumbered
<1> DEFINE more == Append(paid, p)
           v == TakesAll(paid)
           w == TakesAll(more)
<1>2. PICK j \in 1 .. n, c \in Int : j = p.invoice /\ c = p.change
  BY <1>1 DEF Payment
<1>3. \A i : Takes(paid, i) \in Int /\ Takes(more, i) = Takes(paid, i) + (IF j = i THEN c ELSE 0)
  BY <1>2, TakesMore
<1> HIDE DEF more
<1>4. Integers(v, n) /\ Integers(w, n)
  BY <1>1, <1>2, <1>3 DEF Integers, TakesAll
<1>5. Differ(w, v, n, j, c)
  BY <1>1, <1>3 DEF TakesAll, Differ
<1> HIDE DEF v, w
<1>6. Sum(v) \in Int
  BY <1>4, SumIsInt
<1>8. Sum(w) = Sum(v) + c
  BY <1>4, <1>5, SumOfPoint
<1>7. QED
  BY <1>2, <1>6, <1>8 DEF v, w, more

(* The sum of deposit invoices.                                            *)
Amounts(ds) == Sum([k \in DOMAIN ds |-> ds[k].amount])

LEMMA AmountsMore ==
    ASSUME NEW ds \in Seq(Deposit), NEW d \in Deposit
    PROVE  Amounts(ds) \in Int /\ Amounts(Append(ds, d)) = Amounts(ds) + d.amount
<1> DEFINE n == Len(ds)
           more == Append(ds, d)
           s == [k \in DOMAIN ds |-> ds[k].amount]
           w == [k \in DOMAIN more |-> more[k].amount]
<1>1. /\ n \in Nat /\ DOMAIN ds = 1 .. n /\ DOMAIN more = 1 .. n + 1 /\ n + 1 \in 1 .. n + 1
      /\ \A k \in 1 .. n : ds[k] \in Deposit /\ more[k] = ds[k]
      /\ more[n + 1] = d /\ \A k \in 1 .. n + 1 : more[k] \in Deposit
  OBVIOUS
<1>2. \A e \in Deposit : e.amount \in Int
  BY DEF Deposit
<1> HIDE DEF n, more
<1>3. Integers(s, n) /\ Integers(w, n + 1)
  BY <1>1, <1>2 DEF Integers
<1>4. (\A k \in 1 .. n : w[k] = s[k]) /\ w[n + 1] = d.amount
  BY <1>1
<1>5. Amounts(ds) = Sum(s) /\ Amounts(more) = Sum(w)
  BY DEF Amounts
<1> HIDE DEF s, w
<1>6. Sum(s) \in Int /\ Sum(w) = Sum(s) + w[n + 1]
  BY <1>1, <1>3, <1>4, SumIsInt, SumOfAppend
<1>7. QED
  BY <1>4, <1>5, <1>6 DEF more

(* Every sum of the model is an integer.                                   *)
LEMMA TakesIsInt ==
    ASSUME NEW paid \in Seq(Payment), NEW i PROVE Takes(paid, i) \in Int
<1> DEFINE n == Len(paid)
           s == [k \in DOMAIN paid |-> IF paid[k].invoice = i THEN paid[k].change ELSE 0]
<1>1. n \in Nat /\ DOMAIN paid = 1 .. n /\ \A k \in 1 .. n : paid[k] \in Payment
  OBVIOUS
<1>5. \A q \in Payment : q.change \in Int
  BY DEF Payment
<1> HIDE DEF n
<1>2. Integers(s, n)
  BY <1>1, <1>5 DEF Integers
<1> HIDE DEF s
<1>3. Sum(s) \in Int
  BY <1>1, <1>2, SumIsInt
<1>4. QED
  BY <1>3 DEF Takes, s

LEMMA TakesAllIsInt ==
    ASSUME NEW paid \in Seq(Payment) PROVE Sum(TakesAll(paid)) \in Int
<1> DEFINE s == TakesAll(paid)
<1>1. PICK n \in Nat : AccountInvoices = 1 .. n
  BY InvoicesAreNumbered
<1>2. Integers(s, n)
  BY <1>1, TakesIsInt DEF Integers, TakesAll
<1> HIDE DEF s
<1>3. Sum(s) \in Int
  BY <1>2, SumIsInt
<1>4. QED
  BY <1>3 DEF s

LEMMA AmountsAreInt ==
    ASSUME NEW ds \in Seq(Deposit) PROVE Amounts(ds) \in Int
<1> DEFINE n == Len(ds)
           s == [k \in DOMAIN ds |-> ds[k].amount]
<1>1. n \in Nat /\ DOMAIN ds = 1 .. n /\ \A k \in 1 .. n : ds[k] \in Deposit
  OBVIOUS
<1>5. \A d \in Deposit : d.amount \in Int
  BY DEF Deposit
<1> HIDE DEF n
<1>2. Integers(s, n)
  BY <1>1, <1>5 DEF Integers
<1> HIDE DEF s
<1>3. Sum(s) \in Int
  BY <1>1, <1>2, SumIsInt
<1>4. QED
  BY <1>3 DEF Amounts, s

-----------------------------------------------------------------------------
(* The idle transaction is sound whatever is committed.                    *)
LEMMA IdleIsSound ==
    ASSUME NEW b, NEW m
    PROVE  IdleTx \in Transactions /\ TxSound(IdleTx, b, m)
<1>1. IdleTx \in Transactions
  BY DEF IdleTx, Transactions
<1>2. /\ IdleTx.pc = "idle" /\ IdleTx.todo = {} /\ IdleTx.paid = << >>
      /\ IdleTx.credited = 0 /\ IdleTx.change = 0 /\ IdleTx.deposit = << >>
  BY DEF IdleTx
<1>3. Course(IdleTx) /\ DepositIsNext(IdleTx, m) /\ DebtsRead(IdleTx, b) /\ WithinPrice(IdleTx)
  BY <1>2 DEF Course, DepositIsNext, DebtsRead, WithinPrice
<1>4. DOMAIN IdleTx.paid = {}
  BY <1>2
<1>5. PaidOff(IdleTx, b)
  BY <1>4, TakesNothing DEF PaidOff, Pays
<1>6. BooksOf(IdleTx)
  <2>1. Sum(TakesAll(IdleTx.paid)) = 0
    BY <1>4, TakesNothing
  <2>2. QED
    BY <1>2, <2>1 DEF BooksOf, DepositOf
<1>7. QED
  BY <1>1, <1>3, <1>5, <1>6 DEF TxSound

LEMMA IdleIsApart == ASSUME NEW y PROVE Apart(IdleTx, y)
  BY DEF Apart, IdleTx, Pays

(* A step that changes one transaction only.                               *)
LEMMA StepOfOne ==
    ASSUME IInv, NEW t \in Importers, NEW x \in Transactions,
           tx' = [tx EXCEPT ![t] = x], UNCHANGED Tables,
           TxSound(x, balance, number),
           \A u \in Importers \ {t} : Apart(x, tx[u])
    PROVE  IInv'
<1>1. ImportTypes'
  BY DEF IInv, ImportTypes, Tables
<1>2. tx'[t] = x /\ \A u \in Importers \ {t} : tx'[u] = tx[u]
  BY DEF IInv, ImportTypes
<1>3. \A u \in Importers : TxSound(tx'[u], balance', number')
  BY <1>2 DEF IInv, Tables
<1>4. \A u, v \in Importers : u # v => Apart(tx'[u], tx'[v])
  <2>1. \A y, z : Apart(y, z) => Apart(z, y)
    BY DEF Apart
  <2>2. QED
    BY <1>2, <2>1 DEF IInv
<1>5. CommittedLedgerBalanced' /\ NumbersFollowCommits' /\ CreditedAtMostPrice'
  BY DEF IInv, Tables, CommittedLedgerBalanced, NumbersFollowCommits, CreditedAtMostPrice
<1>6. QED
  BY <1>1, <1>3, <1>4, <1>5 DEF IInv

(* An import that ends without a commit leaves nothing behind.             *)
LEMMA AbortKeepsIInv ==
    ASSUME IInv, NEW t \in Importers, Abort(t) \/ DeadlockDetected(t)
    PROVE  IInv'
<1>1. tx' = [tx EXCEPT ![t] = IdleTx] /\ UNCHANGED Tables
  BY DEF Abort, DeadlockDetected
<1>2. QED
  BY <1>1, IdleIsSound, IdleIsApart, StepOfOne

LEMMA StartKeepsIInv ==
    ASSUME IInv, NEW t \in Importers, NEW uuid \in BankPayments, StartImport(t, uuid)
    PROVE  IInv'
<1> DEFINE o == tx[t]
           x == [o EXCEPT !.pc = "checked", !.uuid = uuid, !.rest = PriceOf[uuid]]
<1>1. o \in Transactions /\ PriceOf[uuid] \in Nat /\ o.pc = "idle"
  BY ImportAssumption DEF IInv, ImportTypes, StartImport
<1>2. tx' = [tx EXCEPT ![t] = x] /\ UNCHANGED Tables
  BY DEF StartImport, IInv, ImportTypes
<1>3. TxSound(o, balance, number) /\ \A u \in Importers \ {t} : Apart(o, tx[u])
  BY DEF IInv
<1> HIDE DEF o
<1>4. /\ x \in Transactions
      /\ x.pc = "checked" /\ x.uuid = uuid /\ x.rest = PriceOf[uuid]
      /\ x.todo = o.todo /\ x.change = o.change /\ x.paid = o.paid
      /\ x.credited = o.credited /\ x.locksCredit = o.locksCredit /\ x.deposit = o.deposit
  BY <1>1 DEF Transactions
<1> HIDE DEF x
<1>5. o.todo = {} /\ o.paid = << >> /\ o.credited = 0 /\ o.change = 0 /\ o.deposit = << >>
  BY <1>1, <1>3 DEF TxSound, Course
<1>6. Course(x) /\ DepositIsNext(x, number) /\ DebtsRead(x, balance)
  BY <1>4, <1>5 DEF Course, DepositIsNext, DebtsRead
<1>7. PaidOff(x, balance) /\ BooksOf(x)
  BY <1>3, <1>4 DEF TxSound, PaidOff, BooksOf, Pays, DepositOf
<1>8. WithinPrice(x)
  BY <1>1, <1>4, <1>5 DEF WithinPrice
<1>9. TxSound(x, balance, number)
  BY <1>6, <1>7, <1>8 DEF TxSound
<1>10. \A u \in Importers \ {t} : Apart(x, tx[u])
  BY <1>3, <1>4 DEF Apart, Pays
<1>11. QED
  BY <1>2, <1>4, <1>9, <1>10, StepOfOne

LEMMA FindKeepsIInv ==
    ASSUME IInv, NEW t \in Importers, find_unpaid_account_invoices(t)
    PROVE  IInv'
<1> DEFINE o == tx[t]
           found == {[invoice |-> i, balance |-> balance[i]] :
                        i \in {j \in AccountInvoices : balance[j] > 0}}
           x == [o EXCEPT !.pc = "paying", !.todo = found]
<1>1. o \in Transactions /\ o.pc = "checked"
  BY DEF IInv, ImportTypes, find_unpaid_account_invoices
<1>2. tx' = [tx EXCEPT ![t] = x] /\ UNCHANGED Tables
  BY DEF find_unpaid_account_invoices, IInv, ImportTypes
<1>3. TxSound(o, balance, number) /\ \A u \in Importers \ {t} : Apart(o, tx[u])
  BY DEF IInv
<1>4. /\ found \subseteq Debt
      /\ \A uai \in found : uai.balance > 0 /\ uai.balance = balance[uai.invoice]
      /\ \A uai, other \in found : uai.invoice = other.invoice => uai = other
      /\ \A uai \in found : balance[uai.invoice] \in Int
  BY DEF Debt, IInv, ImportTypes
<1> HIDE DEF o, found
<1>5. /\ x \in Transactions
      /\ x.pc = "paying" /\ x.todo = found /\ x.uuid = o.uuid /\ x.rest = o.rest
      /\ x.change = o.change /\ x.paid = o.paid /\ x.credited = o.credited
      /\ x.locksCredit = o.locksCredit /\ x.deposit = o.deposit
  BY <1>1, <1>4 DEF Transactions
<1> HIDE DEF x
<1>6. o.paid = << >> /\ o.change = 0 /\ o.deposit = << >> /\ o.uuid \in BankPayments
  BY <1>1, <1>3 DEF TxSound, Course
<1>7. Course(x) /\ DepositIsNext(x, number)
  BY <1>5, <1>6 DEF Course, DepositIsNext
<1>8. DebtsRead(x, balance)
  BY <1>4, <1>5, <1>6 DEF DebtsRead, Pays
<1>9. PaidOff(x, balance) /\ BooksOf(x) /\ WithinPrice(x)
  BY <1>1, <1>3, <1>5 DEF TxSound, PaidOff, BooksOf, Pays, DepositOf, WithinPrice
<1>10. TxSound(x, balance, number)
  BY <1>7, <1>8, <1>9 DEF TxSound
<1>11. \A u \in Importers \ {t} : Apart(x, tx[u])
  BY <1>3, <1>5 DEF Apart, Pays
<1>12. QED
  BY <1>2, <1>5, <1>10, <1>11, StepOfOne

(* The next debt is one of those that were read.                           *)
LEMMA NextDebtIsRead ==
    ASSUME ImportTypes, NEW t \in Importers, tx[t].todo # {}
    PROVE  NextDebt(t) \in tx[t].todo
<1> DEFINE todo == tx[t].todo
           Ids == {i \in Nat : \E uai \in todo : uai.invoice = i}
<1>1. todo \subseteq Debt
  BY DEF ImportTypes, Transactions
<1>2. PICK n \in Nat : AccountInvoices = 1 .. n
  BY InvoicesAreNumbered
<1>3. \A uai \in todo : uai.invoice \in Ids
  BY <1>1, <1>2 DEF Debt
<1>4. Ids \in SUBSET Nat /\ Ids # {}
  BY <1>3
<1> HIDE DEF Ids
<1>5. PICK i \in Ids : \A k \in Ids : i <= k
  BY <1>4, SmallestNumber
<1>6. PICK uai \in todo : uai.invoice = i
  BY <1>5 DEF Ids
<1>7. \A other \in todo : uai.invoice <= other.invoice
  BY <1>3, <1>5, <1>6
<1>8. QED
  BY <1>6, <1>7 DEF NextDebt

LEMMA PayKeepsIInv ==
    ASSUME IInv, NEW t \in Importers, PayNextDebt(t)
    PROVE  IInv'
<1> DEFINE o == tx[t]
<1>1. o \in Transactions /\ o.pc = "paying" /\ o.todo # {} /\ o.rest > 0 /\ ~Waits(t)
  BY DEF IInv, ImportTypes, PayNextDebt
<1>2. PICK uai \in o.todo : uai = NextDebt(t)
  BY <1>1, NextDebtIsRead DEF IInv
<1>3. TxSound(o, balance, number) /\ \A u \in Importers \ {t} : Apart(o, tx[u])
  BY DEF IInv
<1>4. /\ uai \in Debt /\ uai.invoice \in AccountInvoices /\ uai.balance \in Int
      /\ balance[uai.invoice] \in Int /\ uai.balance > 0
      /\ balance[uai.invoice] <= uai.balance /\ ~Pays(o, uai.invoice)
  <2>1. uai \in Debt
    BY <1>1 DEF Transactions
  <2>2. QED
    BY <1>3, <2>1 DEF Debt, IInv, ImportTypes, TxSound, DebtsRead
<1> DEFINE partial == o.rest <= uai.balance
<1>5. PICK c \in Int : c = IF partial THEN o.rest ELSE balance[uai.invoice]
  BY <1>1, <1>4 DEF Transactions
<1>6. PICK r \in Nat : r = IF partial THEN 0 ELSE o.rest - uai.balance
  BY <1>1, <1>4 DEF Transactions
<1>7. (c > 0 \/ c = balance[uai.invoice]) /\ c + r <= o.rest
  BY <1>1, <1>4, <1>5, <1>6 DEF Transactions
<1>8. PICK p \in Payment : p = [invoice |-> uai.invoice, change |-> c]
  BY <1>4 DEF Payment
<1> DEFINE left == o.todo \ {uai}
           more == Append(o.paid, p)
           x == [o EXCEPT !.pc = "crediting", !.todo = left, !.rest = r,
                          !.change = c, !.paid = more]
<1>9. tx' = [tx EXCEPT ![t] = x] /\ UNCHANGED Tables
  BY <1>2, <1>5, <1>6, <1>8 DEF PayNextDebt, IInv, ImportTypes
<1>10. \A u \in Importers \ {t} : ~Pays(tx[u], uai.invoice)
  BY <1>1, <1>2 DEF Waits, WaitsFor, LocksInvoice, Pays
<1> HIDE DEF o, partial
<1>10a. left \in SUBSET Debt /\ more \in Seq(Payment)
  BY <1>1 DEF Transactions
<1> HIDE DEF left, more
<1>10b. /\ x \in Transactions
       /\ x.pc = "crediting" /\ x.todo = left /\ x.rest = r /\ x.change = c
       /\ x.paid = more /\ x.uuid = o.uuid /\ x.credited = o.credited
       /\ x.locksCredit = o.locksCredit /\ x.deposit = o.deposit
  BY <1>1, <1>10a DEF Transactions
<1>11. /\ x \in Transactions
       /\ x.pc = "crediting" /\ x.todo = o.todo \ {uai} /\ x.rest = r /\ x.change = c
       /\ x.paid = Append(o.paid, p) /\ x.uuid = o.uuid /\ x.credited = o.credited
       /\ x.locksCredit = o.locksCredit /\ x.deposit = o.deposit
  BY <1>10b DEF left, more
<1> HIDE DEF x
<1>12. o.change = 0 /\ o.deposit = << >> /\ o.uuid \in BankPayments /\ o.paid \in Seq(Payment)
       /\ p.invoice = uai.invoice /\ p.change = c /\ o.credited \in Int
  BY <1>1, <1>3, <1>8 DEF TxSound, Course, Transactions
<1>13. \A i : Pays(x, i) <=> Pays(o, i) \/ i = uai.invoice
  <2>1. \A k \in DOMAIN o.paid : k \in DOMAIN Append(o.paid, p) /\ Append(o.paid, p)[k] = o.paid[k]
    BY <1>12
  <2>2. Len(o.paid) + 1 \in DOMAIN Append(o.paid, p) /\ Append(o.paid, p)[Len(o.paid) + 1] = p
    BY <1>12
  <2>3. \A k \in DOMAIN Append(o.paid, p) : k \in DOMAIN o.paid \/ k = Len(o.paid) + 1
    BY <1>12
  <2>4. QED
    BY <2>1, <2>2, <2>3, <1>11, <1>12 DEF Pays
<1>14. Course(x) /\ DepositIsNext(x, number)
  BY <1>11, <1>12 DEF Course, DepositIsNext
<1>15. DebtsRead(x, balance)
  BY <1>3, <1>11, <1>13 DEF DebtsRead, TxSound
<1>16. \A i : /\ Takes(o.paid, i) \in Int
              /\ Takes(x.paid, i) = Takes(o.paid, i) + (IF uai.invoice = i THEN c ELSE 0)
  BY <1>11, <1>12, TakesMore
<1>17. PaidOff(x, balance)
  <2> SUFFICES ASSUME NEW i \in AccountInvoices
               PROVE  IF Pays(x, i) THEN Takes(x.paid, i) > 0 \/ Takes(x.paid, i) = balance[i]
                                    ELSE Takes(x.paid, i) = 0
    BY DEF PaidOff
  <2>1. CASE i = uai.invoice
    <3>1. Takes(o.paid, i) = 0
      BY <1>3, <1>4, <2>1 DEF TxSound, PaidOff
    <3>2. Takes(x.paid, i) = c
      BY <1>16, <2>1, <3>1
    <3>3. QED
      BY <1>7, <1>13, <2>1, <3>2
  <2>2. CASE i # uai.invoice
    <3>1. Takes(x.paid, i) = Takes(o.paid, i) /\ (Pays(x, i) <=> Pays(o, i))
      BY <1>13, <1>16, <2>2
    <3>2. QED
      BY <1>3, <3>1 DEF TxSound, PaidOff
  <2>3. QED
    BY <2>1, <2>2
<1>18. BooksOf(x)
  <2>1. Sum(TakesAll(o.paid)) \in Int /\ Sum(TakesAll(x.paid)) = Sum(TakesAll(o.paid)) + c
    BY <1>11, <1>12, TakesAllMore
  <2>2. Sum(TakesAll(o.paid)) + 0 = o.credited + 0
    BY <1>3, <1>12 DEF TxSound, BooksOf, DepositOf
  <2>3. QED
    BY <1>11, <1>12, <2>1, <2>2 DEF BooksOf, DepositOf
<1>19. WithinPrice(x)
  <2>1. o.credited + 0 + o.rest <= PriceOf[o.uuid] /\ o.rest \in Nat /\ PriceOf[o.uuid] \in Nat
    BY <1>1, <1>3, <1>12, ImportAssumption DEF TxSound, WithinPrice, Transactions
  <2>2. QED
    BY <1>7, <1>11, <1>12, <2>1 DEF WithinPrice
<1>20. TxSound(x, balance, number)
  BY <1>14, <1>15, <1>17, <1>18, <1>19 DEF TxSound
<1>21. \A u \in Importers \ {t} : Apart(x, tx[u])
  BY <1>3, <1>10, <1>11, <1>13 DEF Apart
<1>22. QED
  BY <1>9, <1>11, <1>20, <1>21, StepOfOne

LEMMA CreditKeepsIInv ==
    ASSUME IInv, NEW t \in Importers, pay_invoice(t)
    PROVE  IInv'
<1> DEFINE o == tx[t]
<1>1. o \in Transactions /\ o.pc = "crediting" /\ ~Waits(t)
  BY DEF IInv, ImportTypes, pay_invoice
<1>2. TxSound(o, balance, number) /\ \A u \in Importers \ {t} : Apart(o, tx[u])
  BY DEF IInv
<1>3. PICK step \in {"done", "paying"} : step = IF LocksNumber(t) THEN "done" ELSE "paying"
  OBVIOUS
<1>4. PICK sum \in Int : sum = o.credited + o.change
  BY <1>1 DEF Transactions
<1>4a. PICK yes \in BOOLEAN : yes = TRUE
  OBVIOUS
<1>4b. PICK zero \in Int : zero = 0
  OBVIOUS
<1> DEFINE y == [o EXCEPT !.pc = step, !.credited = sum]
           z == [y EXCEPT !.change = zero]
           x == [z EXCEPT !.locksCredit = yes]
<1>5. tx' = [tx EXCEPT ![t] = x] /\ UNCHANGED Tables
  BY <1>3, <1>4, <1>4a, <1>4b DEF pay_invoice, IInv, ImportTypes
<1>6. \A u \in Importers \ {t} : ~tx[u].locksCredit
  BY <1>1 DEF Waits, WaitsFor, LocksCredit
<1>7. step = "paying" => o.deposit = << >>
  BY <1>3 DEF LocksNumber
<1> HIDE DEF o
<1>8. /\ x \in Transactions
      /\ x.pc = step /\ x.credited = sum /\ x.change = 0 /\ x.todo = o.todo
      /\ x.rest = o.rest /\ x.paid = o.paid /\ x.uuid = o.uuid /\ x.deposit = o.deposit
  <2>1. /\ y \in Transactions
        /\ y.pc = step /\ y.credited = sum /\ y.todo = o.todo /\ y.rest = o.rest
        /\ y.paid = o.paid /\ y.uuid = o.uuid /\ y.deposit = o.deposit
    BY <1>1 DEF Transactions
  <2> HIDE DEF y
  <2>2. /\ z \in Transactions
        /\ z.pc = step /\ z.credited = sum /\ z.change = zero /\ z.todo = o.todo
        /\ z.rest = o.rest /\ z.paid = o.paid /\ z.uuid = o.uuid /\ z.deposit = o.deposit
    BY <2>1 DEF Transactions
  <2> HIDE DEF z
  <2>3. /\ x \in Transactions
        /\ x.pc = step /\ x.credited = sum /\ x.change = zero /\ x.todo = o.todo
        /\ x.rest = o.rest /\ x.paid = o.paid /\ x.uuid = o.uuid /\ x.deposit = o.deposit
    BY <2>2, ZenonT(60) DEF Transactions
  <2>4. QED
    BY <2>3, <1>4b
<1> HIDE DEF x
<1>9. Course(x) /\ DepositIsNext(x, number)
  BY <1>1, <1>2, <1>7, <1>8 DEF Course, DepositIsNext, TxSound
<1>10. DebtsRead(x, balance) /\ PaidOff(x, balance)
  BY <1>2, <1>8 DEF TxSound, DebtsRead, PaidOff, Pays
<1>11. BooksOf(x) /\ WithinPrice(x)
  <2>1. o.credited \in Int /\ o.change \in Int
    BY <1>1 DEF Transactions
  <2>2. QED
    BY <1>1, <1>2, <1>4, <1>8, <2>1 DEF TxSound, BooksOf, WithinPrice, DepositOf
<1>12. TxSound(x, balance, number)
  BY <1>9, <1>10, <1>11 DEF TxSound
<1>13. \A u \in Importers \ {t} : Apart(x, tx[u])
  BY <1>2, <1>6, <1>8 DEF Apart, Pays
<1>14. QED
  BY <1>5, <1>8, <1>12, <1>13, StepOfOne

LEMMA DoneKeepsIInv ==
    ASSUME IInv, NEW t \in Importers, DebtsDone(t)
    PROVE  IInv'
<1> DEFINE o == tx[t]
<1>1. o \in Transactions /\ o.pc = "paying"
  BY DEF IInv, ImportTypes, DebtsDone
<1>2. TxSound(o, balance, number) /\ \A u \in Importers \ {t} : Apart(o, tx[u])
  BY DEF IInv
<1>3. PICK step \in {"done", "deposit"} : step = IF o.rest > 0 THEN "deposit" ELSE "done"
  OBVIOUS
<1> DEFINE x == [o EXCEPT !.pc = step, !.todo = {}]
<1>4. tx' = [tx EXCEPT ![t] = x] /\ UNCHANGED Tables
  BY <1>3 DEF DebtsDone, IInv, ImportTypes
<1> HIDE DEF o
<1>5. /\ x \in Transactions
      /\ x.pc = step /\ x.todo = {} /\ x.credited = o.credited /\ x.change = o.change
      /\ x.rest = o.rest /\ x.paid = o.paid /\ x.uuid = o.uuid /\ x.deposit = o.deposit
      /\ x.locksCredit = o.locksCredit
  BY <1>1 DEF Transactions
<1> HIDE DEF x
<1>6. Course(x) /\ DepositIsNext(x, number) /\ DebtsRead(x, balance)
  BY <1>1, <1>2, <1>5 DEF Course, DepositIsNext, DebtsRead, TxSound
<1>7. PaidOff(x, balance) /\ BooksOf(x) /\ WithinPrice(x)
  BY <1>1, <1>2, <1>5 DEF TxSound, PaidOff, Pays, BooksOf, WithinPrice, DepositOf
<1>8. TxSound(x, balance, number)
  BY <1>6, <1>7 DEF TxSound
<1>9. \A u \in Importers \ {t} : Apart(x, tx[u])
  BY <1>2, <1>5 DEF Apart, Pays
<1>10. QED
  BY <1>4, <1>5, <1>8, <1>9, StepOfOne

LEMMA DepositKeepsIInv ==
    ASSUME IInv, NEW t \in Importers, createDepositInvoice(t)
    PROVE  IInv'
<1> DEFINE o == tx[t]
<1>1. o \in Transactions /\ o.pc = "deposit" /\ ~Waits(t) /\ number \in Nat
  BY DEF IInv, ImportTypes, createDepositInvoice
<1>2. TxSound(o, balance, number) /\ \A u \in Importers \ {t} : Apart(o, tx[u])
  BY DEF IInv
<1>3. PICK d \in Deposit : d = [number |-> number, amount |-> o.rest]
  BY <1>1 DEF Transactions, Deposit
<1>4. PICK rest \in Nat : rest = o.rest
  BY <1>1 DEF Transactions
<1>4a. PICK zero \in Nat : zero = 0
  OBVIOUS
<1> DEFINE inv == <<d>>
           w == [o EXCEPT !.pc = "crediting"]
           y == [w EXCEPT !.change = rest]
           x == [y EXCEPT !.rest = zero, !.deposit = inv]
<1>5. tx' = [tx EXCEPT ![t] = x] /\ UNCHANGED Tables
  BY <1>3, <1>4, <1>4a DEF createDepositInvoice, IInv, ImportTypes
<1>6. \A u \in Importers \ {t} : tx[u].deposit = << >>
  BY <1>1 DEF Waits, WaitsFor, LocksNumber
<1>7. inv \in Seq(Deposit) /\ inv # << >> /\ inv[1] = d /\ inv = <<inv[1]>>
  OBVIOUS
<1> HIDE DEF o, inv
<1>8. /\ x \in Transactions
      /\ x.pc = "crediting" /\ x.todo = o.todo /\ x.credited = o.credited
      /\ x.change = rest /\ x.rest = zero /\ x.paid = o.paid /\ x.uuid = o.uuid
      /\ x.deposit = inv /\ x.locksCredit = o.locksCredit
  <2>0. /\ w \in Transactions
        /\ w.pc = "crediting" /\ w.todo = o.todo /\ w.credited = o.credited
        /\ w.paid = o.paid /\ w.uuid = o.uuid /\ w.locksCredit = o.locksCredit
    BY <1>1 DEF Transactions
  <2> HIDE DEF w
  <2>1. /\ y \in Transactions
        /\ y.pc = "crediting" /\ y.todo = o.todo /\ y.credited = o.credited
        /\ y.change = rest /\ y.paid = o.paid /\ y.uuid = o.uuid
        /\ y.locksCredit = o.locksCredit
    BY <2>0, SMTT(30) DEF Transactions
  <2>2. inv \in Seq(Deposit)
    BY <1>7
  <2> HIDE DEF y
  <2>3. QED
    BY <2>1, <2>2 DEF Transactions
<1> HIDE DEF x
<1>9. o.change = 0 /\ o.deposit = << >> /\ d.number = number /\ d.amount = rest
  BY <1>1, <1>2, <1>3, <1>4 DEF TxSound, Course
<1>10. Course(x) /\ DepositIsNext(x, number) /\ DebtsRead(x, balance)
  BY <1>1, <1>2, <1>7, <1>8, <1>9 DEF Course, DepositIsNext, DebtsRead, TxSound, Pays
<1>11. PaidOff(x, balance)
  BY <1>2, <1>8 DEF TxSound, PaidOff, Pays
<1>12. BooksOf(x) /\ WithinPrice(x)
  <2>1. Sum(TakesAll(o.paid)) + 0 = o.credited + 0
    BY <1>2, <1>9 DEF TxSound, BooksOf, DepositOf
  <2>2. Sum(TakesAll(o.paid)) \in Int /\ o.credited \in Int
    BY <1>1, TakesAllIsInt DEF Transactions
  <2>3. DepositOf(x) = rest
    BY <1>7, <1>8, <1>9 DEF DepositOf
  <2>4. BooksOf(x)
    BY <1>8, <2>1, <2>2, <2>3 DEF BooksOf
  <2>5. WithinPrice(x)
    BY <1>1, <1>2, <1>4, <1>4a, <1>8, <1>9, <2>2 DEF TxSound, WithinPrice
  <2>6. QED
    BY <2>4, <2>5
<1>13. TxSound(x, balance, number)
  BY <1>10, <1>11, <1>12 DEF TxSound
<1>14. \A u \in Importers \ {t} : Apart(x, tx[u])
  BY <1>2, <1>6, <1>8 DEF Apart, Pays
<1>15. QED
  BY <1>5, <1>8, <1>13, <1>14, StepOfOne

-----------------------------------------------------------------------------
(* The commit: what it does to the balances, and to the transactions of    *)
(* others.                                                                 *)
LEMMA CommitBalances ==
    ASSUME IInv, NEW t \in Importers, Commit(t)
    PROVE  /\ balance' \in [AccountInvoices -> Int]
           /\ \A i \in AccountInvoices :
                  /\ balance'[i] = balance[i] - Takes(tx[t].paid, i)
                  /\ Pays(tx[t], i) => balance'[i] < balance[i] \/ balance'[i] = 0
                  /\ ~Pays(tx[t], i) => balance'[i] = balance[i]
           /\ Sum(balance') = Sum(balance) - Sum(TakesAll(tx[t].paid))
           /\ Sum(balance) \in Int /\ Sum(TakesAll(tx[t].paid)) \in Int
<1> DEFINE o == tx[t]
           off == TakesAll(o.paid)
<1>1. o \in Transactions /\ TxSound(o, balance, number) /\ balance \in [AccountInvoices -> Int]
  BY DEF IInv, ImportTypes
<1>2. \A i : Takes(o.paid, i) \in Int
  BY <1>1, TakesIsInt DEF Transactions
<1>3. balance' = [i \in AccountInvoices |-> balance[i] - Takes(o.paid, i)]
  BY DEF Commit, Takes
<1>4. balance' \in [AccountInvoices -> Int]
  BY <1>1, <1>2, <1>3
<1>5. ASSUME NEW i \in AccountInvoices
      PROVE  /\ balance'[i] = balance[i] - Takes(o.paid, i)
             /\ Pays(o, i) => balance'[i] < balance[i] \/ balance'[i] = 0
             /\ ~Pays(o, i) => balance'[i] = balance[i]
  <2>1. balance[i] \in Int /\ balance'[i] = balance[i] - Takes(o.paid, i)
    BY <1>1, <1>3
  <2>2. IF Pays(o, i) THEN Takes(o.paid, i) > 0 \/ Takes(o.paid, i) = balance[i]
                      ELSE Takes(o.paid, i) = 0
    BY <1>1 DEF TxSound, PaidOff
  <2>3. QED
    BY <1>2, <2>1, <2>2
<1>6. PICK n \in Nat : AccountInvoices = 1 .. n
  BY InvoicesAreNumbered
<1>7. PICK b : b = balance'
  OBVIOUS
<1>8. /\ Integers(b, n) /\ Integers(balance, n) /\ Integers(off, n)
      /\ Adds(balance, b, off, n)
  BY <1>1, <1>2, <1>3, <1>4, <1>6, <1>7 DEF Integers, TakesAll, Adds
<1> HIDE DEF o, off
<1>9. Sum(balance) = Sum(b) + Sum(off)
  BY <1>8, SumOfSums
<1>10. Sum(b) \in Int /\ Sum(off) \in Int /\ Sum(balance) \in Int
  BY <1>8, SumIsInt
<1>11. Sum(balance') = Sum(balance) - Sum(off)
  BY <1>7, <1>9, <1>10
<1>12. QED
  BY <1>4, <1>5, <1>10, <1>11 DEF o, off

LEMMA CommitKeepsOthers ==
    ASSUME IInv, NEW t \in Importers, Commit(t), NEW u \in Importers \ {t}
    PROVE  TxSound(tx[u], balance', number')
<1> DEFINE x == tx[t]
           y == tx[u]
<1>1. /\ x \in Transactions /\ TxSound(x, balance, number)
      /\ y \in Transactions /\ TxSound(y, balance, number) /\ Apart(x, y)
      /\ balance \in [AccountInvoices -> Int] /\ number \in Nat
  BY DEF IInv, ImportTypes
<1>2. number' = number + Len(x.deposit)
  BY DEF Commit
<1>3. /\ \A i \in AccountInvoices :
             /\ balance'[i] \in Int /\ balance[i] \in Int
             /\ Pays(x, i) => balance'[i] < balance[i] \/ balance'[i] = 0
             /\ ~Pays(x, i) => balance'[i] = balance[i]
  BY <1>1, CommitBalances
<1> HIDE DEF x, y
<1>4. DepositIsNext(y, number')
  <2>1. CASE x.deposit = << >>
    BY <1>1, <1>2, <2>1 DEF TxSound, DepositIsNext
  <2>2. CASE y.deposit = << >>
    BY <2>2 DEF DepositIsNext
  <2>3. QED
    BY <1>1, <2>1, <2>2 DEF Apart
<1>5. DebtsRead(y, balance')
  <2>1. ASSUME NEW uai \in y.todo
        PROVE  /\ uai.balance > 0 /\ balance'[uai.invoice] <= uai.balance
               /\ ~Pays(y, uai.invoice)
    <3>1. /\ uai.invoice \in AccountInvoices /\ uai.balance \in Int /\ uai.balance > 0
          /\ balance[uai.invoice] <= uai.balance /\ ~Pays(y, uai.invoice)
      BY <1>1 DEF TxSound, DebtsRead, Transactions, Debt
    <3>2. QED
      BY <1>3, <3>1
  <2>2. QED
    BY <1>1, <2>1 DEF TxSound, DebtsRead
<1>6. PaidOff(y, balance')
  <2>1. \A i \in AccountInvoices : Pays(y, i) => balance'[i] = balance[i]
    BY <1>1, <1>3 DEF Apart
  <2>2. QED
    BY <1>1, <2>1 DEF TxSound, PaidOff
<1>7. QED
  BY <1>1, <1>4, <1>5, <1>6 DEF TxSound, x, y

(* The committed books after the commit.                                   *)
LEMMA CommitKeepsBooks ==
    ASSUME IInv, NEW t \in Importers, Commit(t)
    PROVE  /\ number' \in Nat /\ deposits' \in Seq(Deposit) /\ credit' \in Int
           /\ CommittedLedgerBalanced' /\ NumbersFollowCommits'
<1> DEFINE x == tx[t]
<1>1. /\ x \in Transactions /\ TxSound(x, balance, number) /\ x.pc = "done"
      /\ deposits \in Seq(Deposit) /\ credit \in Int /\ number \in Nat /\ charged \in Int
      /\ CommittedLedgerBalanced /\ NumbersFollowCommits
  BY ImportAssumption DEF IInv, ImportTypes, Commit
<1>2. /\ credit' = credit + x.credited /\ number' = number + Len(x.deposit)
      /\ deposits' = deposits \o x.deposit /\ charged' = charged
  BY DEF Commit
<1>3. PICK off \in Int, old \in Int :
         off = Sum(TakesAll(x.paid)) /\ old = Sum(balance) /\ Sum(balance') = old - off
  BY CommitBalances
<1> HIDE DEF x
<1>4. x.credited \in Int /\ off + DepositOf(x) = x.credited
  BY <1>1, <1>3 DEF TxSound, BooksOf, Course, Transactions
<1>5. Amounts(deposits) \in Int
  BY <1>1, AmountsAreInt
<1>6. credit = Amounts(deposits) - old - charged
  BY <1>1, <1>3 DEF CommittedLedgerBalanced, Amounts
<1>7. CASE x.deposit = << >>
  <2>1. deposits' = deposits /\ number' = number /\ DepositOf(x) = 0
    BY <1>1, <1>2, <1>7 DEF DepositOf
  <2>2. credit' = Amounts(deposits') - Sum(balance') - charged'
    <3>1. Amounts(deposits') = Amounts(deposits)
      BY <2>1
    <3>2. credit' = (Amounts(deposits) - old - charged) + off /\ charged' = charged
      BY <1>2, <1>4, <1>6, <2>1
    <3>3. QED
      BY <1>1, <1>3, <1>5, <3>1, <3>2, SMTT(30)
  <2>3. CommittedLedgerBalanced'
    BY <2>2 DEF CommittedLedgerBalanced, Amounts
  <2>4. NumbersFollowCommits'
    BY <1>1, <2>1 DEF NumbersFollowCommits
  <2>5. QED
    BY <1>1, <1>2, <1>4, <2>1, <2>3, <2>4
<1>8. CASE x.deposit # << >>
  <2>1. PICK d \in Deposit : x.deposit = <<d>> /\ d.number = number
    BY <1>1, <1>8 DEF TxSound, DepositIsNext, Transactions
  <2>2. /\ deposits' = Append(deposits, d) /\ number' = number + 1
        /\ DepositOf(x) = d.amount /\ d.amount \in Int
    BY <1>1, <1>2, <1>8, <2>1 DEF DepositOf, Deposit
  <2>3. Amounts(deposits') = Amounts(deposits) + d.amount
    BY <1>1, <2>2, AmountsMore
  <2>4. credit' = Amounts(deposits') - Sum(balance') - charged'
    <3>1. credit' = (Amounts(deposits) - old - charged) + (off + d.amount)
      BY <1>2, <1>4, <1>6, <2>2
    <3>2. charged' = charged
      BY <1>2
    <3>3. Amounts(deposits') = Amounts(deposits) + d.amount /\ Sum(balance') = old - off
      BY <1>3, <2>3
    <3>4. d.amount \in Int /\ charged \in Int /\ Amounts(deposits) \in Int
      BY <1>1, <1>5, <2>2
    <3>5. QED
      BY <3>1, <3>2, <3>3, <3>4
  <2>5. CommittedLedgerBalanced'
    BY <2>4 DEF CommittedLedgerBalanced, Amounts
  <2>6. NumbersFollowCommits'
    BY <1>1, <2>1, <2>2 DEF NumbersFollowCommits
  <2>7. QED
    BY <1>1, <1>2, <1>4, <2>2, <2>5, <2>6
<1>9. QED
  BY <1>7, <1>8

LEMMA CommitKeepsIInv ==
    ASSUME IInv, NEW t \in Importers, Commit(t)
    PROVE  IInv'
<1> DEFINE x == tx[t]
<1>1. x \in Transactions /\ TxSound(x, balance, number) /\ x.pc = "done"
  BY DEF IInv, ImportTypes, Commit
<1>2. /\ payments' = Append(payments, [uuid |-> x.uuid, credited |-> x.credited])
      /\ tx' = [tx EXCEPT ![t] = IdleTx] /\ charged' = charged
  BY DEF Commit
<1>3. tx'[t] = IdleTx /\ \A u \in Importers \ {t} : tx'[u] = tx[u]
  BY <1>2 DEF IInv, ImportTypes
<1> HIDE DEF x
<1>4. PICK p \in [uuid : BankPayments, credited : Int] :
         /\ p = [uuid |-> x.uuid, credited |-> x.credited]
         /\ p.credited <= PriceOf[p.uuid]
  <2>1. /\ x.uuid \in BankPayments /\ x.credited \in Int /\ x.change = 0 /\ x.rest \in Nat
        /\ x.credited + x.change + x.rest <= PriceOf[x.uuid] /\ PriceOf[x.uuid] \in Nat
    BY <1>1, ImportAssumption DEF TxSound, Course, WithinPrice, Transactions
  <2>2. x.credited <= PriceOf[x.uuid]
    BY <2>1
  <2>3. [uuid |-> x.uuid, credited |-> x.credited] \in [uuid : BankPayments, credited : Int]
    BY <2>1
  <2>4. QED
    BY <2>2, <2>3
<1>5. payments' = Append(payments, p) /\ payments \in Seq([uuid : BankPayments, credited : Int])
  BY <1>2, <1>4 DEF IInv, ImportTypes
<1>6. CreditedAtMostPrice'
  BY <1>4, <1>5 DEF IInv, CreditedAtMostPrice
<1>7. ImportTypes'
  <2>1. tx' \in [Importers -> Transactions]
    BY <1>2, IdleIsSound DEF IInv, ImportTypes
  <2>2. payments' \in Seq([uuid : BankPayments, credited : Int])
    BY <1>5
  <2>3. QED
    BY <1>2, <2>1, <2>2, CommitBalances, CommitKeepsBooks DEF IInv, ImportTypes
<1>8. \A u \in Importers : TxSound(tx'[u], balance', number')
  BY <1>3, IdleIsSound, CommitKeepsOthers
<1>9. \A u, v \in Importers : u # v => Apart(tx'[u], tx'[v])
  <2>1. \A y, z : Apart(y, z) => Apart(z, y)
    BY DEF Apart
  <2>2. QED
    BY <1>3, <2>1, IdleIsApart DEF IInv
<1>10. QED
  BY <1>6, <1>7, <1>8, <1>9, CommitKeepsBooks DEF IInv

LEMMA ChargeKeepsIInv ==
    ASSUME IInv, ChargeMeanwhile PROVE IInv'
<1>1. /\ credit' = credit - 1 /\ charged' = charged + 1 /\ charged < MaxCharges
      /\ UNCHANGED <<balance, number, deposits, payments, tx>>
  BY DEF ChargeMeanwhile
<1>2. ImportTypes'
  BY <1>1, ImportAssumption DEF IInv, ImportTypes
<1>3. CommittedLedgerBalanced'
  <2>1. PICK n \in Nat : AccountInvoices = 1 .. n
    BY InvoicesAreNumbered
  <2>2. Integers(balance, n)
    BY <2>1 DEF IInv, ImportTypes, Integers
  <2>3. Sum(balance) \in Int /\ Amounts(deposits) \in Int /\ charged \in Int /\ credit \in Int
    BY <2>2, SumIsInt, AmountsAreInt, ImportAssumption DEF IInv, ImportTypes
  <2>4. credit = Amounts(deposits) - Sum(balance) - charged
    BY DEF IInv, CommittedLedgerBalanced, Amounts
  <2>5. credit' = Amounts(deposits') - Sum(balance') - charged'
    BY <1>1, <2>3, <2>4
  <2>6. QED
    BY <2>5 DEF CommittedLedgerBalanced, Amounts
<1>4. QED
  BY <1>1, <1>2, <1>3 DEF IInv, NumbersFollowCommits, CreditedAtMostPrice

LEMMA InitEstablishes == ImportInit => IInv
<1> SUFFICES ASSUME ImportInit PROVE IInv
  OBVIOUS
<1>1. PICK n \in Nat : AccountInvoices = 1 .. n
  BY InvoicesAreNumbered
<1>2. Integers(Debts, n) /\ Debts \in [AccountInvoices -> Int]
  BY <1>1, ImportAssumption DEF AccountInvoices, Integers
<1>3. Sum(Debts) \in Int
  BY <1>2, SumIsInt
<1>4. ImportTypes
  BY <1>2, <1>3, IdleIsSound, ImportAssumption, SMTT(30) DEF ImportInit, ImportTypes
<1>5. \A t \in Importers : TxSound(tx[t], balance, number)
  BY IdleIsSound DEF ImportInit
<1>6. \A t, u \in Importers : t # u => Apart(tx[t], tx[u])
  BY IdleIsApart DEF ImportInit
<1>7. CommittedLedgerBalanced
  <2> DEFINE s == [k \in DOMAIN deposits |-> deposits[k].amount]
  <2>1. DOMAIN s = {}
    BY DEF ImportInit
  <2>2. Sum(s) = 0
    BY <2>1, SumOfEmpty
  <2>3. balance = Debts /\ credit = -Sum(Debts) /\ charged = 0
    BY DEF ImportInit
  <2> HIDE DEF s
  <2>4. credit = Sum(s) - Sum(balance) - charged
    BY <1>3, <2>2, <2>3
  <2>5. QED
    BY <2>4 DEF CommittedLedgerBalanced, s
<1>8. NumbersFollowCommits /\ CreditedAtMostPrice
  BY DEF ImportInit, NumbersFollowCommits, CreditedAtMostPrice
<1>9. QED
  BY <1>4, <1>5, <1>6, <1>7, <1>8 DEF IInv

LEMMA NextPreserves == IInv /\ [ImportNext]_vars => IInv'
<1> SUFFICES ASSUME IInv, [ImportNext]_vars PROVE IInv'
  OBVIOUS
<1>1. ASSUME UNCHANGED vars PROVE IInv'
  BY <1>1 DEF vars, IInv, ImportTypes, CommittedLedgerBalanced, NumbersFollowCommits,
              CreditedAtMostPrice
<1>2. ASSUME NEW t \in Importers, Step(t) PROVE IInv'
  BY <1>2, FindKeepsIInv, PayKeepsIInv, CreditKeepsIInv, DoneKeepsIInv, DepositKeepsIInv,
     CommitKeepsIInv DEF Step
<1>3. ASSUME NEW t \in Importers, Abort(t) \/ DeadlockDetected(t) PROVE IInv'
  BY <1>3, AbortKeepsIInv
<1>4. ASSUME NEW t \in Importers, NEW uuid \in BankPayments,
             StartImport(t, uuid) \/ AlreadyProcessed(t, uuid)
      PROVE  IInv'
  BY <1>1, <1>4, StartKeepsIInv DEF AlreadyProcessed
<1>5. QED
  BY <1>1, <1>2, <1>3, <1>4, ChargeKeepsIInv DEF ImportNext

LEMMA IInvHolds == ImportSpec => []IInv
  BY InitEstablishes, NextPreserves, PTL DEF ImportSpec

(* The committed credit agrees with the committed invoices, deposit        *)
(* invoices are numbered without a gap in the order of commits, and no row *)
(* is locked twice, for any number of importers, debts, payments, failures *)
(* and deadlock victims (processPayment, bank_manager.cc:374).             *)
THEOREM BooksStaySound == ImportSpec => []CommittedBooksSound
<1>1. IInv => CommittedBooksSound
  <2> SUFFICES ASSUME IInv PROVE CommittedBooksSound
    OBVIOUS
  <2>1. ImportTypeOK
    <3>1. \A t \in Importers : tx[t] \in Transactions
      BY DEF IInv, ImportTypes
    <3>2. \A t \in Importers :
             /\ tx[t].pc \in {"idle", "checked", "paying", "crediting", "deposit", "done"}
             /\ tx[t].uuid \in BankPayments \cup {NoUuid}
             /\ tx[t].rest \in Nat /\ tx[t].credited \in Int /\ tx[t].change \in Int
      BY <3>1 DEF Transactions
    <3>3. \A t, u \in Importers : t # u =>
             /\ ~(LocksCredit(t) /\ LocksCredit(u))
             /\ ~(LocksNumber(t) /\ LocksNumber(u))
             /\ \A i \in AccountInvoices : ~(LocksInvoice(t, i) /\ LocksInvoice(u, i))
      BY DEF IInv, Apart, Pays, LocksCredit, LocksNumber, LocksInvoice
    <3>4. QED
      BY <3>2, <3>3 DEF IInv, ImportTypes, ImportTypeOK, Deposit
  <2>2. QED
    BY <2>1 DEF IInv, CommittedBooksSound
<1>2. QED
  BY <1>1, IInvHolds, PTL

(* No payment brings more credit than its price, whatever the imports      *)
(* beside it did to the debts it had read (zero_account_invoice_balance,   *)
(* invoice.cc:1299).                                                       *)
THEOREM PaymentsKeepTheirPrice == ImportSpec => []CreditedAtMostPrice
<1>1. IInv => CreditedAtMostPrice
  BY DEF IInv
<1>2. QED
  BY <1>1, IInvHolds, PTL

-----------------------------------------------------------------------------
(* Division and rounding.                                                  *)
LEMMA Rounding ==
    ASSUME NEW a \in Int, NEW d \in Nat \ {0}
    PROVE  /\ RoundHalfUp(a, d) \in Int
           /\ 2 * (d * RoundHalfUp(a, d)) <= 2 * a + d
           /\ 2 * a + d < 2 * (d * RoundHalfUp(a, d)) + 2 * d
<1>1. 2 * a + d \in Int /\ 2 * d \in Nat \ {0}
  OBVIOUS
<1>2. PICK b \in Int, e \in Nat \ {0} : b = 2 * a + d /\ e = 2 * d
  BY <1>1
<1>3. b \div e \in Int /\ e * (b \div e) <= b /\ b < e * (b \div e) + e
  OBVIOUS
<1>4. PICK q \in Int : q = b \div e
  BY <1>3
<1>5. RoundHalfUp(a, d) = q
  BY <1>2, <1>4 DEF RoundHalfUp
<1>6. e * q = 2 * (d * q)
  BY <1>2
<1>7. QED
  BY <1>2, <1>3, <1>4, <1>5, <1>6

(* Taking off the VAT rounds twice, and is wrong by less than one cent     *)
(* with its VAT.  Hence a payment that does not exceed a debt with VAT     *)
(* pays no more than the debt.                                             *)
LEMMA VatTakenOff ==
    ASSUME NEW u \in Nat
    PROVE  /\ WithoutVat(u) \in Nat
           /\ WithVat(WithoutVat(u)) < u + WithVat(1)
           /\ u < WithVat(WithoutVat(u)) + WithVat(1)
           /\ \A b \in Nat : u <= WithVat(b) => WithoutVat(u) <= b
<1>1. Vat \in Nat
  BY AccountingAssumption
<1>2. PICK D \in Nat \ {0} : D = 100 + Vat
  BY <1>1
<1>3. PICK p \in Nat : p = u * Vat
  BY <1>1
<1>4. PICK E \in Nat \ {0} : E = 100 * D
  BY <1>2
<1>5. PICK q \in Int : /\ q = count_dph(u)
                       /\ 2 * (E * q) <= 2 * p + E /\ 2 * p + E < 2 * (E * q) + 2 * E
  <2>1. count_dph(u) = RoundHalfUp(p, E)
    BY <1>2, <1>3, <1>4 DEF count_dph
  <2>2. PICK q : q = RoundHalfUp(p, E)
    OBVIOUS
  <2>3. q \in Int /\ 2 * (E * q) <= 2 * p + E /\ 2 * p + E < 2 * (E * q) + 2 * E
    BY <2>2, Rounding
  <2>4. QED
    BY <2>1, <2>2, <2>3
<1>6. PICK c \in Int : c = u - 100 * q
  OBVIOUS
<1>7. PICK w \in Int : /\ w = WithoutVat(u)
                       /\ 2 * (100 * w) <= 2 * c + 100 /\ 2 * c + 100 < 2 * (100 * w) + 2 * 100
  <2>1. WithoutVat(u) = RoundHalfUp(c, 100)
    BY <1>5, <1>6 DEF WithoutVat
  <2>2. 100 \in Nat \ {0}
    OBVIOUS
  <2>3. QED
    BY <2>1, <2>2, Rounding
<1>8. PICK x \in Int, y \in Int, z \in Int : x = D * w /\ y = D * q /\ z = D * u
  OBVIOUS
<1>9. z = 100 * u + p
  BY <1>1, <1>2, <1>3, <1>8
<1>10. E * q = 100 * y
  BY <1>4, <1>8
<1>11. D * (200 * w) = 200 * x /\ D * (2 * c + 100) = 2 * z - 200 * y + 100 * D
  BY <1>6, <1>8
<1>12. D * (200 * w) <= D * (2 * c + 100)
  <2>1. 200 * w <= 2 * c + 100
    BY <1>7
  <2>2. \A a, b \in Int : a <= b => D * a <= D * b
    OBVIOUS
  <2>3. QED
    BY <2>1, <2>2
<1>13. x < u + D
  BY <1>4, <1>5, <1>9, <1>10, <1>11, <1>12
<1>14. 2 * c + 100 <= 200 * w + 199
  BY <1>7
<1>15. u < x + D
  <2>1. D * (2 * c + 100) <= D * (200 * w + 199)
    <3>1. \A a, b \in Int : a <= b => D * a <= D * b
      OBVIOUS
    <3>2. QED
      BY <1>14, <3>1
  <2>2. D * (200 * w + 199) = D * (200 * w) + 199 * D
    OBVIOUS
  <2>3. QED
    BY <1>4, <1>5, <1>9, <1>10, <1>11, <2>1, <2>2
<1>16. WithVat(w) = x /\ WithVat(1) = D
  BY <1>1, <1>2, <1>8 DEF WithVat
<1>17. ASSUME NEW b \in Int, x < D * b + D PROVE w <= b
  <2>1. CASE w >= b + 1
    <3>1. D * w >= D * (b + 1)
      BY <2>1
    <3>2. D * (b + 1) = D * b + D
      OBVIOUS
    <3>3. QED
      BY <1>8, <1>17, <3>1, <3>2
  <2>2. QED
    BY <2>1
<1>18. w \in Nat
  <2>1. CASE w <= -1
    <3>1. D * w <= D * (-1)
      BY <2>1
    <3>2. D * (-1) = -D
      OBVIOUS
    <3>3. QED
      BY <1>8, <1>15, <3>1, <3>2
  <2>2. QED
    BY <2>1
<1>19. ASSUME NEW b \in Nat, u <= WithVat(b) PROVE w <= b
  <2>1. WithVat(b) = D * b
    BY <1>1, <1>2 DEF WithVat
  <2>2. x < D * b + D
    BY <1>13, <1>19, <2>1
  <2>3. QED
    BY <1>17, <2>2
<1>20. QED
  BY <1>7, <1>13, <1>15, <1>16, <1>18, <1>19

LEMMA SumSeqIsSum == ASSUME NEW s PROVE SumSeq(s) = Sum(s)
  BY DEF SumSeq, Sum

LEMMA SumSeqOfAppend ==
    ASSUME NEW s \in Seq(Nat), NEW c \in Nat
    PROVE  SumSeq(s) \in Int /\ SumSeq(Append(s, c)) = SumSeq(s) + c
<1>1. PICK n \in Nat : n = Len(s)
  OBVIOUS
<1>2. PICK t : t = Append(s, c)
  OBVIOUS
<1>3. Integers(s, n) /\ Integers(t, n + 1) /\ t[n + 1] = c
  BY <1>1, <1>2 DEF Integers
<1>4. \A i \in 1 .. n : t[i] = s[i]
  BY <1>1, <1>2
<1>5. Sum(s) \in Int
  BY <1>3, SumIsInt
<1>6. Sum(t) = Sum(s) + t[n + 1]
  BY <1>3, <1>4, SumOfAppend
<1>7. QED
  BY <1>2, <1>3, <1>5, <1>6, SumSeqIsSum

(* The credits of a payment of this price are right to less than one cent. *)
Close(sum, price) ==
    LET difference == WithVat(sum) - 100 * price
    IN  difference < WithVat(1) /\ -difference < WithVat(1)

(* It is the last credit, for what is left of the payment, that is rounded. *)
LEMMA LastCreditIsClose ==
    ASSUME NEW sum \in Int, NEW c \in Nat, NEW u \in Nat, NEW price \in Nat,
           u + WithVat(sum) = 100 * price,
           WithVat(c) < u + WithVat(1), u < WithVat(c) + WithVat(1)
    PROVE  Close(sum + c, price)
<1>1. Vat \in Nat
  BY AccountingAssumption
<1>2. WithVat(sum + c) = WithVat(sum) + WithVat(c)
  BY <1>1 DEF WithVat
<1>3. WithVat(sum) \in Int /\ WithVat(c) \in Int /\ WithVat(1) \in Int
  BY <1>1 DEF WithVat
<1>4. PICK paid \in Int, more \in Int, cent \in Int, all \in Int :
          paid = WithVat(sum) /\ more = WithVat(c) /\ cent = WithVat(1) /\ all = 100 * price
  BY <1>3
<1>5. paid + more - all < cent /\ -(paid + more - all) < cent
  BY <1>4
<1>6. QED
  BY <1>2, <1>4, <1>5 DEF Close

(* What holds at every turn of processPayment's loop over the debts.       *)
PayingDebts(price) ==
    {s \in [rest : Nat, change : [DOMAIN invoice -> Nat], credits : Seq(Nat)] :
        /\ \A i \in DOMAIN invoice : s.change[i] <= invoice[i].balance
        /\ \/ s.rest + WithVat(SumSeq(s.credits)) = 100 * price
           \/ s.rest = 0 /\ Close(SumSeq(s.credits), price)}

StartPaying(price) ==
    [rest |-> 100 * price, change |-> [i \in DOMAIN invoice |-> 0], credits |-> << >>]

PayTurn(r, price) ==
    [p \in PayingDebts(price) \X DOMAIN invoice |-> PayDebt(r, p[1], p[2])]

Balances == \A i \in DOMAIN invoice : invoice[i].balance \in Nat

LEMMA PayDebtStays ==
    ASSUME Balances, NEW r, NEW price \in Nat, NEW s \in PayingDebts(price),
           NEW i \in DOMAIN invoice
    PROVE  PayDebt(r, s, i) \in PayingDebts(price)
<1> DEFINE b == invoice[i].balance
           due == WithVat(b)
           partial == s.rest <= due
           change == IF partial THEN WithoutVat(s.rest) ELSE b
           t == [rest |-> IF partial THEN 0 ELSE s.rest - due,
                 change |-> [s.change EXCEPT ![i] = change],
                 credits |-> Append(s.credits, change)]
<1>1. CASE i \notin UnpaidAccountInvoices(r) \/ s.rest = 0
  BY <1>1 DEF PayDebt
<1>2. CASE i \in UnpaidAccountInvoices(r) /\ s.rest # 0
  <2>1. PayDebt(r, s, i) = t
    BY <1>2 DEF PayDebt
  <2>2. /\ s.rest \in Nat /\ s.change \in [DOMAIN invoice -> Nat] /\ s.credits \in Seq(Nat)
        /\ \A j \in DOMAIN invoice : s.change[j] <= invoice[j].balance
        /\ s.rest + WithVat(SumSeq(s.credits)) = 100 * price
    BY <1>2 DEF PayingDebts
  <2>3. b \in Nat /\ Vat \in Nat
    BY AccountingAssumption DEF Balances
  <2>4. \A k \in Nat : WithVat(k) \in Nat
    BY <2>3 DEF WithVat
  <2>5. due \in Nat
    BY <2>3, <2>4
  <2>6. change \in Nat /\ change <= b
    <3>1. PICK u \in Nat : u = s.rest
      BY <2>2
    <3>2. WithoutVat(u) \in Nat /\ \A d \in Nat : u <= WithVat(d) => WithoutVat(u) <= d
      BY VatTakenOff
    <3>3. QED
      BY <2>3, <3>1, <3>2
  <2>7. PICK c \in Nat : c = change
    BY <2>6
  <2>8. SumSeq(s.credits) \in Int /\ SumSeq(Append(s.credits, c)) = SumSeq(s.credits) + c
    BY <2>2, SumSeqOfAppend
  <2>9. PICK sum \in Int : sum = SumSeq(s.credits)
    BY <2>8
  <2>10. WithVat(sum + c) = WithVat(sum) + WithVat(c) /\ WithVat(sum) \in Int /\ WithVat(c) \in Int
    BY <2>3 DEF WithVat
  <2>11. CASE partial
    <3>1. c = WithoutVat(s.rest)
      BY <2>7, <2>11
    <3>2. WithVat(c) < s.rest + WithVat(1) /\ s.rest < WithVat(c) + WithVat(1)
      BY <2>2, <3>1, VatTakenOff
    <3>3. WithVat(1) \in Nat
      BY <2>4
    <3>4. Close(sum + c, price)
      <4>1. PICK u \in Nat : u = s.rest
        BY <2>2
      <4>2. /\ u + WithVat(sum) = 100 * price
            /\ WithVat(c) < u + WithVat(1) /\ u < WithVat(c) + WithVat(1)
        BY <2>2, <2>9, <3>2, <4>1
      <4>3. QED
        BY <4>2, LastCreditIsClose
    <3>5. t.rest = 0 /\ t.credits = Append(s.credits, c)
      BY <2>7, <2>11
    <3>6. Close(SumSeq(t.credits), price)
      BY <2>8, <2>9, <3>4, <3>5
    <3>7. t \in [rest : Nat, change : [DOMAIN invoice -> Nat], credits : Seq(Nat)]
      BY <2>2, <2>7, <2>11
    <3>8. \A j \in DOMAIN invoice : t.change[j] <= invoice[j].balance
      BY <2>2, <2>6, <2>7
    <3>9. QED
      BY <2>1, <3>5, <3>6, <3>7, <3>8 DEF PayingDebts
  <2>12. CASE ~partial
    <3>1. c = b
      BY <2>7, <2>12
    <3>2. t.rest = s.rest - due /\ t.credits = Append(s.credits, c) /\ t.rest \in Nat
      BY <2>2, <2>5, <2>7, <2>12
    <3>3. t.rest + WithVat(SumSeq(t.credits)) = 100 * price
      <4>1. WithVat(SumSeq(t.credits)) = WithVat(sum) + WithVat(c)
        BY <2>8, <2>9, <2>10, <3>2
      <4>2. WithVat(c) = due
        BY <3>1
      <4> HIDE DEF due, t
      <4>3. PICK x \in Int, y \in Int, z \in Int : x = s.rest /\ y = WithVat(sum) /\ z = due
        BY <2>2, <2>5, <2>10
      <4>4. x + y = 100 * price
        BY <2>2, <2>9, <4>3
      <4>5. t.rest = x - z /\ WithVat(SumSeq(t.credits)) = y + z
        BY <3>2, <4>1, <4>2, <4>3
      <4>6. (x - z) + (y + z) = 100 * price
        BY <4>4
      <4>7. QED
        BY <4>5, <4>6
    <3>4. t \in [rest : Nat, change : [DOMAIN invoice -> Nat], credits : Seq(Nat)]
      BY <2>2, <2>7, <3>2
    <3>5. \A j \in DOMAIN invoice : t.change[j] <= invoice[j].balance
      BY <2>2, <2>6, <2>7
    <3>6. QED
      BY <2>1, <3>3, <3>4, <3>5 DEF PayingDebts
  <2>13. QED
    BY <2>11, <2>12
<1>3. QED
  BY <1>1, <1>2

LEMMA DebtsPaidRuns ==
    ASSUME Balances, NEW n \in Nat, DOMAIN invoice = 1 .. n, NEW r, NEW price \in Nat
    PROVE  /\ StartPaying(price) \in PayingDebts(price)
           /\ Closed(PayTurn(r, price), PayingDebts(price), 1 .. n)
           /\ DebtsPaid(r, price) = RunTo(StartPaying(price), PayTurn(r, price), n)
<1>1. PICK U : U = PayingDebts(price)
  OBVIOUS
<1>2. PICK step : step = PayTurn(r, price)
  OBVIOUS
<1>3. PICK base : base = StartPaying(price)
  OBVIOUS
<1>4. base \in U
  <2>1. SumSeq(<< >>) = 0
    BY SumOfEmpty, SumSeqIsSum
  <2>2. WithVat(0) = 0
    BY AccountingAssumption DEF WithVat
  <2>3. QED
    BY <1>1, <1>3, <2>1, <2>2 DEF StartPaying, PayingDebts, Balances
<1> DEFINE S == 1 .. n
           seq == [i \in S |-> i]
           Solves(g) == g = [s \in SUBSET S |->
               IF s = {} THEN base ELSE PayDebt(r, g[s \ {Max(s)}], seq[Max(s)])]
           h == CHOOSE g : Solves(g)
<1>5. DebtsPaid(r, price) = h[S]
  BY <1>3 DEF DebtsPaid, FoldLeftDomain, FoldLeft, MapThenFoldSet, StartPaying
<1>6. Indices(S)
  BY IntervalsAreIndices
<1>7. \A y \in U, i \in S : step[<<y, i>>] = PayDebt(r, y, seq[i]) /\ step[<<y, i>>] \in U
  BY <1>1, <1>2, PayDebtStays DEF PayTurn
<1>8. Closed(step, U, S)
  BY <1>7 DEF Closed
<1> HIDE DEF S, seq
<1>9. PICK g : Runs(g, base, step, S)
  BY <1>6, RunsExist
<1>10. \A s \in SUBSET S : g[s] \in U
  BY <1>4, <1>6, <1>8, <1>9, RunsStay
<1>11. Solves(g)
  <2> DEFINE v(s) == IF s = {} THEN base ELSE step[<<g[s \ {Max(s)}], Max(s)>>]
             u(s) == IF s = {} THEN base ELSE PayDebt(r, g[s \ {Max(s)}], seq[Max(s)])
  <2>1. ASSUME NEW s \in SUBSET S PROVE v(s) = u(s)
    <3>1. s # {} => Max(s) \in S /\ s \ {Max(s)} \in SUBSET S
      BY <1>6 DEF Indices
    <3>2. QED
      BY <1>7, <1>10, <3>1
  <2>2. g = [s \in SUBSET S |-> v(s)]
    BY <1>9 DEF Runs
  <2> HIDE DEF u, v
  <2>3. g = [s \in SUBSET S |-> u(s)]
    BY <2>1, <2>2
  <2>4. QED
    BY <2>3 DEF u
<1>12. Solves(h)
  BY <1>11
<1> HIDE DEF h
<1>13. Follows(h, base, step, U, S)
  <2>1. ASSUME NEW s \in SUBSET S
        PROVE  h[s] = IF s = {} THEN base ELSE PayDebt(r, h[s \ {Max(s)}], seq[Max(s)])
    BY <1>12
  <2>2. \A s \in SUBSET S : s # {} => Max(s) \in S
    BY <1>6 DEF Indices
  <2>3. QED
    BY <1>7, <2>1, <2>2 DEF Follows
<1>14. h[S] = RunTo(base, step, n)
  BY <1>4, <1>8, <1>13, FollowersRun DEF S
<1>15. QED
  BY <1>1, <1>2, <1>3, <1>4, <1>5, <1>8, <1>14 DEF S

LEMMA DebtsPaidStays ==
    ASSUME Balances, NEW n \in Nat, DOMAIN invoice = 1 .. n, NEW r, NEW price \in Nat
    PROVE  DebtsPaid(r, price) \in PayingDebts(price)
<1>1. PICK U, step, base :
          U = PayingDebts(price) /\ step = PayTurn(r, price) /\ base = StartPaying(price)
  OBVIOUS
<1>2. /\ base \in U /\ Closed(step, U, 1 .. n)
      /\ DebtsPaid(r, price) = RunTo(base, step, n)
  BY <1>1, DebtsPaidRuns
<1>3. \A k \in 0 .. n : RunTo(base, step, k) \in U
  BY <1>2, RunToStays
<1>4. QED
  BY <1>1, <1>2, <1>3

(* A turn of the inner loop takes from the advance what it takes off the   *)
(* price: what holds at every turn, for the balances b of m advances.      *)
PulledRow == [operation : Nat, invoice : Nat \cup {AccountInvoice}, price : Nat]

Pulling(m, b) ==
    {s \in [balance : [1 .. m -> Nat], credit_change : [1 .. m -> Nat], rows : Seq(PulledRow),
            price_left : Nat, price_to_pull_off : Nat, broke : BOOLEAN] :
        \A i \in 1 .. m : s.balance[i] + s.credit_change[i] = b[i]}

PullingTo(m, b, total, left) ==
    {s \in Pulling(m, b) :
        s.price_to_pull_off + SumSeq(s.credit_change) = total /\ s.price_left = left}

LEMMA PullFromStays ==
    ASSUME NEW m \in Nat, NEW b, NEW total, NEW left, NEW s \in PullingTo(m, b, total, left),
           NEW op \in Nat, NEW i \in 1 .. m
    PROVE  PullFrom(op, s, i) \in PullingTo(m, b, total, left)
<1>1. CASE s.broke \/ s.balance[i] = 0
  BY <1>1 DEF PullFrom
<1>2. CASE ~s.broke /\ s.balance[i] # 0
  <2>1. /\ s.balance \in [1 .. m -> Nat] /\ s.credit_change \in [1 .. m -> Nat]
        /\ s.rows \in Seq(PulledRow) /\ s.price_left \in Nat /\ s.price_to_pull_off \in Nat
        /\ \A j \in 1 .. m : s.balance[j] + s.credit_change[j] = b[j]
        /\ s.price_to_pull_off + SumSeq(s.credit_change) = total /\ s.price_left = left
    BY DEF PullingTo, Pulling
  <2>2. PICK c \in Nat : /\ c = Smaller(s.price_to_pull_off, s.balance[i])
                         /\ c <= s.price_to_pull_off /\ c <= s.balance[i]
    <3>1. PICK x \in Nat, y \in Nat : x = s.price_to_pull_off /\ y = s.balance[i]
      BY <2>1
    <3>2. Smaller(x, y) \in Nat /\ Smaller(x, y) <= x /\ Smaller(x, y) <= y
      BY DEF Smaller
    <3>3. QED
      BY <3>1, <3>2
  <2>3. PICK t : t = PullFrom(op, s, i)
    OBVIOUS
  <2>4. t = [s EXCEPT !.balance[i] = s.balance[i] - c,
                      !.credit_change[i] = s.credit_change[i] + c,
                      !.price_to_pull_off = s.price_to_pull_off - c,
                      !.rows = Append(s.rows, Row(op, i, c)),
                      !.broke = c = s.price_to_pull_off]
    BY <1>2, <2>2, <2>3 DEF PullFrom
  <2>5. s = [balance |-> s.balance, credit_change |-> s.credit_change, rows |-> s.rows,
             price_left |-> s.price_left, price_to_pull_off |-> s.price_to_pull_off,
             broke |-> s.broke]
    BY DEF PullingTo, Pulling
  <2>6. t = [balance |-> [s.balance EXCEPT ![i] = s.balance[i] - c],
             credit_change |-> [s.credit_change EXCEPT ![i] = s.credit_change[i] + c],
             rows |-> Append(s.rows, Row(op, i, c)),
             price_left |-> s.price_left,
             price_to_pull_off |-> s.price_to_pull_off - c,
             broke |-> c = s.price_to_pull_off]
    BY <2>4, <2>5
  <2>7. /\ t.balance = [s.balance EXCEPT ![i] = s.balance[i] - c]
        /\ t.credit_change = [s.credit_change EXCEPT ![i] = s.credit_change[i] + c]
        /\ t.price_to_pull_off = s.price_to_pull_off - c /\ t.price_left = s.price_left
    BY <2>6
  <2>8. t.balance \in [1 .. m -> Nat] /\ t.credit_change \in [1 .. m -> Nat]
        /\ t.price_to_pull_off \in Nat
    <3>1. s.balance[i] - c \in Nat /\ s.credit_change[i] + c \in Nat
          /\ s.price_to_pull_off - c \in Nat
      <4>1. PICK x \in Nat, y \in Nat, z \in Nat :
                x = s.price_to_pull_off /\ y = s.balance[i] /\ z = s.credit_change[i]
        BY <2>1
      <4>2. x - c \in Nat /\ y - c \in Nat /\ z + c \in Nat
        BY <2>2, <4>1
      <4>3. QED
        BY <4>1, <4>2
    <3>2. QED
      BY <2>1, <2>7, <3>1, SMTT(30)
  <2>9. \A j \in 1 .. m : t.balance[j] + t.credit_change[j] = b[j]
    <3> SUFFICES ASSUME NEW j \in 1 .. m PROVE t.balance[j] + t.credit_change[j] = b[j]
      OBVIOUS
    <3>1. PICK x \in Nat, y \in Nat : x = s.balance[j] /\ y = s.credit_change[j] /\ x + y = b[j]
      BY <2>1
    <3>2. CASE j = i
      <4>1. t.balance[j] = x - c /\ t.credit_change[j] = y + c
        BY <2>1, <2>7, <3>1, <3>2
      <4>2. QED
        BY <3>1, <4>1
    <3>3. CASE j # i
      BY <2>1, <2>7, <3>1, <3>3
    <3>4. QED
      BY <3>2, <3>3
  <2>10. Row(op, i, c) \in PulledRow
    BY DEF Row, PulledRow
  <2>11. SumSeq(t.credit_change) = SumSeq(s.credit_change) + c /\ SumSeq(s.credit_change) \in Int
    <3>1. PICK w, v : w = t.credit_change /\ v = s.credit_change
      OBVIOUS
    <3>2. Integers(w, m) /\ Integers(v, m)
      BY <2>1, <2>8, <3>1 DEF Integers
    <3>3. Differ(w, v, m, i, c)
      <4> SUFFICES ASSUME NEW j \in 1 .. m
                   PROVE  w[j] = v[j] + (IF j = i THEN c ELSE 0)
        BY DEF Differ
      <4>1. v \in [1 .. m -> Nat] /\ w = [v EXCEPT ![i] = v[i] + c]
        BY <2>1, <2>7, <3>1
      <4>2. PICK y \in Nat : y = v[j]
        BY <4>1
      <4>3. CASE j = i
        <5>1. w[j] = y + c
          BY <4>1, <4>2, <4>3
        <5>2. QED
          BY <4>2, <4>3, <5>1
      <4>4. CASE j # i
        <5>1. w[j] = y
          BY <4>1, <4>2, <4>4
        <5>2. QED
          BY <4>2, <4>4, <5>1
      <4>5. QED
        BY <4>3, <4>4
    <3>4. c \in Int
      OBVIOUS
    <3>5. Sum(w) = Sum(v) + c /\ Sum(v) \in Int
      BY <3>2, <3>3, <3>4, SumOfPoint, SumIsInt
    <3>6. QED
      BY <3>1, <3>5, SumSeqIsSum
  <2>12. t.price_to_pull_off + SumSeq(t.credit_change) = total
    BY <2>1, <2>2, <2>7, <2>11
  <2>13. t \in [balance : [1 .. m -> Nat], credit_change : [1 .. m -> Nat], rows : Seq(PulledRow),
            price_left : Nat, price_to_pull_off : Nat, broke : BOOLEAN]
    <3>1. Append(s.rows, Row(op, i, c)) \in Seq(PulledRow)
      BY <2>1, <2>10
    <3>2. (c = s.price_to_pull_off) \in BOOLEAN
      OBVIOUS
    <3>3. QED
      BY <2>1, <2>6, <2>7, <2>8, <3>1, <3>2
  <2>14. QED
    BY <2>1, <2>3, <2>7, <2>9, <2>12, <2>13 DEF PullingTo, Pulling
<1>3. QED
  BY <1>1, <1>2 DEF PullingTo, Pulling

(* The inner loop, over all advances.                                      *)
Pulled(op, start, m) ==
    FoldLeft(LAMBDA u, i : PullFrom(op, u, i), start, [i \in 1 .. m |-> i])

(* The states of the inner loop: g[k] after k advances.                    *)
PullTrace(g, op, base, m, U) ==
    /\ g \in [0 .. m -> U] /\ g[0] = base /\ g[m] = Pulled(op, base, m)
    /\ \A k \in 1 .. m : g[k] = PullFrom(op, g[k - 1], k)

LEMMA PulledTrace ==
    ASSUME NEW m \in Nat, NEW b, NEW total, NEW left, NEW base \in PullingTo(m, b, total, left),
           NEW op \in Nat
    PROVE  \E g : PullTrace(g, op, base, m, PullingTo(m, b, total, left))
<1>1. PICK U : U = PullingTo(m, b, total, left)
  OBVIOUS
<1> DEFINE S == 1 .. m
           seq == [i \in S |-> i]
           Solves(g) == g = [s \in SUBSET S |->
               IF s = {} THEN base ELSE PullFrom(op, g[s \ {Max(s)}], seq[Max(s)])]
           h == CHOOSE g : Solves(g)
<1>2. PICK step : step = [p \in U \X S |-> PullFrom(op, p[1], p[2])]
  OBVIOUS
<1>3. base \in U
  BY <1>1
<1>4. Pulled(op, base, m) = h[S]
  BY DEF Pulled, FoldLeft, MapThenFoldSet
<1>5. Indices(S)
  BY IntervalsAreIndices
<1>6. \A y \in U, i \in S : step[<<y, i>>] = PullFrom(op, y, seq[i]) /\ step[<<y, i>>] \in U
  BY <1>1, <1>2, PullFromStays
<1>7. Closed(step, U, S)
  BY <1>6 DEF Closed
<1> HIDE DEF S, seq
<1>8. PICK g : Runs(g, base, step, S)
  BY <1>5, RunsExist
<1>9. \A s \in SUBSET S : g[s] \in U
  BY <1>3, <1>5, <1>7, <1>8, RunsStay
<1>10. Solves(g)
  <2> DEFINE v(s) == IF s = {} THEN base ELSE step[<<g[s \ {Max(s)}], Max(s)>>]
             u(s) == IF s = {} THEN base ELSE PullFrom(op, g[s \ {Max(s)}], seq[Max(s)])
  <2>1. ASSUME NEW s \in SUBSET S PROVE v(s) = u(s)
    <3>1. s # {} => Max(s) \in S /\ s \ {Max(s)} \in SUBSET S
      BY <1>5 DEF Indices
    <3>2. QED
      BY <1>6, <1>9, <3>1
  <2>2. g = [s \in SUBSET S |-> v(s)]
    BY <1>8 DEF Runs
  <2> HIDE DEF u, v
  <2>3. g = [s \in SUBSET S |-> u(s)]
    BY <2>1, <2>2
  <2>4. QED
    BY <2>3 DEF u
<1>11. Solves(h)
  BY <1>10
<1> HIDE DEF h
<1>12. Follows(h, base, step, U, S)
  <2>1. ASSUME NEW s \in SUBSET S
        PROVE  h[s] = IF s = {} THEN base ELSE PullFrom(op, h[s \ {Max(s)}], seq[Max(s)])
    BY <1>11
  <2>2. \A s \in SUBSET S : s # {} => Max(s) \in S
    BY <1>5 DEF Indices
  <2>3. QED
    BY <1>6, <2>1, <2>2 DEF Follows
<1>13. h[S] = RunTo(base, step, m)
  BY <1>3, <1>7, <1>12, FollowersRun DEF S
<1>14. PICK trace : RunTrace(trace, base, step, U, m)
  BY <1>3, <1>7, RunToTrace DEF S
<1>15. ASSUME NEW k \in 1 .. m PROVE trace[k] = PullFrom(op, trace[k - 1], k)
  <2>1. trace[k] = step[<<trace[k - 1], k>>] /\ trace[k - 1] \in U
    BY <1>14 DEF RunTrace
  <2>2. k \in S /\ seq[k] = k
    BY DEF S, seq
  <2>3. QED
    BY <1>6, <2>1, <2>2
<1>16. PullTrace(trace, op, base, m, U)
  BY <1>4, <1>13, <1>14, <1>15 DEF PullTrace, RunTrace
<1>17. QED
  BY <1>1, <1>16

LEMMA PulledStays ==
    ASSUME NEW m \in Nat, NEW b, NEW total, NEW left, NEW base \in PullingTo(m, b, total, left),
           NEW op \in Nat
    PROVE  Pulled(op, base, m) \in PullingTo(m, b, total, left)
<1>1. PICK U : U = PullingTo(m, b, total, left)
  OBVIOUS
<1>2. PICK g : PullTrace(g, op, base, m, U)
  BY <1>1, PulledTrace
<1>3. m \in 0 .. m
  OBVIOUS
<1>4. QED
  BY <1>1, <1>2, <1>3 DEF PullTrace

(* The prices are accounted for so far: what the advances have paid and    *)
(* what is left for the account invoice.                                   *)
Covered(s) == s.price_left + SumSeq(s.credit_change)

LEMMA ChargeOperationStays ==
    ASSUME NEW m \in Nat, NEW b, NEW s \in Pulling(m, b), NEW prices, NEW op \in Nat,
           prices[op] \in Nat
    PROVE  /\ ChargeOperation(prices, s, op) \in Pulling(m, b)
           /\ Covered(s) \in Int
           /\ Covered(ChargeOperation(prices, s, op)) = Covered(s) + prices[op]
<1>1. PICK sum \in Int : sum = SumSeq(s.credit_change)
  <2>1. PICK w : w = s.credit_change
    OBVIOUS
  <2>2. Integers(w, m)
    BY <2>1 DEF Pulling, Integers
  <2>3. QED
    BY <2>1, <2>2, SumIsInt, SumSeqIsSum
<1>2. PICK left \in Nat : left = s.price_left
  BY DEF Pulling
<1>3. PICK total \in Int : total = prices[op] + sum
  OBVIOUS
<1>4. PICK base : base = [s EXCEPT !.price_to_pull_off = prices[op], !.broke = FALSE]
  OBVIOUS
<1>5. base \in PullingTo(m, b, total, left)
  <2>1. base \in [balance : [1 .. m -> Nat], credit_change : [1 .. m -> Nat],
                  rows : Seq(PulledRow), price_left : Nat, price_to_pull_off : Nat, broke : BOOLEAN]
        /\ base.balance = s.balance /\ base.credit_change = s.credit_change
        /\ base.price_left = s.price_left /\ base.price_to_pull_off = prices[op]
    BY <1>4 DEF Pulling
  <2>2. \A i \in 1 .. m : base.balance[i] + base.credit_change[i] = b[i]
    BY <2>1 DEF Pulling
  <2>3. base.price_to_pull_off + SumSeq(base.credit_change) = total
    BY <1>1, <1>3, <2>1
  <2>4. QED
    BY <1>2, <2>1, <2>2, <2>3 DEF PullingTo, Pulling
<1>6. PICK t : t = Pulled(op, base, m)
  OBVIOUS
<1>7. t \in PullingTo(m, b, total, left)
  BY <1>5, <1>6, PulledStays
<1>8. DOMAIN s.balance = 1 .. m
  BY DEF Pulling
<1>9. PICK r : r = ChargeOperation(prices, s, op)
  OBVIOUS
<1>10. r = [t EXCEPT !.price_left = t.price_left + t.price_to_pull_off,
                     !.rows = IF t.price_to_pull_off > 0
                              THEN Append(t.rows, Row(op, AccountInvoice, t.price_to_pull_off))
                              ELSE t.rows]
  BY <1>4, <1>6, <1>8, <1>9 DEF ChargeOperation, Pulled
<1>11. /\ t \in [balance : [1 .. m -> Nat], credit_change : [1 .. m -> Nat], rows : Seq(PulledRow),
                 price_left : Nat, price_to_pull_off : Nat, broke : BOOLEAN]
       /\ \A i \in 1 .. m : t.balance[i] + t.credit_change[i] = b[i]
       /\ t.price_to_pull_off + SumSeq(t.credit_change) = total /\ t.price_left = left
  BY <1>7 DEF PullingTo, Pulling
<1>12. PICK x \in Nat : x = t.price_to_pull_off
  BY <1>11
<1>13. PICK rows \in Seq(PulledRow) :
           rows = IF x > 0 THEN Append(t.rows, Row(op, AccountInvoice, x)) ELSE t.rows
  <2>1. Row(op, AccountInvoice, x) \in PulledRow
    BY DEF Row, PulledRow
  <2>2. PICK row \in PulledRow : row = Row(op, AccountInvoice, x)
    BY <2>1
  <2>3. PICK old \in Seq(PulledRow) : old = t.rows
    BY <1>11
  <2>4. Append(old, row) \in Seq(PulledRow)
    OBVIOUS
  <2>5. CASE x > 0
    BY <2>2, <2>3, <2>4, <2>5
  <2>6. CASE ~(x > 0)
    BY <2>3, <2>6
  <2>7. QED
    BY <2>5, <2>6
<1>14. r = [t EXCEPT !.price_left = left + x, !.rows = rows]
  BY <1>10, <1>11, <1>12, <1>13
<1>15. /\ r \in [balance : [1 .. m -> Nat], credit_change : [1 .. m -> Nat], rows : Seq(PulledRow),
                 price_left : Nat, price_to_pull_off : Nat, broke : BOOLEAN]
       /\ r.balance = t.balance /\ r.credit_change = t.credit_change /\ r.price_left = left + x
  <2>1. t = [balance |-> t.balance, credit_change |-> t.credit_change, rows |-> t.rows,
             price_left |-> t.price_left, price_to_pull_off |-> t.price_to_pull_off,
             broke |-> t.broke]
    BY <1>11
  <2>2. r = [balance |-> t.balance, credit_change |-> t.credit_change, rows |-> rows,
             price_left |-> left + x, price_to_pull_off |-> t.price_to_pull_off,
             broke |-> t.broke]
    BY <1>14, <2>1
  <2>3. left + x \in Nat
    OBVIOUS
  <2>4. /\ t.balance \in [1 .. m -> Nat] /\ t.credit_change \in [1 .. m -> Nat]
        /\ t.price_to_pull_off \in Nat /\ t.broke \in BOOLEAN
    BY <1>11
  <2>5. QED
    BY <2>2, <2>3, <2>4
<1>16. r \in Pulling(m, b)
  BY <1>11, <1>15 DEF Pulling
<1>17. SumSeq(r.credit_change) \in Int
  <2>1. PICK w : w = r.credit_change
    OBVIOUS
  <2>2. Integers(w, m)
    BY <1>15, <2>1 DEF Integers
  <2>3. QED
    BY <2>1, <2>2, SumIsInt, SumSeqIsSum
<1>18. x + SumSeq(r.credit_change) = prices[op] + sum
  BY <1>3, <1>11, <1>12, <1>15
<1>19. PICK y \in Int : y = SumSeq(r.credit_change)
  BY <1>17
<1>20. Covered(s) = left + sum /\ Covered(r) = (left + x) + y
  BY <1>1, <1>2, <1>15, <1>19 DEF Covered
<1>21. x + y = prices[op] + sum
  BY <1>18, <1>19
<1>22. QED
  BY <1>9, <1>16, <1>20, <1>21

LEMMA SumIsNat == ASSUME NEW n \in Nat, NEW w \in [1 .. n -> Nat] PROVE SumSeq(w) \in Nat
<1>1. Integers(w, n)
  BY DEF Integers
<1> DEFINE Good == {k \in 0 .. n : SumTo(w, k) \in Nat}
<1>2. 0 \in Good
  <2>1. SumTo(w, 0) = 0
    BY <1>1, SumToStep
  <2>2. QED
    BY <2>1
<1>3. ASSUME NEW k \in 1 .. n, k - 1 \in Good PROVE k \in Good
  <2>1. SumTo(w, k) = SumTo(w, k - 1) + w[k] /\ w[k] \in Nat
    BY <1>1, SumToStep
  <2>2. QED
    BY <1>3, <2>1
<1>4. \A k \in 0 .. n : k \in Good
  <2> HIDE DEF Good
  <2>1. QED
    BY <1>2, <1>3, NumberInduction
<1>5. QED
  BY <1>1, <1>4, SumIsSumTo, SumSeqIsSum

(* The states of the outer loop: g[k] after k operations.                  *)
ChargeTrace(g, prices, m, b, n) ==
    /\ g \in [0 .. n -> Pulling(m, b)] /\ g[0] = Start(b) /\ g[n] = PullOff(prices, b)
    /\ \A k \in 1 .. n : g[k] = ChargeOperation(prices, g[k - 1], k)

LEMMA StartCoversNothing ==
    ASSUME NEW m \in Nat, NEW b \in [1 .. m -> Nat]
    PROVE  Start(b) \in Pulling(m, b) /\ Covered(Start(b)) = 0
<1>1. PICK base : base = Start(b)
  OBVIOUS
<1>2. base = [balance |-> b, credit_change |-> [i \in 1 .. m |-> 0], rows |-> << >>,
              price_left |-> 0, price_to_pull_off |-> 0, broke |-> FALSE]
  BY <1>1 DEF Start
<1>3. base \in Pulling(m, b)
  BY <1>2 DEF Pulling
<1>4. PICK w : w = [i \in 1 .. m |-> 0]
  OBVIOUS
<1>5. SumSeq(w) = 0
  <2>1. Integers(w, m) /\ Adds(w, w, w, m)
    BY <1>4 DEF Integers, Adds
  <2>2. Sum(w) = Sum(w) + Sum(w) /\ Sum(w) \in Int
    BY <2>1, SumOfSums, SumIsInt
  <2>3. QED
    BY <2>2, SumSeqIsSum
<1>6. base.price_left = 0 /\ base.credit_change = w
  BY <1>2, <1>4
<1>7. Covered(base) = 0
  BY <1>5, <1>6 DEF Covered
<1>8. QED
  BY <1>1, <1>3, <1>7

LEMMA PullOffTrace ==
    ASSUME NEW m \in Nat, NEW b \in [1 .. m -> Nat],
           NEW n \in Nat, NEW prices \in [1 .. n -> Nat]
    PROVE  \E g : ChargeTrace(g, prices, m, b, n)
<1>1. PICK U : U = Pulling(m, b)
  OBVIOUS
<1>2. PICK base : base = Start(b)
  OBVIOUS
<1> DEFINE S == 1 .. n
           seq == [i \in S |-> i]
           Solves(g) == g = [s \in SUBSET S |->
               IF s = {} THEN base ELSE ChargeOperation(prices, g[s \ {Max(s)}], seq[Max(s)])]
           h == CHOOSE g : Solves(g)
<1>3. PICK step : step = [p \in U \X S |-> ChargeOperation(prices, p[1], p[2])]
  OBVIOUS
<1>4. base \in U
  BY <1>1, <1>2, StartCoversNothing
<1>5. PullOff(prices, b) = h[S]
  BY <1>2 DEF PullOff, FoldLeft, MapThenFoldSet
<1>6. Indices(S)
  BY IntervalsAreIndices
<1>7. \A y \in U, i \in S : /\ step[<<y, i>>] = ChargeOperation(prices, y, seq[i])
                            /\ step[<<y, i>>] \in U
  <2> SUFFICES ASSUME NEW y \in U, NEW i \in S
               PROVE  step[<<y, i>>] = ChargeOperation(prices, y, seq[i]) /\ step[<<y, i>>] \in U
    OBVIOUS
  <2>1. step[<<y, i>>] = ChargeOperation(prices, y, i) /\ seq[i] = i
    BY <1>3
  <2>2. i \in Nat /\ prices[i] \in Nat /\ y \in Pulling(m, b)
    BY <1>1
  <2>3. QED
    BY <1>1, <2>1, <2>2, ChargeOperationStays
<1>8. Closed(step, U, S)
  BY <1>7 DEF Closed
<1> HIDE DEF S, seq
<1>9. PICK g : Runs(g, base, step, S)
  BY <1>6, RunsExist
<1>10. \A s \in SUBSET S : g[s] \in U
  BY <1>4, <1>6, <1>8, <1>9, RunsStay
<1>11. Solves(g)
  <2> DEFINE v(s) == IF s = {} THEN base ELSE step[<<g[s \ {Max(s)}], Max(s)>>]
             u(s) == IF s = {} THEN base ELSE ChargeOperation(prices, g[s \ {Max(s)}], seq[Max(s)])
  <2>1. ASSUME NEW s \in SUBSET S PROVE v(s) = u(s)
    <3>1. s # {} => Max(s) \in S /\ s \ {Max(s)} \in SUBSET S
      BY <1>6 DEF Indices
    <3>2. QED
      BY <1>7, <1>10, <3>1
  <2>2. g = [s \in SUBSET S |-> v(s)]
    BY <1>9 DEF Runs
  <2> HIDE DEF u, v
  <2>3. g = [s \in SUBSET S |-> u(s)]
    BY <2>1, <2>2
  <2>4. QED
    BY <2>3 DEF u
<1>12. Solves(h)
  BY <1>11
<1> HIDE DEF h
<1>13. Follows(h, base, step, U, S)
  <2>1. ASSUME NEW s \in SUBSET S
        PROVE  h[s] = IF s = {} THEN base
                      ELSE ChargeOperation(prices, h[s \ {Max(s)}], seq[Max(s)])
    BY <1>12
  <2>2. \A s \in SUBSET S : s # {} => Max(s) \in S
    BY <1>6 DEF Indices
  <2>3. QED
    BY <1>7, <2>1, <2>2 DEF Follows
<1>14. h[S] = RunTo(base, step, n)
  BY <1>4, <1>8, <1>13, FollowersRun DEF S
<1>15. PICK trace : RunTrace(trace, base, step, U, n)
  BY <1>4, <1>8, RunToTrace DEF S
<1>16. ASSUME NEW k \in 1 .. n PROVE trace[k] = ChargeOperation(prices, trace[k - 1], k)
  <2>1. trace[k] = step[<<trace[k - 1], k>>] /\ trace[k - 1] \in U
    BY <1>15 DEF RunTrace
  <2>2. k \in S /\ seq[k] = k
    BY DEF S, seq
  <2>3. QED
    BY <1>7, <2>1, <2>2
<1>17. ChargeTrace(trace, prices, m, b, n)
  BY <1>1, <1>2, <1>5, <1>14, <1>15, <1>16 DEF ChargeTrace, RunTrace
<1>18. QED
  BY <1>17

(* Both loops: every cent of the prices is paid by an advance or left for  *)
(* the account invoice, and every advance loses what it paid.              *)
THEOREM PullOffCovers ==
    ASSUME NEW m \in Nat, NEW b \in [1 .. m -> Nat],
           NEW n \in Nat, NEW prices \in [1 .. n -> Nat]
    PROVE  /\ PullOff(prices, b) \in Pulling(m, b)
           /\ Covered(PullOff(prices, b)) = SumSeq(prices)
<1>1. PICK g : ChargeTrace(g, prices, m, b, n)
  BY PullOffTrace
<1>2. Integers(prices, n)
  BY DEF Integers
<1> DEFINE Good == {k \in 0 .. n : Covered(g[k]) = SumTo(prices, k)}
<1>3. 0 \in Good
  <2>1. g[0] = Start(b)
    BY <1>1 DEF ChargeTrace
  <2>2. SumTo(prices, 0) = 0
    BY <1>2, SumToStep
  <2>3. QED
    BY <2>1, <2>2, StartCoversNothing
<1>4. ASSUME NEW k \in 1 .. n, k - 1 \in Good PROVE k \in Good
  <2>1. PICK j \in 0 .. n : j = k - 1
    OBVIOUS
  <2>2. g[k] = ChargeOperation(prices, g[j], k)
    BY <1>1, <2>1 DEF ChargeTrace
  <2>3. PICK s \in Pulling(m, b) : s = g[j]
    BY <1>1 DEF ChargeTrace
  <2>4. k \in Nat /\ prices[k] \in Nat
    OBVIOUS
  <2>5. Covered(g[k]) = Covered(s) + prices[k]
    <3>1. PICK i, p : i = k /\ p = prices
      OBVIOUS
    <3>2. i \in Nat /\ p[i] \in Nat
      BY <2>4, <3>1
    <3>3. Covered(ChargeOperation(p, s, i)) = Covered(s) + p[i]
      BY <3>2, ChargeOperationStays
    <3>4. QED
      BY <2>2, <2>3, <3>1, <3>3
  <2>6. SumTo(prices, k) = SumTo(prices, j) + prices[k]
    BY <1>2, <2>1, SumToStep
  <2>7. QED
    BY <1>4, <2>1, <2>3, <2>5, <2>6
<1>5. \A k \in 0 .. n : k \in Good
  <2> HIDE DEF Good
  <2>1. QED
    BY <1>3, <1>4, NumberInduction
<1>6. SumSeq(prices) = SumTo(prices, n)
  BY <1>2, SumIsSumTo, SumSeqIsSum
<1>7. n \in 0 .. n
  OBVIOUS
<1>8. QED
  BY <1>1, <1>5, <1>6, <1>7 DEF ChargeTrace

(* The operations of a run in order: each has its place, by the number of  *)
(* those before it.                                                        *)
DatedOperations ==
    \A i \in DOMAIN invoice_operation :
        invoice_operation[i].crdate \in Int /\ invoice_operation[i].price \in Nat

Place(ops, i) == Cardinality({j \in ops : Precedes(j, i)})

LEMMA PrecedesOrders ==
    ASSUME NEW n \in Nat, DOMAIN invoice_operation = 1 .. n, DatedOperations,
           NEW i \in 1 .. n, NEW j \in 1 .. n, NEW k \in 1 .. n
    PROVE  /\ ~Precedes(i, i)
           /\ i # j => Precedes(i, j) \/ Precedes(j, i)
           /\ Precedes(i, j) /\ Precedes(j, k) => Precedes(i, k)
<1>1. PICK x \in Int, y \in Int, z \in Int :
          /\ x = invoice_operation[i].crdate /\ y = invoice_operation[j].crdate
          /\ z = invoice_operation[k].crdate
  BY DEF DatedOperations
<1>2. QED
  BY <1>1 DEF Precedes

LEMMA PlacesIncrease ==
    ASSUME NEW n \in Nat, DOMAIN invoice_operation = 1 .. n, DatedOperations,
           NEW ops, ops \subseteq 1 .. n, NEW i \in ops, NEW j \in ops, Precedes(i, j)
    PROVE  Place(ops, i) < Place(ops, j)
<1>1. PICK A, B : A = {k \in ops : Precedes(k, i)} /\ B = {k \in ops : Precedes(k, j)}
  OBVIOUS
<1>2. IsFiniteSet(ops)
  BY IndexSetsAreFinite
<1>3. B \in SUBSET ops
  BY <1>1
<1>4. IsFiniteSet(B) /\ Cardinality(B) \in Nat
  BY <1>2, <1>3, FS_Subset, FS_CardinalityType
<1>5. A \in SUBSET B
  <2>1. ASSUME NEW k \in A PROVE k \in B
    <3>1. k \in ops /\ k \in 1 .. n /\ i \in 1 .. n /\ j \in 1 .. n /\ Precedes(k, i)
      BY <1>1, <2>1
    <3>2. Precedes(k, j)
      BY <3>1, PrecedesOrders
    <3>3. QED
      BY <1>1, <3>1, <3>2
  <2>2. QED
    BY <2>1
<1>6. i \in B /\ i \notin A
  BY <1>1, PrecedesOrders
<1>7. IsFiniteSet(A) /\ Cardinality(A) \in Nat /\ Cardinality(A) <= Cardinality(B)
      /\ Cardinality(A) # Cardinality(B)
  BY <1>4, <1>5, <1>6, FS_Subset, FS_CardinalityType
<1>8. QED
  BY <1>1, <1>4, <1>7 DEF Place

LEMMA PlacesAreTaken ==
    ASSUME NEW n \in Nat, DOMAIN invoice_operation = 1 .. n, DatedOperations,
           NEW ops, ops \subseteq 1 .. n
    PROVE  /\ Cardinality(ops) \in Nat
           /\ \A k \in 1 .. Cardinality(ops) :
                  InOrder(ops)[k] \in ops /\ Place(ops, InOrder(ops)[k]) = k - 1
           /\ \A i \in ops : Place(ops, i) \in 0 .. Cardinality(ops) - 1
<1>1. IsFiniteSet(ops)
  BY IndexSetsAreFinite
<1>2. PICK c \in Nat : c = Cardinality(ops)
  BY <1>1, FS_CardinalityType
<1>3. ASSUME NEW i \in ops PROVE Place(ops, i) \in 0 .. c - 1
  <2>1. PICK A : A = {k \in ops : Precedes(k, i)}
    OBVIOUS
  <2>2. A \in SUBSET ops /\ i \notin A
    BY <2>1, PrecedesOrders
  <2>3. IsFiniteSet(A) /\ Cardinality(A) \in Nat /\ Cardinality(A) <= c /\ Cardinality(A) # c
    BY <1>1, <1>2, <2>2, FS_Subset, FS_CardinalityType
  <2>4. QED
    BY <2>1, <2>3 DEF Place
<1>4. PICK T : T = 0 .. c - 1
  OBVIOUS
<1>5. IsFiniteSet(T) /\ Cardinality(T) = c
  <2>1. PICK d \in Int : d = c - 1
    OBVIOUS
  <2>2. 0 \in Int /\ IsFiniteSet(0 .. d) /\ Cardinality(0 .. d) = IF 0 > d THEN 0 ELSE d - 0 + 1
    BY FS_Interval
  <2>3. QED
    BY <1>4, <2>1, <2>2
<1>6. PICK f : f = [i \in ops |-> Place(ops, i)]
  OBVIOUS
<1>7. f \in Injection(ops, T)
  <2>1. f \in [ops -> T]
    BY <1>3, <1>4, <1>6
  <2>2. ASSUME NEW i \in ops, NEW j \in ops, i # j PROVE f[i] # f[j]
    <3>1. Precedes(i, j) \/ Precedes(j, i)
      BY <2>2, PrecedesOrders
    <3>2. Place(ops, i) < Place(ops, j) \/ Place(ops, j) < Place(ops, i)
      BY <3>1, PlacesIncrease
    <3>3. Place(ops, i) \in Int /\ Place(ops, j) \in Int
      BY <1>3
    <3>4. QED
      BY <1>6, <3>2, <3>3
  <2>3. QED
    BY <2>1, <2>2 DEF Injection, IsInjective
<1>8. f \in Surjection(ops, T)
  BY <1>2, <1>5, <1>7, FS_Injection
<1>9. ASSUME NEW k \in 1 .. c
      PROVE  InOrder(ops)[k] \in ops /\ Place(ops, InOrder(ops)[k]) = k - 1
  <2>1. k - 1 \in T
    BY <1>4
  <2>2. PICK i \in ops : f[i] = k - 1
    BY <1>8, <2>1 DEF Surjection
  <2>3. Cardinality({j \in ops : Precedes(j, i)}) = k - 1
    BY <1>6, <2>2 DEF Place
  <2>4. InOrder(ops)[k] = CHOOSE l \in ops : Cardinality({j \in ops : Precedes(j, l)}) = k - 1
    BY <1>2 DEF InOrder
  <2>5. QED
    BY <2>3, <2>4 DEF Place
<1>10. QED
  BY <1>2, <1>3, <1>9

LEMMA PricesAreNat ==
    ASSUME NEW n \in Nat, DOMAIN invoice_operation = 1 .. n, DatedOperations,
           NEW ops, ops \subseteq 1 .. n
    PROVE  Cardinality(ops) \in Nat /\ Prices(ops) \in [1 .. Cardinality(ops) -> Nat]
<1>1. Cardinality(ops) \in Nat /\ \A k \in 1 .. Cardinality(ops) : InOrder(ops)[k] \in ops
  BY PlacesAreTaken
<1>2. \A k \in 1 .. Cardinality(ops) : invoice_operation[InOrder(ops)[k]].price \in Nat
  BY <1>1 DEF DatedOperations
<1>3. QED
  BY <1>1, <1>2 DEF Prices

LEMMA YearsAreNat ==
    ASSUME NEW d \in Days
    PROVE  /\ d \in Nat /\ Year(d) \in Nat /\ FirstNumber(Year(d)) \in Nat \ {0}
           /\ \A typ \in Types : Prefix(typ, d) \in NumberSeries
<1>1. YearLength \in Nat \ {0} /\ MaxDay \in Nat
  BY AccountingAssumption
<1>2. d \in Nat
  BY <1>1 DEF Days
<1>3. Year(d) \in Nat
  BY <1>1, <1>2 DEF Year
<1>4. PICK y \in Nat : y = Year(d)
  BY <1>3
<1>5. y % 100 \in Nat
  OBVIOUS
<1>6. FirstNumber(y) \in Nat \ {0}
  BY <1>5 DEF FirstNumber
<1>7. QED
  BY <1>2, <1>3, <1>4, <1>6 DEF Prefix, NumberSeries

LEMMA NewInvoiceIsInvoice ==
    ASSUME TypeOK, NEW r \in Registrars, NEW typ \in Types, NEW taxdate \in Days,
           invoice_prefix[Prefix(typ, taxdate)] # 0, NEW price \in Nat, NEW total \in Nat
    PROVE  NewInvoice(r, typ, taxdate, price, total) \in Invoice
<1>1. Prefix(typ, taxdate) \in NumberSeries
  BY YearsAreNat
<1>2. invoice_prefix[Prefix(typ, taxdate)] \in Nat \ {0}
  BY <1>1 DEF TypeOK
<1>3. QED
  BY <1>2 DEF NewInvoice, Invoice

LEMMA TablesAreNumbered ==
    ASSUME TypeOK
    PROVE  /\ Balances /\ DatedOperations
           /\ Len(invoice) \in Nat /\ DOMAIN invoice = 1 .. Len(invoice)
           /\ Len(invoice_operation) \in Nat
           /\ DOMAIN invoice_operation = 1 .. Len(invoice_operation)
<1>1. \A i \in DOMAIN invoice : invoice[i] \in Invoice
  BY DEF TypeOK
<1>2. Balances
  BY <1>1 DEF Balances, Invoice
<1>3. \A i \in DOMAIN invoice_operation : invoice_operation[i] \in Operation
  BY DEF TypeOK
<1>4. \A d \in Days : d \in Int
  BY YearsAreNat
<1>5. DatedOperations
  BY <1>3, <1>4 DEF DatedOperations, Operation
<1>6. QED
  BY <1>2, <1>5 DEF TypeOK

-----------------------------------------------------------------------------
(* The inductive invariant of the accounts.                                *)
AccountsInv == TypeOK /\ FeeOncePerPeriod /\ PaymentCreditedOnce

LEMMA AccountsInit == Init => AccountsInv
<1> SUFFICES ASSUME Init PROVE AccountsInv
  OBVIOUS
<1>1. MaxDay \in Nat /\ 0 \in Days
  BY AccountingAssumption DEF Days
<1>2. invoice_prefix \in [NumberSeries -> Nat]
  <2>1. FirstNumber(0) \in Nat
    BY DEF FirstNumber
  <2>2. QED
    BY <2>1 DEF Init
<1>3. Unpaid \in [price : Int, credits : Seq(Nat)]
  BY DEF Unpaid
<1>4. TypeOK
  BY <1>1, <1>2, <1>3 DEF Init, TypeOK, NoDate, Days
<1>5. FeeOncePerPeriod
  BY DEF Init, FeeOncePerPeriod
<1>6. PaymentCreditedOnce
  <2>1. SumSeq(<< >>) = 0
    BY SumOfEmpty, SumSeqIsSum
  <2>2. Vat \in Nat
    BY AccountingAssumption
  <2>3. \A u \in Uuids : payment_map[u].credits = << >> /\ payment_map[u].price = 0
    BY DEF Init, Unpaid
  <2>4. WithVat(0) = 0 /\ WithVat(1) = 100 + Vat
    BY <2>2 DEF WithVat
  <2>5. QED
    BY <2>1, <2>2, <2>3, <2>4 DEF PaymentCreditedOnce
<1>7. QED
  BY <1>4, <1>5, <1>6 DEF AccountsInv

LEMMA ChargeKeeps ==
    ASSUME AccountsInv, NEW r \in Registrars, NEW op \in DOMAIN PriceList, NEW quantity \in Nat,
           NEW crdate \in Days, NEW period \in Days,
           op \in Fees => ~AlreadyCharged(r, op, period),
           Charge(r, op, quantity, crdate, period),
           UNCHANGED <<today, access_todate, invoice, invoice_prefix,
                       invoice_generation, credit_payment_map, payment_map, customRuns>>
    PROVE  AccountsInv'
<1>1. PICK price \in Nat : price = PriceList[op].price * quantity
  BY AccountingAssumption
<1>2. op \in EppOperations \cup Fees
  BY AccountingAssumption
<1>3. PICK new : new = [registrar |-> r, operation |-> op, price |-> price,
                        crdate |-> crdate, period |-> period, ac_invoice |-> 0]
  OBVIOUS
<1>4. /\ registrar_credit' = [registrar_credit EXCEPT ![r] = registrar_credit[r] - price]
      /\ invoice_operation' = Append(invoice_operation, new)
  BY <1>1, <1>3 DEF Charge
<1>5. new \in Operation
  BY <1>2, <1>3 DEF Operation
<1>6. invoice_operation' \in Seq(Operation)
  BY <1>4, <1>5 DEF AccountsInv, TypeOK
<1>7. registrar_credit' \in [Registrars -> Int]
  BY <1>4 DEF AccountsInv, TypeOK
<1>8. TypeOK'
  BY <1>6, <1>7 DEF AccountsInv, TypeOK
<1>9. PaymentCreditedOnce'
  BY DEF AccountsInv, PaymentCreditedOnce
<1>10. FeeOncePerPeriod'
  <2>1. PICK n \in Nat : n = Len(invoice_operation) /\ DOMAIN invoice_operation = 1 .. n
    BY TablesAreNumbered DEF AccountsInv
  <2>2. /\ DOMAIN invoice_operation' = 1 .. n + 1
        /\ \A i \in 1 .. n : invoice_operation'[i] = invoice_operation[i]
        /\ invoice_operation'[n + 1] = new
    BY <1>4, <2>1 DEF AccountsInv, TypeOK
  <2>3. op \in Fees => \A i \in 1 .. n : ~(/\ invoice_operation[i].registrar = new.registrar
                                           /\ invoice_operation[i].operation = new.operation
                                           /\ invoice_operation[i].period = new.period)
    BY <1>3, <2>1 DEF AlreadyCharged
  <2>4. new.operation = op
    BY <1>3
  <2>5. QED
    BY <2>1, <2>2, <2>3, <2>4 DEF AccountsInv, FeeOncePerPeriod
<1>11. QED
  BY <1>8, <1>9, <1>10 DEF AccountsInv

(* The credits of a payment: those of the debts, and the deposit.          *)
LEMMA CreditsAreClose ==
    ASSUME NEW price \in Nat, price > 0, NEW s \in PayingDebts(price),
           NEW credits,
           credits = s.credits \o (IF s.rest > 0 THEN <<WithoutVat(s.rest)>> ELSE << >>)
    PROVE  /\ credits \in Seq(Nat) /\ Close(SumSeq(credits), price)
           /\ SumSeq(credits) \in Int
<1>1. /\ s.rest \in Nat /\ s.credits \in Seq(Nat)
      /\ \/ s.rest + WithVat(SumSeq(s.credits)) = 100 * price
         \/ s.rest = 0 /\ Close(SumSeq(s.credits), price)
  BY DEF PayingDebts
<1>2. PICK old \in Seq(Nat), u \in Nat : old = s.credits /\ u = s.rest
  BY <1>1
<1>3. Vat \in Nat
  BY AccountingAssumption
<1>4. PICK sum \in Int : sum = SumSeq(old)
  <2>1. 0 \in Nat
    OBVIOUS
  <2>2. QED
    BY <2>1, SumSeqOfAppend
<1>5. WithVat(sum) \in Int /\ WithVat(1) \in Nat \ {0}
  BY <1>3 DEF WithVat
<1>6. CASE u > 0
  <2>1. PICK w \in Nat : w = WithoutVat(u)
    BY VatTakenOff
  <2>2. credits = Append(old, w)
    <3>1. old \o <<w>> = Append(old, w)
      OBVIOUS
    <3>2. credits = old \o <<w>>
      BY <1>2, <1>6, <2>1
    <3>3. QED
      BY <3>1, <3>2
  <2>3. SumSeq(Append(old, w)) = SumSeq(old) + w
    BY SumSeqOfAppend
  <2>4. WithVat(w) < u + WithVat(1) /\ u < WithVat(w) + WithVat(1)
    BY <2>1, VatTakenOff
  <2>5. WithVat(sum + w) = WithVat(sum) + WithVat(w) /\ WithVat(w) \in Int
    BY <1>3 DEF WithVat
  <2>6. u + WithVat(sum) = 100 * price
    BY <1>1, <1>2, <1>4, <1>6
  <2>7. Close(sum + w, price)
    BY <2>4, <2>6, LastCreditIsClose
  <2>8. Append(old, w) \in Seq(Nat) /\ sum + w \in Int
    OBVIOUS
  <2>9. QED
    BY <1>4, <2>2, <2>3, <2>7, <2>8
<1>7. CASE u = 0
  <2>1. credits = old
    BY <1>2, <1>7
  <2>2. Close(sum, price)
    <3>1. CASE u + WithVat(sum) = 100 * price
      BY <1>5, <1>7, <3>1 DEF Close
    <3>2. CASE Close(SumSeq(old), price)
      BY <1>4, <3>2
    <3>3. QED
      BY <1>1, <1>2, <1>4, <3>1, <3>2
  <2>3. QED
    BY <1>4, <2>1, <2>2
<1>8. QED
  BY <1>6, <1>7

LEMMA PaymentKeeps ==
    ASSUME AccountsInv, NEW uuid \in Uuids, NEW r \in Registrars, NEW price \in PaymentPrices,
           NEW taxdate \in Days, importPayment(uuid, r, price, taxdate)
    PROVE  AccountsInv'
<1>1. price \in Nat /\ price > 0
  BY AccountingAssumption DEF importPayment, InvalidPayment
<1>2. /\ TypeOK /\ Balances /\ Len(invoice) \in Nat /\ DOMAIN invoice = 1 .. Len(invoice)
  BY TablesAreNumbered DEF AccountsInv
<1>3. PICK n \in Nat : n = Len(invoice) /\ DOMAIN invoice = 1 .. n
  BY <1>2
<1>4. PICK s : s = DebtsPaid(r, price)
  OBVIOUS
<1>5. s \in PayingDebts(price)
  BY <1>1, <1>2, <1>3, <1>4, DebtsPaidStays
<1>6. PICK credits : credits = s.credits \o (IF s.rest > 0 THEN <<WithoutVat(s.rest)>> ELSE << >>)
  OBVIOUS
<1>7. credits \in Seq(Nat) /\ Close(SumSeq(credits), price) /\ SumSeq(credits) \in Int
  BY <1>1, <1>5, <1>6, CreditsAreClose
<1>8. PICK p : p = Prefix("deposit", taxdate)
  OBVIOUS
<1>9. PICK last : last = IF s.rest > 0
                         THEN <<NewInvoice(r, "deposit", taxdate, 0, WithoutVat(s.rest))>>
                         ELSE << >>
  OBVIOUS
<1>10. PICK paid : paid = AfterDebts(s.change)
  OBVIOUS
<1>11. /\ ~PaymentAlreadyProcessed(uuid)
       /\ s.rest > 0 => invoice_prefix[p] # 0
       /\ invoice' = paid \o last
       /\ invoice_prefix' = [invoice_prefix EXCEPT ![p] = IF s.rest > 0 THEN invoice_prefix[p] + 1
                                                          ELSE invoice_prefix[p]]
       /\ registrar_credit' = [registrar_credit EXCEPT ![r] = registrar_credit[r] + SumSeq(credits)]
       /\ payment_map' = [payment_map EXCEPT ![uuid] =
              [price |-> price, credits |-> payment_map[uuid].credits \o credits]]
       /\ UNCHANGED <<today, access_todate, invoice_operation, invoice_generation,
                      credit_payment_map, customRuns>>
  BY <1>4, <1>6, <1>8, <1>9, <1>10 DEF importPayment
<1>12. s.rest \in Nat /\ \A i \in DOMAIN invoice : s.change[i] \in Nat /\ s.change[i] <= invoice[i].balance
  BY <1>5 DEF PayingDebts
<1>13. paid \in Seq(Invoice) /\ Len(paid) = n
  <2>1. ASSUME NEW i \in DOMAIN invoice
        PROVE  [invoice[i] EXCEPT !.balance = invoice[i].balance - s.change[i]] \in Invoice
    <3>1. invoice[i] \in Invoice
      BY <1>2 DEF TypeOK
    <3>2. invoice[i].balance \in Nat
      BY <3>1 DEF Invoice
    <3>3. PICK b \in Nat : b = invoice[i].balance - s.change[i]
      BY <1>12, <3>2
    <3>4. [invoice[i] EXCEPT !.balance = b] \in Invoice
      BY <3>1 DEF Invoice
    <3>5. QED
      BY <3>3, <3>4
  <2>2. paid = [i \in 1 .. n |-> [invoice[i] EXCEPT !.balance = invoice[i].balance - s.change[i]]]
    BY <1>3, <1>10 DEF AfterDebts
  <2>3. QED
    BY <1>3, <2>1, <2>2
<1>14. last \in Seq(Invoice)
  <2>1. CASE s.rest > 0
    <3>1. PICK deposit \in Nat : deposit = WithoutVat(s.rest)
      <4>1. PICK u \in Nat : u = s.rest
        BY <1>12
      <4>2. QED
        BY <4>1, VatTakenOff
    <3>2. NewInvoice(r, "deposit", taxdate, 0, deposit) \in Invoice
      <4>1. "deposit" \in Types /\ invoice_prefix[Prefix("deposit", taxdate)] # 0 /\ 0 \in Nat
        BY <1>8, <1>11, <2>1 DEF Types
      <4>2. PICK typ \in Types : typ = "deposit"
        BY <4>1
      <4>3. NewInvoice(r, typ, taxdate, 0, deposit) \in Invoice
        BY <1>2, <4>1, <4>2, NewInvoiceIsInvoice
      <4>4. QED
        BY <4>2, <4>3
    <3>3. QED
      BY <1>9, <2>1, <3>1, <3>2
  <2>2. CASE ~(s.rest > 0)
    BY <1>9, <2>2
  <2>3. QED
    BY <2>1, <2>2
<1>15. invoice' \in Seq(Invoice) /\ DOMAIN invoice \subseteq DOMAIN invoice'
  <2>1. Len(last) \in Nat
    BY <1>14
  <2>2. DOMAIN (paid \o last) = 1 .. n + Len(last)
    BY <1>13, <1>14
  <2>3. QED
    BY <1>3, <1>11, <1>13, <1>14, <2>1, <2>2
<1>16. p \in NumberSeries
  BY <1>8, YearsAreNat DEF Types
<1>17. invoice_prefix' \in [NumberSeries -> Nat]
  BY <1>2, <1>11, <1>16 DEF TypeOK
<1>18. registrar_credit' \in [Registrars -> Int]
  BY <1>2, <1>7, <1>11 DEF TypeOK
<1>19. payment_map[uuid].credits = << >>
  BY <1>11 DEF PaymentAlreadyProcessed
<1>20. payment_map' = [payment_map EXCEPT ![uuid] = [price |-> price, credits |-> credits]]
  <2>1. << >> \o credits = credits
    BY <1>7
  <2>2. QED
    BY <1>11, <1>19, <2>1
<1>21. payment_map' \in [Uuids -> [price : Int, credits : Seq(Nat)]]
  BY <1>1, <1>2, <1>7, <1>20 DEF TypeOK
<1>22. /\ DOMAIN credit_payment_map' \subseteq (DOMAIN invoice') \X (DOMAIN invoice')
       /\ \A q \in DOMAIN credit_payment_map' : credit_payment_map'[q] \in Nat
  BY <1>2, <1>11, <1>15 DEF TypeOK
<1>23. TypeOK'
  BY <1>2, <1>11, <1>15, <1>17, <1>18, <1>21, <1>22 DEF TypeOK
<1>24. FeeOncePerPeriod'
  BY <1>11 DEF AccountsInv, FeeOncePerPeriod
<1>25. PaymentCreditedOnce'
  <2>1. \A u \in Uuids : Close(SumSeq(payment_map[u].credits), payment_map[u].price)
    BY DEF AccountsInv, PaymentCreditedOnce, Close
  <2>2. ASSUME NEW u \in Uuids
        PROVE  Close(SumSeq(payment_map'[u].credits), payment_map'[u].price)
    <3>1. CASE u = uuid
      <4>1. payment_map'[u].credits = credits /\ payment_map'[u].price = price
        BY <1>2, <1>20, <3>1 DEF TypeOK
      <4>2. QED
        BY <1>7, <4>1
    <3>2. CASE u # uuid
      BY <1>2, <1>20, <2>1, <3>2 DEF TypeOK
    <3>3. QED
      BY <3>1, <3>2
  <2>3. QED
    BY <2>2 DEF PaymentCreditedOnce, Close
<1>26. QED
  BY <1>23, <1>24, <1>25 DEF AccountsInv

LEMMA InvoicingKeeps ==
    ASSUME AccountsInv, NEW r \in Registrars, NEW from \in Days \cup {NoDate}, NEW to \in Days,
           NEW taxdate \in Days, createAccountInvoice(r, from, to, taxdate)
    PROVE  AccountsInv'
<1>1. TypeOK /\ Balances /\ DatedOperations
  BY TablesAreNumbered DEF AccountsInv
<1>2. PICK m \in Nat : m = Len(invoice) /\ DOMAIN invoice = 1 .. m
  BY TablesAreNumbered DEF AccountsInv
<1>3. PICK n \in Nat : n = Len(invoice_operation) /\ DOMAIN invoice_operation = 1 .. n
  BY TablesAreNumbered DEF AccountsInv
<1>4. PICK ops : ops = Unaccounted(r, IF from = NoDate THEN DefaultFrom(r) ELSE from, to)
  OBVIOUS
<1>5. ops \subseteq 1 .. n
  BY <1>3, <1>4 DEF Unaccounted
<1>6. PICK c, prices : /\ c = Cardinality(ops) /\ prices = Prices(ops)
                       /\ c \in Nat /\ prices \in [1 .. c -> Nat]
  BY <1>1, <1>3, <1>5, PricesAreNat
<1>7. PICK advances : advances = Advances(r, taxdate) /\ advances \subseteq 1 .. m
  BY <1>2 DEF Advances
<1>8. PICK b \in [1 .. m -> Nat] : b = AdvanceBalances(advances)
  <2>1. \A i \in 1 .. m : invoice[i].balance \in Nat
    BY <1>1, <1>2 DEF Balances
  <2>2. QED
    BY <1>2, <2>1 DEF AdvanceBalances
<1>9. PICK s : s = PullOff(prices, b)
  OBVIOUS
<1>10. s \in Pulling(m, b)
  BY <1>6, <1>9, PullOffCovers
<1>11. /\ \A i \in 1 .. m : s.balance[i] \in Nat /\ s.credit_change[i] \in Nat
       /\ s.price_left \in Nat
  BY <1>10 DEF Pulling
<1>12. PICK sum \in Nat : sum = SumSeq(prices)
  <2>1. Covered(s) = SumSeq(prices)
    BY <1>6, <1>9, PullOffCovers
  <2>2. PICK w : w = s.credit_change
    OBVIOUS
  <2>3. w \in [1 .. m -> Nat]
    BY <1>10, <2>2 DEF Pulling
  <2>4. SumSeq(w) \in Nat
    BY <2>3, SumIsNat
  <2>5. QED
    BY <1>11, <2>1, <2>2, <2>4 DEF Covered
<1>13. PICK p, id : p = Prefix("account", taxdate) /\ id = m + 1
  OBVIOUS
<1>14. PICK new : new = NewInvoice(r, "account", taxdate, sum, s.price_left)
  OBVIOUS
<1>15. PICK paid : paid = [i \in DOMAIN invoice |->
           IF i \in advances THEN [invoice[i] EXCEPT !.balance = s.balance[i]] ELSE invoice[i]]
  OBVIOUS
<1>16. /\ invoice_prefix[p] # 0
       /\ invoice' = paid \o <<new>>
       /\ invoice_prefix' = [invoice_prefix EXCEPT ![p] = invoice_prefix[p] + 1]
       /\ invoice_operation' =
              [i \in DOMAIN invoice_operation |->
                  IF i \in ops THEN [invoice_operation[i] EXCEPT !.ac_invoice = id]
                  ELSE invoice_operation[i]]
       /\ credit_payment_map' = CreditPayments(id, advances, s)
       /\ invoice_generation' = [invoice_generation EXCEPT ![r] = to]
       /\ CountCustomRun(from, to, taxdate)
       /\ UNCHANGED <<today, access_todate, registrar_credit, payment_map>>
  BY <1>2, <1>4, <1>6, <1>7, <1>8, <1>9, <1>12, <1>13, <1>14, <1>15
  DEF createAccountInvoice, InvoicesAfter
<1>17. paid \in Seq(Invoice) /\ Len(paid) = m
  <2>1. ASSUME NEW i \in 1 .. m PROVE paid[i] \in Invoice
    <3>1. invoice[i] \in Invoice
      BY <1>1, <1>2 DEF TypeOK
    <3>2. PICK x \in Nat : x = s.balance[i]
      BY <1>11
    <3>3. [invoice[i] EXCEPT !.balance = x] \in Invoice
      BY <3>1 DEF Invoice
    <3>4. QED
      BY <1>2, <1>15, <3>1, <3>2, <3>3
  <2>2. DOMAIN paid = 1 .. m /\ paid = [i \in 1 .. m |-> paid[i]]
    BY <1>2, <1>15
  <2>3. QED
    BY <2>1, <2>2
<1>18. new \in Invoice
  <2>1. PICK typ \in Types : typ = "account"
    BY DEF Types
  <2>2. invoice_prefix[Prefix(typ, taxdate)] # 0
    BY <1>13, <1>16, <2>1
  <2>3. PICK left \in Nat : left = s.price_left
    BY <1>11
  <2>4. NewInvoice(r, typ, taxdate, sum, left) \in Invoice
    BY <1>1, <2>2, NewInvoiceIsInvoice
  <2>5. QED
    BY <1>14, <2>1, <2>3, <2>4
<1>19. invoice' \in Seq(Invoice) /\ DOMAIN invoice' = 1 .. m + 1
  BY <1>16, <1>17, <1>18
<1>20. p \in NumberSeries
  BY <1>13, YearsAreNat DEF Types
<1>21. invoice_prefix' \in [NumberSeries -> Nat]
  BY <1>1, <1>16, <1>20 DEF TypeOK
<1>22. /\ DOMAIN invoice_operation' = 1 .. n
       /\ \A i \in 1 .. n :
              /\ invoice_operation'[i] \in Operation
              /\ invoice_operation'[i].registrar = invoice_operation[i].registrar
              /\ invoice_operation'[i].operation = invoice_operation[i].operation
              /\ invoice_operation'[i].period = invoice_operation[i].period
  <2>1. ASSUME NEW i \in 1 .. n
        PROVE  LET o == [invoice_operation[i] EXCEPT !.ac_invoice = id]
               IN  /\ o \in Operation
                   /\ o.registrar = invoice_operation[i].registrar
                   /\ o.operation = invoice_operation[i].operation
                   /\ o.period = invoice_operation[i].period
    <3>1. invoice_operation[i] \in Operation
      BY <1>1, <1>3 DEF TypeOK
    <3>2. id \in Nat
      BY <1>13
    <3>3. QED
      BY <3>1, <3>2 DEF Operation
  <2>2. \A i \in 1 .. n : invoice_operation[i] \in Operation
    BY <1>1, <1>3 DEF TypeOK
  <2>3. QED
    BY <1>3, <1>16, <2>1, <2>2
<1>23. invoice_operation' \in Seq(Operation)
  <2>1. invoice_operation' = [i \in 1 .. n |-> invoice_operation'[i]]
    BY <1>3, <1>16
  <2>2. QED
    BY <1>22, <2>1
<1>24. /\ DOMAIN credit_payment_map' \subseteq (DOMAIN invoice') \X (DOMAIN invoice')
       /\ \A q \in DOMAIN credit_payment_map' : credit_payment_map'[q] \in Nat
  <2> DEFINE add == {<<id, i>> : i \in {j \in advances : s.credit_change[j] > 0}}
  <2>1. /\ DOMAIN credit_payment_map' = DOMAIN credit_payment_map \cup add
        /\ \A q \in DOMAIN credit_payment_map' : credit_payment_map'[q] =
               IF q \in add THEN s.credit_change[q[2]] ELSE credit_payment_map[q]
    BY <1>16 DEF CreditPayments
  <2>2. ASSUME NEW q \in add
        PROVE  q \in (DOMAIN invoice') \X (DOMAIN invoice') /\ s.credit_change[q[2]] \in Nat
    <3>1. PICK i \in advances : q = <<id, i>>
      OBVIOUS
    <3>2. i \in 1 .. m /\ i \in 1 .. m + 1 /\ id \in 1 .. m + 1 /\ s.credit_change[i] \in Nat
      BY <1>7, <1>11, <1>13
    <3>3. QED
      BY <1>19, <3>1, <3>2
  <2>3. ASSUME NEW q \in DOMAIN credit_payment_map
        PROVE  q \in (DOMAIN invoice') \X (DOMAIN invoice') /\ credit_payment_map[q] \in Nat
    <3>1. q \in (DOMAIN invoice) \X (DOMAIN invoice) /\ credit_payment_map[q] \in Nat
      BY <1>1 DEF TypeOK
    <3>2. DOMAIN invoice \subseteq DOMAIN invoice'
      BY <1>2, <1>19
    <3>3. QED
      BY <3>1, <3>2
  <2> HIDE DEF add
  <2>4. QED
    BY <2>1, <2>2, <2>3
<1>25. invoice_generation' \in [Registrars -> Days \cup {NoDate}] /\ customRuns' \in Nat
  BY <1>1, <1>16 DEF TypeOK, CountCustomRun
<1>26. TypeOK'
  BY <1>1, <1>16, <1>19, <1>21, <1>23, <1>24, <1>25 DEF TypeOK
<1>27. FeeOncePerPeriod'
  BY <1>3, <1>22 DEF AccountsInv, FeeOncePerPeriod
<1>28. PaymentCreditedOnce'
  BY <1>16 DEF AccountsInv, PaymentCreditedOnce
<1>29. QED
  BY <1>26, <1>27, <1>28 DEF AccountsInv

LEMMA AccountsNext == AccountsInv /\ [Next]_accountVars => AccountsInv'
<1> SUFFICES ASSUME AccountsInv, [Next]_accountVars PROVE AccountsInv'
  OBVIOUS
<1> USE DEF AccountsInv
<1>1. TypeOK /\ today \in Days
  BY DEF TypeOK
<1>2. ASSUME NEW r \in Registrars, NEW op \in EppOperations, NEW quantity \in 1 .. 2,
             domain_bill_item(r, op, quantity)
      PROVE  AccountsInv'
  <2>1. op \in DOMAIN PriceList /\ quantity \in Nat /\ op \notin Fees
    BY <1>2 DEF domain_bill_item, EppOperations, Fees
  <2>2. QED
    BY <1>1, <1>2, <2>1, ChargeKeeps DEF domain_bill_item
<1>3. ASSUME NEW r \in Registrars, NEW period \in Days, NEW crdate \in Days,
             chargeRegistryAccessFee(r, period, crdate)
      PROVE  AccountsInv'
  <2>1. PICK op : op = "MonthlyFee"
    OBVIOUS
  <2>2. /\ op \in DOMAIN PriceList /\ 1 \in Nat /\ ~AlreadyCharged(r, op, period)
        /\ Charge(r, op, 1, crdate, period)
    BY <1>3, <2>1 DEF chargeRegistryAccessFee
  <2>3. QED
    BY <1>3, <2>2, ChargeKeeps DEF chargeRegistryAccessFee
<1>4. ASSUME NEW r \in Registrars, NEW period \in Days, chargeRequestFee(r, period)
      PROVE  AccountsInv'
  <2>1. PICK op : op = "GeneralEppOperation"
    OBVIOUS
  <2>2. /\ op \in DOMAIN PriceList /\ 1 \in Nat /\ ~AlreadyCharged(r, op, period)
        /\ Charge(r, op, 1, period, period)
    BY <1>4, <2>1 DEF chargeRequestFee
  <2>3. QED
    BY <1>4, <2>2, ChargeKeeps DEF chargeRequestFee
<1>5. ASSUME NEW u \in Uuids, NEW r \in Registrars, NEW price \in PaymentPrices, NEW d \in Days,
             importPayment(u, r, price, d)
      PROVE  AccountsInv'
  BY <1>5, PaymentKeeps
<1>6. ASSUME NEW r \in Registrars, NEW from \in Days \cup {NoDate}, NEW to \in Days,
             NEW d \in Days, createAccountInvoice(r, from, to, d) \/ EmptyRun(r, from, to, d)
      PROVE  AccountsInv'
  <2>1. CASE createAccountInvoice(r, from, to, d)
    BY <2>1, InvoicingKeeps
  <2>2. CASE EmptyRun(r, from, to, d)
    <3>1. /\ invoice_generation' = [invoice_generation EXCEPT ![r] = to]
          /\ CountCustomRun(from, to, d)
          /\ UNCHANGED <<today, access_todate, registrar_credit, invoice_operation,
                         invoice, invoice_prefix, credit_payment_map, payment_map>>
      BY <2>2 DEF EmptyRun
    <3>2. invoice_generation' \in [Registrars -> Days \cup {NoDate}] /\ customRuns' \in Nat
      BY <1>1, <3>1 DEF TypeOK, CountCustomRun
    <3>3. QED
      BY <3>1, <3>2 DEF TypeOK, FeeOncePerPeriod, PaymentCreditedOnce
  <2>3. QED
    BY <1>6, <2>1, <2>2
<1>7. ASSUME NEW y \in {Year(d) : d \in Days}, createInvoicePrefixes(y) PROVE AccountsInv'
  <2>1. FirstNumber(y) \in Nat
    BY YearsAreNat
  <2>2. invoice_prefix' \in [NumberSeries -> Nat]
    BY <1>1, <1>7, <2>1 DEF TypeOK, createInvoicePrefixes
  <2>3. UNCHANGED <<today, access_todate, registrar_credit, invoice_operation, invoice,
                    invoice_generation, credit_payment_map, payment_map, customRuns>>
    BY <1>7 DEF createInvoicePrefixes
  <2>4. QED
    BY <2>2, <2>3 DEF TypeOK, FeeOncePerPeriod, PaymentCreditedOnce
<1>8. ASSUME NEW r \in Registrars, EndAccess(r) PROVE AccountsInv'
  BY <1>1, <1>8 DEF EndAccess, TypeOK, FeeOncePerPeriod, PaymentCreditedOnce
<1>9. ASSUME NextDay PROVE AccountsInv'
  <2>1. today' \in Days
    BY <1>1, <1>9, AccountingAssumption DEF NextDay, Days
  <2>2. QED
    BY <1>9, <2>1 DEF NextDay, TypeOK, FeeOncePerPeriod, PaymentCreditedOnce
<1>10. ASSUME UNCHANGED accountVars PROVE AccountsInv'
  BY <1>10 DEF accountVars, TypeOK, FeeOncePerPeriod, PaymentCreditedOnce
<1>11. QED
  BY <1>2, <1>3, <1>4, <1>5, <1>6, <1>7, <1>8, <1>9, <1>10 DEF Next

LEMMA AccountsInvHolds == Spec => []AccountsInv
<1>1. AccountsInv /\ [Next]_accountVars => AccountsInv'
  BY AccountsNext
<1>2. QED
  BY AccountsInit, <1>1, PTL DEF Spec

(* Every table has its type, however charges, payments, billing runs and   *)
(* numbering interleave: no payment and no advance brings the balance of   *)
(* an invoice below zero, with any VAT rate.                               *)
THEOREM AccountTypesHold == Spec => []TypeOK
<1>1. AccountsInv => TypeOK
  BY DEF AccountsInv
<1>2. QED
  BY AccountsInvHolds, <1>1, PTL

(* was_registrar_charged makes the fees of a month unique when charging is *)
(* repeated run after run, for any prices, calendar and number of          *)
(* operations.  (It reads without a lock: of two runs at the same time     *)
(* nothing is said.)                                                       *)
THEOREM FeesAreChargedOnce == Spec => []FeeOncePerPeriod
<1>1. AccountsInv => FeeOncePerPeriod
  BY DEF AccountsInv
<1>2. QED
  BY AccountsInvHolds, <1>1, PTL

(* importPayment credits the price without VAT to less than one cent,      *)
(* however many debts it settles on the way and for any VAT rate.          *)
THEOREM PaymentsAreCreditedOnce == Spec => []PaymentCreditedOnce
<1>1. AccountsInv => PaymentCreditedOnce
  BY DEF AccountsInv
<1>2. QED
  BY AccountsInvHolds, <1>1, PTL

-----------------------------------------------------------------------------
(* The waterfall of create_account_invoice.                                *)
(* Sums over some of the indices of a table.                               *)
At(w, S, i) == IF i \in S THEN w[i] ELSE 0
Part(w, S) == [i \in DOMAIN w |-> IF i \in S THEN w[i] ELSE 0]

LEMMA PartSums ==
    ASSUME NEW n \in Nat, NEW w, Integers(w, n), NEW S
    PROVE  /\ SumOn(w, S) = Sum(Part(w, S)) /\ Integers(Part(w, S), n)
           /\ \A i \in 1 .. n : Part(w, S)[i] = At(w, S, i) /\ At(w, S, i) \in Int
<1>1. SumOn(w, S) = Sum(Part(w, S))
  BY DEF SumOn, Part, SumSeq, Sum
<1>2. QED
  BY <1>1 DEF Part, At, Integers

LEMMA SumOnIsInt ==
    ASSUME NEW n \in Nat, NEW w, Integers(w, n), NEW S
    PROVE  SumOn(w, S) \in Int
<1>1. PICK p : p = Part(w, S)
  OBVIOUS
<1>2. Integers(p, n) /\ SumOn(w, S) = Sum(p)
  BY <1>1, PartSums
<1>3. QED
  BY <1>2, SumIsInt

LEMMA NatsAreIntegers == ASSUME NEW n \in Nat, NEW w \in [1 .. n -> Nat] PROVE Integers(w, n)
  BY DEF Integers

LEMMA SumOnIsNat ==
    ASSUME NEW n \in Nat, NEW w \in [1 .. n -> Nat], NEW S
    PROVE  SumOn(w, S) \in Nat
<1>1. PICK p : p = Part(w, S)
  OBVIOUS
<1>2. p \in [1 .. n -> Nat]
  BY <1>1 DEF Part
<1>3. SumSeq(p) \in Nat
  BY <1>2, SumIsNat
<1>4. QED
  BY <1>1, <1>3, NatsAreIntegers, PartSums, SumSeqIsSum

(* Index by index, w on S is v on A and u on B taken together.             *)
Together(w, S, v, A, u, B, n) == \A i \in 1 .. n : At(w, S, i) = At(v, A, i) + At(u, B, i)

LEMMA SumOnTogether ==
    ASSUME NEW n \in Nat, NEW w, NEW v, NEW u, NEW S, NEW A, NEW B,
           Integers(w, n), Integers(v, n), Integers(u, n), Together(w, S, v, A, u, B, n)
    PROVE  SumOn(w, S) = SumOn(v, A) + SumOn(u, B)
<1>1. PICK x, y, z : x = Part(w, S) /\ y = Part(v, A) /\ z = Part(u, B)
  OBVIOUS
<1>2. /\ Integers(x, n) /\ SumOn(w, S) = Sum(x)
      /\ \A i \in 1 .. n : x[i] = At(w, S, i)
  BY <1>1, PartSums
<1>3. /\ Integers(y, n) /\ SumOn(v, A) = Sum(y)
      /\ \A i \in 1 .. n : y[i] = At(v, A, i) /\ At(v, A, i) \in Int
  BY <1>1, PartSums
<1>4. /\ Integers(z, n) /\ SumOn(u, B) = Sum(z)
      /\ \A i \in 1 .. n : z[i] = At(u, B, i) /\ At(u, B, i) \in Int
  BY <1>1, PartSums
<1>5. Adds(x, y, z, n)
  BY <1>2, <1>3, <1>4 DEF Adds, Together
<1>6. Sum(x) = Sum(y) + Sum(z)
  BY <1>2, <1>3, <1>4, <1>5, SumOfSums
<1>7. QED
  BY <1>2, <1>3, <1>4, <1>6

LEMMA SumOnNothing ==
    ASSUME NEW n \in Nat, NEW w, Integers(w, n), NEW S, \A i \in 1 .. n : At(w, S, i) = 0
    PROVE  SumOn(w, S) = 0
<1>1. Together(w, S, w, S, w, S, n)
  BY DEF Together
<1>2. SumOn(w, S) = SumOn(w, S) + SumOn(w, S) /\ SumOn(w, S) \in Int
  BY <1>1, SumOnTogether, SumOnIsInt
<1>3. PICK x \in Int : x = SumOn(w, S)
  BY <1>2
<1>4. x = x + x
  BY <1>2, <1>3
<1>5. \A y \in Int : y = y + y => y = 0
  OBVIOUS
<1>6. QED
  BY <1>3, <1>4, <1>5

Alike(w, S, v, A, n) == \A i \in 1 .. n : At(w, S, i) = At(v, A, i)

LEMMA SumOnAlike ==
    ASSUME NEW n \in Nat, NEW w, NEW v, NEW S, NEW A,
           Integers(w, n), Integers(v, n), Alike(w, S, v, A, n)
    PROVE  SumOn(w, S) = SumOn(v, A)
<1>1. \A i \in 1 .. n : At(v, {}, i) = 0 /\ At(v, A, i) \in Int
  BY PartSums DEF At
<1>2. Together(w, S, v, A, v, {}, n)
  BY <1>1 DEF Together, Alike
<1>3. PICK B : B = {}
  OBVIOUS
<1>4. SumOn(w, S) = SumOn(v, A) + SumOn(v, B) /\ SumOn(v, A) \in Int
  BY <1>2, <1>3, SumOnTogether, SumOnIsInt
<1>5. SumOn(v, B) = 0
  BY <1>1, <1>3, SumOnNothing
<1>6. QED
  BY <1>4, <1>5

(* The first n indices of both are alike, and v has one more.              *)
LEMMA SumOnAppend ==
    ASSUME NEW n \in Nat, NEW w, NEW v, NEW S, NEW A,
           Integers(w, n), Integers(v, n + 1), Alike(v, S, w, A, n)
    PROVE  SumOn(v, S) = SumOn(w, A) + At(v, S, n + 1)
<1>1. PICK x, y, k : x = Part(v, S) /\ y = Part(w, A) /\ k = n + 1
  OBVIOUS
<1>2. k \in Nat /\ k \in 1 .. k /\ Integers(v, k) /\ \A i \in 1 .. n : i \in 1 .. k
  BY <1>1
<1>3. /\ Integers(x, k) /\ SumOn(v, S) = Sum(x)
      /\ \A i \in 1 .. k : x[i] = At(v, S, i)
  BY <1>1, <1>2, PartSums
<1>4. /\ Integers(y, n) /\ SumOn(w, A) = Sum(y)
      /\ \A i \in 1 .. n : y[i] = At(w, A, i)
  BY <1>1, PartSums
<1>5. \A i \in 1 .. n : x[i] = y[i]
  BY <1>2, <1>3, <1>4 DEF Alike
<1>6. Sum(x) = Sum(y) + x[n + 1]
  BY <1>1, <1>3, <1>4, <1>5, SumOfAppend
<1>7. QED
  BY <1>1, <1>2, <1>3, <1>4, <1>6

LEMMA SumOnAll ==
    ASSUME NEW n \in Nat, NEW w, Integers(w, n), NEW S, 1 .. n \subseteq S
    PROVE  SumOn(w, S) = SumSeq(w)
<1>1. PICK p : p = Part(w, S)
  OBVIOUS
<1>2. /\ SumOn(w, S) = Sum(p) /\ Integers(p, n)
      /\ \A i \in 1 .. n : p[i] = At(w, S, i)
  BY <1>1, PartSums
<1>3. \A i \in 1 .. n : p[i] = w[i]
  BY <1>2 DEF At
<1>4. n \in 0 .. n
  OBVIOUS
<1>5. SumTo(p, n) = SumTo(w, n)
  BY <1>2, <1>3, <1>4, SumToSame
<1>6. Sum(p) = Sum(w)
  BY <1>2, <1>5, SumIsSumTo
<1>7. QED
  BY <1>2, <1>6, SumSeqIsSum

(* Sums of the first values, compared.                                     *)
LEMMA SumToPrefix ==
    ASSUME NEW n \in Nat, NEW w, NEW v, Integers(w, n), Integers(v, n), NEW k \in 0 .. n,
           \A i \in 1 .. k : w[i] = v[i]
    PROVE  SumTo(w, k) = SumTo(v, k)
<1>1. PICK u : u = [i \in 1 .. k |-> w[i]]
  OBVIOUS
<1>2. Integers(u, k) /\ (\A i \in 1 .. k : w[i] = u[i]) /\ (\A i \in 1 .. k : v[i] = u[i])
  BY <1>1 DEF Integers
<1>3. SumTo(w, k) = SumTo(u, k)
  BY <1>2, SumToSame
<1>4. SumTo(v, k) = SumTo(u, k)
  BY <1>2, SumToSame
<1>5. QED
  BY <1>3, <1>4

LEMMA SumToAtMost ==
    ASSUME NEW n \in Nat, NEW w, NEW v, Integers(w, n), Integers(v, n),
           \A i \in 1 .. n : w[i] <= v[i]
    PROVE  \A k \in 0 .. n : SumTo(w, k) <= SumTo(v, k)
<1> DEFINE Good == {k \in 0 .. n : SumTo(w, k) <= SumTo(v, k)}
<1>1. 0 \in Good
  <2>1. SumTo(w, 0) = 0 /\ SumTo(v, 0) = 0
    BY SumToStep
  <2>2. QED
    BY <2>1
<1>2. ASSUME NEW k \in 1 .. n, k - 1 \in Good PROVE k \in Good
  <2>1. SumTo(w, k) = SumTo(w, k - 1) + w[k] /\ SumTo(v, k) = SumTo(v, k - 1) + v[k]
    BY SumToStep
  <2>2. PICK j \in 0 .. n : j = k - 1
    OBVIOUS
  <2>3. PICK x \in Int, y \in Int : x = SumTo(w, j) /\ y = SumTo(v, j) /\ x <= y
    BY <1>2, <2>2, SumToStep
  <2>4. PICK a \in Int, c \in Int : a = w[k] /\ c = v[k] /\ a <= c
    BY DEF Integers
  <2>5. x + a <= y + c
    BY <2>3, <2>4
  <2>6. QED
    BY <2>1, <2>2, <2>3, <2>4, <2>5
<1>3. \A k \in 0 .. n : k \in Good
  <2> HIDE DEF Good
  <2>1. QED
    BY <1>1, <1>2, NumberInduction
<1>4. QED
  BY <1>3

LEMMA SumToGrows ==
    ASSUME NEW n \in Nat, NEW w \in [1 .. n -> Nat], NEW k \in 0 .. n
    PROVE  SumTo(w, k) \in Nat /\ SumTo(w, k) <= SumTo(w, n)
<1>1. Integers(w, n)
  BY NatsAreIntegers
<1>2. PICK u : u = [i \in 1 .. n |-> IF i <= k THEN w[i] ELSE 0]
  OBVIOUS
<1>3. /\ Integers(u, n) /\ u \in [1 .. n -> Nat] /\ \A i \in 1 .. n : u[i] <= w[i]
      /\ \A i \in 1 .. k : w[i] = u[i]
  BY <1>2 DEF Integers
<1>4. SumTo(w, k) = SumTo(u, k)
  BY <1>1, <1>3, SumToPrefix
<1>5. n \in 0 .. n
  OBVIOUS
<1>6. SumTo(u, n) <= SumTo(w, n)
  BY <1>1, <1>3, <1>5, SumToAtMost
<1>7. SumTo(u, n) = SumTo(u, k)
  <2> DEFINE Good == {j \in 0 .. n : j >= k => SumTo(u, j) = SumTo(u, k)}
  <2>1. 0 \in Good
    OBVIOUS
  <2>2. ASSUME NEW j \in 1 .. n, j - 1 \in Good PROVE j \in Good
    <3>1. SumTo(u, j) = SumTo(u, j - 1) + u[j]
      BY <1>3, SumToStep
    <3>2. CASE j - 1 >= k
      <4>1. u[j] = 0
        BY <1>2, <3>2
      <4>2. PICK i \in 0 .. n : i = j - 1
        OBVIOUS
      <4>3. PICK x \in Int : x = SumTo(u, i)
        BY <1>3, SumToStep
      <4>4. SumTo(u, j) = x /\ x = SumTo(u, k)
        BY <2>2, <3>1, <3>2, <4>1, <4>2, <4>3
      <4>5. QED
        BY <4>4
    <3>3. CASE ~(j - 1 >= k)
      BY <3>3
    <3>4. QED
      BY <3>2, <3>3
  <2>3. \A j \in 0 .. n : j \in Good
    <3> HIDE DEF Good
    <3>1. QED
      BY <2>1, <2>2, NumberInduction
  <2>4. QED
    BY <1>5, <2>3
<1>8. SumTo(u, n) \in Nat
  BY <1>3, SumIsNat, SumSeqIsSum, SumIsSumTo
<1>9. QED
  BY <1>4, <1>6, <1>7, <1>8

LEMMA SumToFlat ==
    ASSUME NEW n \in Nat, NEW w, Integers(w, n), NEW k \in 0 .. n,
           \A i \in 1 .. n : i > k => w[i] = 0
    PROVE  SumTo(w, n) = SumTo(w, k)
<1> DEFINE Good == {j \in 0 .. n : j >= k => SumTo(w, j) = SumTo(w, k)}
<1>1. 0 \in Good
  OBVIOUS
<1>2. ASSUME NEW j \in 1 .. n, j - 1 \in Good PROVE j \in Good
  <2>1. SumTo(w, j) = SumTo(w, j - 1) + w[j]
    BY SumToStep
  <2>2. CASE j - 1 >= k
    <3>1. w[j] = 0
      BY <2>2
    <3>2. PICK i \in 0 .. n : i = j - 1
      OBVIOUS
    <3>3. PICK x \in Int : x = SumTo(w, i)
      BY SumToStep
    <3>4. SumTo(w, j) = x /\ x = SumTo(w, k)
      BY <1>2, <2>1, <2>2, <3>1, <3>2, <3>3
    <3>5. QED
      BY <3>4
  <2>3. CASE ~(j - 1 >= k)
    BY <2>3
  <2>4. QED
    BY <2>2, <2>3
<1>3. \A j \in 0 .. n : j \in Good
  <2> HIDE DEF Good
  <2>1. QED
    BY <1>1, <1>2, NumberInduction
<1>4. n \in 0 .. n
  OBVIOUS
<1>5. QED
  BY <1>3, <1>4

LEMMA SumUpToIsSumTo ==
    ASSUME NEW n \in Nat, NEW w \in [1 .. n -> Nat], NEW k \in 0 .. n
    PROVE  SumUpTo(w, k) = SumTo(w, k)
<1>1. PICK u : u = SubSeq(w, 1, k)
  OBVIOUS
<1>2. w \in Seq(Nat) /\ Len(w) = n
  OBVIOUS
<1>3. u = [i \in 1 .. k |-> w[i]]
  BY <1>1, <1>2
<1>4. Integers(w, n) /\ Integers(u, k) /\ \A i \in 1 .. k : w[i] = u[i]
  BY <1>3 DEF Integers
<1>5. SumTo(w, k) = SumTo(u, k)
  BY <1>4, SumToSame
<1>6. SumSeq(u) = SumTo(u, k)
  BY <1>4, SumIsSumTo, SumSeqIsSum
<1>7. QED
  BY <1>1, <1>5, <1>6 DEF SumUpTo

(* What a turn of the inner loop does when it pulls off the amount c.      *)
Pours(s, t, op, i, c) ==
    /\ ~s.broke /\ c <= s.price_to_pull_off /\ c <= s.balance[i]
    /\ c = s.price_to_pull_off \/ c = s.balance[i]
    /\ t.balance = [s.balance EXCEPT ![i] = s.balance[i] - c]
    /\ t.credit_change = [s.credit_change EXCEPT ![i] = s.credit_change[i] + c]
    /\ t.rows = Append(s.rows, Row(op, i, c))
    /\ t.price_left = s.price_left /\ t.price_to_pull_off = s.price_to_pull_off - c
    /\ t.broke <=> c = s.price_to_pull_off

LEMMA PullFromPours ==
    ASSUME NEW m \in Nat, NEW b, NEW s \in Pulling(m, b), NEW op, NEW i \in 1 .. m
    PROVE  \/ PullFrom(op, s, i) = s /\ (s.broke \/ s.balance[i] = 0)
           \/ \E c \in Nat : Pours(s, PullFrom(op, s, i), op, i, c)
<1>1. CASE s.broke \/ s.balance[i] = 0
  BY <1>1 DEF PullFrom
<1>2. CASE ~s.broke /\ s.balance[i] # 0
  <2>1. /\ s.balance \in [1 .. m -> Nat] /\ s.price_to_pull_off \in Nat
    BY DEF Pulling
  <2>2. PICK c \in Nat : /\ c = Smaller(s.price_to_pull_off, s.balance[i])
                         /\ c <= s.price_to_pull_off /\ c <= s.balance[i]
                         /\ c = s.price_to_pull_off \/ c = s.balance[i]
    <3>1. PICK x \in Nat, y \in Nat : x = s.price_to_pull_off /\ y = s.balance[i]
      BY <2>1
    <3>2. /\ Smaller(x, y) \in Nat /\ Smaller(x, y) <= x /\ Smaller(x, y) <= y
          /\ Smaller(x, y) = x \/ Smaller(x, y) = y
      BY DEF Smaller
    <3>3. QED
      BY <3>1, <3>2
  <2>3. PICK t : t = PullFrom(op, s, i)
    OBVIOUS
  <2>4. t = [s EXCEPT !.balance[i] = s.balance[i] - c,
                      !.credit_change[i] = s.credit_change[i] + c,
                      !.price_to_pull_off = s.price_to_pull_off - c,
                      !.rows = Append(s.rows, Row(op, i, c)),
                      !.broke = c = s.price_to_pull_off]
    BY <1>2, <2>2, <2>3 DEF PullFrom
  <2>5. s = [balance |-> s.balance, credit_change |-> s.credit_change, rows |-> s.rows,
             price_left |-> s.price_left, price_to_pull_off |-> s.price_to_pull_off,
             broke |-> s.broke]
    BY DEF Pulling
  <2>6. t = [balance |-> [s.balance EXCEPT ![i] = s.balance[i] - c],
             credit_change |-> [s.credit_change EXCEPT ![i] = s.credit_change[i] + c],
             rows |-> Append(s.rows, Row(op, i, c)),
             price_left |-> s.price_left,
             price_to_pull_off |-> s.price_to_pull_off - c,
             broke |-> c = s.price_to_pull_off]
    BY <2>4, <2>5
  <2>7. Pours(s, t, op, i, c)
    BY <1>2, <2>2, <2>6 DEF Pours
  <2>8. QED
    BY <2>3, <2>7
<1>3. QED
  BY <1>1, <1>2

(* The waterfall so far: an advance is charged only when the older ones    *)
(* are exhausted, the account invoice only when all are.                   *)
Stairs(s, m) ==
    /\ \A i, j \in 1 .. m : i < j /\ s.credit_change[j] > 0 => s.balance[i] = 0
    /\ s.price_left > 0 => \A i \in 1 .. m : s.balance[i] = 0

(* The inner loop has been over the advances 1 .. k.                       *)
Pouring(s, k) ==
    /\ ~s.broke => \A i \in 1 .. k : s.balance[i] = 0
    /\ s.broke => s.price_to_pull_off = 0

LEMMA PullFromKeepsStairs ==
    ASSUME NEW m \in Nat, NEW b, NEW s \in Pulling(m, b), NEW op, NEW k \in 1 .. m,
           Stairs(s, m), NEW j \in 0 .. m, j = k - 1, Pouring(s, j)
    PROVE  Stairs(PullFrom(op, s, k), m) /\ Pouring(PullFrom(op, s, k), k)
<1>1. PICK t : t = PullFrom(op, s, k)
  OBVIOUS
<1>2. CASE t = s /\ (s.broke \/ s.balance[k] = 0)
  <2>1. \A i \in 1 .. k : i \in 1 .. j \/ i = k
    OBVIOUS
  <2>2. Pouring(s, k)
    BY <1>2, <2>1 DEF Pouring
  <2>3. QED
    BY <1>1, <1>2, <2>2
<1>3. CASE \E c \in Nat : Pours(s, t, op, k, c)
  <2>1. PICK c \in Nat : Pours(s, t, op, k, c)
    BY <1>3
  <2>2. s.balance \in [1 .. m -> Nat] /\ s.credit_change \in [1 .. m -> Nat] /\ s.price_to_pull_off \in Nat
        /\ s.price_left \in Nat
    BY DEF Pulling
  <2>3. \A i \in 1 .. j : s.balance[i] = 0
    BY <2>1 DEF Pours, Pouring
  <2>4. /\ \A i \in 1 .. m : t.balance[i] = IF i = k THEN s.balance[i] - c ELSE s.balance[i]
        /\ \A i \in 1 .. m : t.credit_change[i] = IF i = k THEN s.credit_change[i] + c ELSE s.credit_change[i]
        /\ t.price_left = s.price_left /\ t.price_to_pull_off = s.price_to_pull_off - c
    BY <2>1, <2>2 DEF Pours
  <2>5. ASSUME NEW i \in 1 .. m, s.balance[i] = 0 PROVE t.balance[i] = 0
    <3>1. CASE i = k
      <4>1. c <= s.balance[i]
        BY <2>1, <3>1 DEF Pours
      <4>2. c = 0
        BY <2>5, <4>1
      <4>3. QED
        BY <2>4, <2>5, <4>2
    <3>2. CASE i # k
      BY <2>4, <2>5, <3>2
    <3>3. QED
      BY <3>1, <3>2
  <2>6. ASSUME NEW i \in 1 .. m, NEW l \in 1 .. m, i < l, t.credit_change[l] > 0
        PROVE  t.balance[i] = 0
    <3>1. CASE l = k
      <4>1. i \in 1 .. j
        BY <2>6, <3>1
      <4>2. QED
        BY <2>3, <2>5, <4>1
    <3>2. CASE l # k
      <4>1. s.credit_change[l] > 0
        BY <2>4, <2>6, <3>2
      <4>2. s.balance[i] = 0
        BY <2>6, <4>1 DEF Stairs
      <4>3. QED
        BY <2>5, <4>2
    <3>3. QED
      BY <3>1, <3>2
  <2>7. t.price_left > 0 => \A i \in 1 .. m : t.balance[i] = 0
    BY <2>4, <2>5 DEF Stairs
  <2>8. Stairs(t, m)
    BY <2>6, <2>7 DEF Stairs
  <2>9. ~t.broke => \A i \in 1 .. k : t.balance[i] = 0
    <3> SUFFICES ASSUME ~t.broke, NEW i \in 1 .. k PROVE t.balance[i] = 0
      OBVIOUS
    <3>1. c = s.balance[k]
      BY <2>1 DEF Pours
    <3>2. t.balance[k] = 0
      <4>1. t.balance[k] = s.balance[k] - c /\ s.balance[k] \in Nat
        BY <2>2, <2>4
      <4>2. QED
        BY <3>1, <4>1
    <3>3. i # k => i \in 1 .. j
      OBVIOUS
    <3>4. QED
      BY <2>3, <2>5, <3>2, <3>3
  <2>10. t.broke => t.price_to_pull_off = 0
    BY <2>1, <2>2, <2>4 DEF Pours
  <2>11. QED
    BY <1>1, <2>8, <2>9, <2>10 DEF Pouring
<1>4. QED
  BY <1>1, <1>2, <1>3, PullFromPours

(* The rows of an operation, and of an invoice, and what they come to.     *)
RowsOfOperation(rows, op) == {k \in DOMAIN rows : rows[k].operation = op}
RowsOfInvoice(rows, inv) == {k \in DOMAIN rows : rows[k].invoice = inv}
PricesOf(rows) == [k \in DOMAIN rows |-> rows[k].price]
OfOperation(rows, op) == SumOn(PricesOf(rows), RowsOfOperation(rows, op))
OfInvoice(rows, inv) == SumOn(PricesOf(rows), RowsOfInvoice(rows, inv))

LEMMA NoRows == ASSUME NEW x PROVE OfOperation(<< >>, x) = 0 /\ OfInvoice(<< >>, x) = 0
<1>1. PICK w, S, T : /\ w = PricesOf(<< >>) /\ S = RowsOfOperation(<< >>, x)
                     /\ T = RowsOfInvoice(<< >>, x)
  OBVIOUS
<1>2. Integers(w, 0) /\ (\A i \in 1 .. 0 : At(w, S, i) = 0) /\ (\A i \in 1 .. 0 : At(w, T, i) = 0)
  BY <1>1 DEF Integers, PricesOf
<1>3. SumOn(w, S) = 0 /\ SumOn(w, T) = 0
  BY <1>2, SumOnNothing
<1>4. QED
  BY <1>1, <1>3 DEF OfOperation, OfInvoice

LEMMA OneMoreRow ==
    ASSUME NEW rows \in Seq(PulledRow), NEW row \in PulledRow, NEW x
    PROVE  /\ OfOperation(rows, x) \in Int /\ OfInvoice(rows, x) \in Int
           /\ OfOperation(Append(rows, row), x)
                  = OfOperation(rows, x) + (IF row.operation = x THEN row.price ELSE 0)
           /\ OfInvoice(Append(rows, row), x)
                  = OfInvoice(rows, x) + (IF row.invoice = x THEN row.price ELSE 0)
<1>1. PICK n \in Nat : n = Len(rows)
  OBVIOUS
<1>2. PICK more : more = Append(rows, row)
  OBVIOUS
<1>3. /\ DOMAIN rows = 1 .. n /\ DOMAIN more = 1 .. n + 1 /\ more[n + 1] = row
      /\ \A k \in 1 .. n : more[k] = rows[k] /\ rows[k] \in PulledRow
      /\ n + 1 \in 1 .. n + 1 /\ \A k \in 1 .. n + 1 : k \in 1 .. n \/ k = n + 1
      /\ \A k \in 1 .. n : k \in 1 .. n + 1
  BY <1>1, <1>2
<1>4. PICK w, v : w = PricesOf(rows) /\ v = PricesOf(more)
  OBVIOUS
<1>5. Integers(w, n) /\ Integers(v, n + 1)
  BY <1>3, <1>4, SMTT(30) DEF Integers, PricesOf, PulledRow
<1>6. \A k \in 1 .. n : v[k] = w[k]
  BY <1>3, <1>4 DEF PricesOf
<1>7. v[n + 1] = row.price
  BY <1>3, <1>4 DEF PricesOf
<1>8. PICK S, A : S = RowsOfOperation(more, x) /\ A = RowsOfOperation(rows, x)
  OBVIOUS
<1>9. PICK T, B : T = RowsOfInvoice(more, x) /\ B = RowsOfInvoice(rows, x)
  OBVIOUS
<1>10. /\ \A k \in 1 .. n : (k \in S <=> k \in A)
       /\ (n + 1 \in S <=> row.operation = x)
  BY <1>3, <1>8 DEF RowsOfOperation
<1>11. /\ \A k \in 1 .. n : (k \in T <=> k \in B)
       /\ (n + 1 \in T <=> row.invoice = x)
  BY <1>3, <1>9 DEF RowsOfInvoice
<1>12. Alike(v, S, w, A, n)
  BY <1>6, <1>10 DEF Alike, At
<1>13. Alike(v, T, w, B, n)
  BY <1>6, <1>11 DEF Alike, At
<1>14. SumOn(v, S) = SumOn(w, A) + At(v, S, n + 1) /\ SumOn(w, A) \in Int
  BY <1>5, <1>12, SumOnAppend, SumOnIsInt
<1>15. SumOn(v, T) = SumOn(w, B) + At(v, T, n + 1) /\ SumOn(w, B) \in Int
  BY <1>5, <1>13, SumOnAppend, SumOnIsInt
<1>16. At(v, S, n + 1) = IF row.operation = x THEN row.price ELSE 0
  BY <1>7, <1>10 DEF At
<1>17. At(v, T, n + 1) = IF row.invoice = x THEN row.price ELSE 0
  BY <1>7, <1>11 DEF At
<1>18. QED
  BY <1>2, <1>4, <1>8, <1>9, <1>14, <1>15, <1>16, <1>17 DEF OfOperation, OfInvoice

LEMMA RowIsRow ==
    ASSUME NEW op \in Nat, NEW inv \in Nat \cup {AccountInvoice}, NEW c \in Nat
    PROVE  /\ Row(op, inv, c) \in PulledRow /\ Row(op, inv, c).operation = op
           /\ Row(op, inv, c).invoice = inv /\ Row(op, inv, c).price = c
  BY DEF Row, PulledRow

RowAdds(rows, more, op, inv, c) ==
    \A x : /\ OfOperation(rows, x) \in Int /\ OfInvoice(rows, x) \in Int
           /\ OfOperation(more, x) = OfOperation(rows, x) + (IF op = x THEN c ELSE 0)
           /\ OfInvoice(more, x) = OfInvoice(rows, x) + (IF inv = x THEN c ELSE 0)

LEMMA OneRowMore ==
    ASSUME NEW rows \in Seq(PulledRow), NEW op \in Nat, NEW inv \in Nat \cup {AccountInvoice},
           NEW c \in Nat, NEW more, more = Append(rows, Row(op, inv, c))
    PROVE  RowAdds(rows, more, op, inv, c)
<1> SUFFICES ASSUME NEW x
             PROVE  /\ OfOperation(rows, x) \in Int /\ OfInvoice(rows, x) \in Int
                    /\ OfOperation(more, x) = OfOperation(rows, x) + (IF op = x THEN c ELSE 0)
                    /\ OfInvoice(more, x) = OfInvoice(rows, x) + (IF inv = x THEN c ELSE 0)
  BY DEF RowAdds
<1>1. PICK row : row = Row(op, inv, c)
  OBVIOUS
<1>2. row \in PulledRow /\ row.operation = op /\ row.invoice = inv /\ row.price = c
  BY <1>1, RowIsRow
<1>3. /\ OfOperation(rows, x) \in Int /\ OfInvoice(rows, x) \in Int
      /\ OfOperation(Append(rows, row), x)
             = OfOperation(rows, x) + (IF row.operation = x THEN row.price ELSE 0)
      /\ OfInvoice(Append(rows, row), x)
             = OfInvoice(rows, x) + (IF row.invoice = x THEN row.price ELSE 0)
  BY <1>2, OneMoreRow
<1>4. more = Append(rows, row)
  BY <1>1
<1>5. QED
  BY <1>2, <1>3, <1>4

(* Within the inner loop for operation op: the rows account for due[p] of  *)
(* every operation p, what is still to be pulled off excepted; for every   *)
(* advance's credit_change, and for left of the account invoice.           *)
RowsWithin(s, m, op, due, left) ==
    /\ \A p \in Nat : OfOperation(s.rows, p)
                          = due[p] - (IF p = op THEN s.price_to_pull_off ELSE 0)
    /\ \A j \in 1 .. m : OfInvoice(s.rows, j) = s.credit_change[j]
    /\ OfInvoice(s.rows, AccountInvoice) = left

LEMMA PullFromKeepsRows ==
    ASSUME NEW m \in Nat, NEW b, NEW s \in Pulling(m, b), NEW op \in Nat, NEW k \in 1 .. m,
           NEW due \in [Nat -> Nat], NEW left \in Nat, RowsWithin(s, m, op, due, left)
    PROVE  RowsWithin(PullFrom(op, s, k), m, op, due, left)
<1>1. PICK t : t = PullFrom(op, s, k)
  OBVIOUS
<1>2. CASE t = s
  BY <1>1, <1>2
<1>3. CASE \E c \in Nat : Pours(s, t, op, k, c)
  <2>1. PICK c \in Nat : Pours(s, t, op, k, c)
    BY <1>3
  <2>2. /\ s.credit_change \in [1 .. m -> Nat] /\ s.rows \in Seq(PulledRow)
        /\ s.price_to_pull_off \in Nat
    BY DEF Pulling
  <2>3. PICK rows \in Seq(PulledRow) : rows = s.rows
    BY <2>2
  <2>4. PICK inv \in Nat \cup {AccountInvoice} : inv = k
    OBVIOUS
  <2>5. PICK more : more = Append(rows, Row(op, inv, c))
    OBVIOUS
  <2>6. t.rows = more
    BY <2>1, <2>3, <2>4, <2>5 DEF Pours
  <2>7. ASSUME NEW x
        PROVE  /\ OfOperation(rows, x) \in Int /\ OfInvoice(rows, x) \in Int
               /\ OfOperation(more, x) = OfOperation(rows, x) + (IF op = x THEN c ELSE 0)
               /\ OfInvoice(more, x) = OfInvoice(rows, x) + (IF k = x THEN c ELSE 0)
    <3>1. RowAdds(rows, more, op, inv, c)
      BY <2>5, OneRowMore
    <3>2. QED
      BY <2>4, <3>1 DEF RowAdds
  <2>8. PICK q \in Nat : q = s.price_to_pull_off /\ t.price_to_pull_off = q - c
    BY <2>1, <2>2 DEF Pours
  <2>9. ASSUME NEW p \in Nat
        PROVE  OfOperation(t.rows, p) = due[p] - (IF p = op THEN t.price_to_pull_off ELSE 0)
    <3>1. OfOperation(rows, p) = due[p] - (IF p = op THEN q ELSE 0)
      BY <2>3, <2>8 DEF RowsWithin
    <3>2. OfOperation(more, p) = OfOperation(rows, p) + (IF op = p THEN c ELSE 0)
      BY <2>7
    <3>3. PICK x \in Nat, y \in Int : x = due[p] /\ y = OfOperation(rows, p)
      BY <2>7
    <3>4. CASE p = op
      <4>1. y = x - q /\ OfOperation(more, p) = y + c
        BY <3>1, <3>2, <3>3, <3>4
      <4>2. OfOperation(more, p) = x - (q - c)
        BY <4>1
      <4>3. QED
        BY <2>6, <2>8, <3>3, <3>4, <4>2
    <3>5. CASE p # op
      <4>1. y = x - 0 /\ OfOperation(more, p) = y + 0
        BY <3>1, <3>2, <3>3, <3>5
      <4>2. QED
        BY <2>6, <3>3, <3>5, <4>1
    <3>6. QED
      BY <3>4, <3>5
  <2>10. ASSUME NEW j \in 1 .. m PROVE OfInvoice(t.rows, j) = t.credit_change[j]
    <3>1. OfInvoice(more, j) = OfInvoice(rows, j) + (IF k = j THEN c ELSE 0)
      BY <2>7
    <3>2. PICK x \in Nat : x = s.credit_change[j] /\ x = OfInvoice(rows, j)
      BY <2>2, <2>3 DEF RowsWithin
    <3>3. t.credit_change[j] = IF k = j THEN x + c ELSE x
      BY <2>1, <2>2, <3>2, ZenonT(60) DEF Pours
    <3>4. QED
      BY <2>6, <3>1, <3>2, <3>3
  <2>11. OfInvoice(t.rows, AccountInvoice) = left
    <3>1. PICK a : a = AccountInvoice
      OBVIOUS
    <3>2. k # a
      <4>1. a \notin Nat \ {0}
        BY <3>1, AdvanceAssumption
      <4>2. k \in Nat \ {0}
        OBVIOUS
      <4>3. QED
        BY <4>1, <4>2
    <3>3. OfInvoice(more, a) = OfInvoice(rows, a) + (IF k = a THEN c ELSE 0)
          /\ OfInvoice(rows, a) \in Int
      BY <2>7
    <3>4. OfInvoice(rows, a) = left
      BY <2>3, <3>1 DEF RowsWithin
    <3>5. QED
      BY <2>6, <3>1, <3>2, <3>3, <3>4
  <2>12. QED
    BY <1>1, <2>9, <2>10, <2>11 DEF RowsWithin
<1>4. QED
  BY <1>1, <1>2, <1>3, PullFromPours

LEMMA PulledKeeps ==
    ASSUME NEW m \in Nat, NEW b, NEW total, NEW left \in Nat,
           NEW base \in PullingTo(m, b, total, left), NEW op \in Nat, ~base.broke,
           Stairs(base, m), NEW due \in [Nat -> Nat], RowsWithin(base, m, op, due, left)
    PROVE  /\ Stairs(Pulled(op, base, m), m) /\ Pouring(Pulled(op, base, m), m)
           /\ RowsWithin(Pulled(op, base, m), m, op, due, left)
<1>1. PICK U : U = PullingTo(m, b, total, left)
  OBVIOUS
<1>2. PICK g : PullTrace(g, op, base, m, U)
  BY <1>1, PulledTrace
<1> DEFINE Good == {k \in 0 .. m : /\ Stairs(g[k], m) /\ Pouring(g[k], k)
                                   /\ RowsWithin(g[k], m, op, due, left)}
<1>3. 0 \in Good
  <2>1. g[0] = base
    BY <1>2 DEF PullTrace
  <2>2. Pouring(base, 0)
    BY DEF Pouring
  <2>3. QED
    BY <2>1, <2>2
<1>4. ASSUME NEW k \in 1 .. m, k - 1 \in Good PROVE k \in Good
  <2>1. PICK j \in 0 .. m : j = k - 1
    OBVIOUS
  <2>2. g[k] = PullFrom(op, g[j], k) /\ g[j] \in U
    BY <1>2, <2>1 DEF PullTrace
  <2>3. PICK s \in Pulling(m, b) : s = g[j]
    BY <1>1, <2>2 DEF PullingTo
  <2>4. Stairs(s, m) /\ Pouring(s, j) /\ RowsWithin(s, m, op, due, left)
    BY <1>4, <2>1, <2>3
  <2>5. Stairs(PullFrom(op, s, k), m) /\ Pouring(PullFrom(op, s, k), k)
    BY <2>1, <2>4, PullFromKeepsStairs
  <2>6. RowsWithin(PullFrom(op, s, k), m, op, due, left)
    BY <2>4, PullFromKeepsRows
  <2>7. QED
    BY <2>2, <2>3, <2>5, <2>6
<1>5. \A k \in 0 .. m : k \in Good
  <2> HIDE DEF Good
  <2>1. QED
    BY <1>3, <1>4, NumberInduction
<1>6. m \in 0 .. m
  OBVIOUS
<1>7. QED
  BY <1>2, <1>5, <1>6 DEF PullTrace

(* After the operations 1 .. k.                                            *)
Due(prices, k) == [p \in Nat |-> IF p \in 1 .. k THEN prices[p] ELSE 0]

RowsAfter(s, m, prices, k) ==
    /\ \A p \in Nat : OfOperation(s.rows, p) = Due(prices, k)[p]
    /\ \A j \in 1 .. m : OfInvoice(s.rows, j) = s.credit_change[j]
    /\ OfInvoice(s.rows, AccountInvoice) = s.price_left

OneMoreDue(prices, j, k) ==
    \A p \in Nat : Due(prices, j)[p] = Due(prices, k)[p] - (IF p = k THEN prices[k] ELSE 0)

LEMMA DueBefore ==
    ASSUME NEW n \in Nat, NEW prices \in [1 .. n -> Nat], NEW k \in 1 .. n, NEW j \in 0 .. n,
           j = k - 1
    PROVE  OneMoreDue(prices, j, k)
<1> SUFFICES ASSUME NEW p \in Nat
             PROVE  Due(prices, j)[p] = Due(prices, k)[p] - (IF p = k THEN prices[k] ELSE 0)
  BY DEF OneMoreDue
<1>1. /\ Due(prices, j)[p] = IF p \in 1 .. j THEN prices[p] ELSE 0
      /\ Due(prices, k)[p] = IF p \in 1 .. k THEN prices[p] ELSE 0
  BY DEF Due
<1>2. CASE p = k
  <2>1. p \notin 1 .. j /\ p \in 1 .. k /\ prices[p] \in Nat
    BY <1>2
  <2>2. QED
    BY <1>1, <1>2, <2>1
<1>3. CASE p # k /\ p \in 1 .. j
  <2>1. p \in 1 .. k /\ prices[p] \in Nat
    BY <1>3
  <2>2. QED
    BY <1>1, <1>3, <2>1
<1>4. CASE p # k /\ p \notin 1 .. j
  <2>1. p \notin 1 .. k
    BY <1>4
  <2>2. QED
    BY <1>1, <1>4, <2>1
<1>5. QED
  BY <1>2, <1>3, <1>4

LEMMA NothingLeftBehind ==
    ASSUME NEW m, NEW t, Pouring(t, m), NEW x \in Nat, x = t.price_to_pull_off, x > 0
    PROVE  \A i \in 1 .. m : t.balance[i] = 0
<1>1. t.price_to_pull_off # 0
  OBVIOUS
<1>2. QED
  BY <1>1, Zenon DEF Pouring

LEMMA ChargeOperationKeeps ==
    ASSUME NEW m \in Nat, NEW b, NEW s \in Pulling(m, b), NEW n \in Nat,
           NEW prices \in [1 .. n -> Nat], NEW k \in 1 .. n, NEW j \in 0 .. n, j = k - 1,
           Stairs(s, m), RowsAfter(s, m, prices, j)
    PROVE  /\ Stairs(ChargeOperation(prices, s, k), m)
           /\ RowsAfter(ChargeOperation(prices, s, k), m, prices, k)
<1>1. OneMoreDue(prices, j, k)
  BY DueBefore
<1>2. PICK due \in [Nat -> Nat] : due = Due(prices, k)
  <2>1. \A p \in Nat : p \in 1 .. k => p \in 1 .. n
    OBVIOUS
  <2>2. \A p \in Nat : (IF p \in 1 .. k THEN prices[p] ELSE 0) \in Nat
    BY <2>1
  <2>3. Due(prices, k) \in [Nat -> Nat]
    BY <2>2 DEF Due
  <2>4. QED
    BY <2>3
<1>3. PICK price \in Nat : price = prices[k]
  OBVIOUS
<1>4. PICK left \in Nat : left = s.price_left
  BY DEF Pulling
<1>5. PICK base : base = [s EXCEPT !.price_to_pull_off = prices[k], !.broke = FALSE]
  OBVIOUS
<1>6. /\ base \in [balance : [1 .. m -> Nat], credit_change : [1 .. m -> Nat],
                   rows : Seq(PulledRow), price_left : Nat, price_to_pull_off : Nat, broke : BOOLEAN]
      /\ base.balance = s.balance /\ base.credit_change = s.credit_change
      /\ base.price_left = left /\ base.price_to_pull_off = price /\ base.rows = s.rows
      /\ base.broke = FALSE
  BY <1>3, <1>4, <1>5 DEF Pulling
<1>7. PICK total : total = price + SumSeq(s.credit_change)
  OBVIOUS
<1>8. base \in PullingTo(m, b, total, left)
  BY <1>6, <1>7 DEF PullingTo, Pulling
<1>9. Stairs(base, m)
  BY <1>4, <1>6 DEF Stairs
<1>10. RowsWithin(base, m, k, due, left)
  <2>1. ASSUME NEW p \in Nat
        PROVE  OfOperation(base.rows, p) = due[p] - (IF p = k THEN base.price_to_pull_off ELSE 0)
    <3>1. OfOperation(base.rows, p) = Due(prices, j)[p]
      BY <1>6 DEF RowsAfter
    <3>2. Due(prices, j)[p] = Due(prices, k)[p] - (IF p = k THEN prices[k] ELSE 0)
      BY <1>1 DEF OneMoreDue
    <3>3. QED
      BY <1>2, <1>3, <1>6, <3>1, <3>2
  <2>2. QED
    BY <1>4, <1>6, <2>1 DEF RowsWithin, RowsAfter
<1>11. PICK op \in Nat : op = k
  OBVIOUS
<1>12. PICK t : t = Pulled(op, base, m)
  OBVIOUS
<1>13. t \in PullingTo(m, b, total, left)
  BY <1>8, <1>12, PulledStays
<1>14. Stairs(t, m) /\ Pouring(t, m) /\ RowsWithin(t, m, op, due, left)
  BY <1>6, <1>8, <1>9, <1>10, <1>11, <1>12, PulledKeeps
<1>15. PICK r : r = ChargeOperation(prices, s, op)
  OBVIOUS
<1>16. DOMAIN s.balance = 1 .. m
  BY DEF Pulling
<1>17. r = [t EXCEPT !.price_left = t.price_left + t.price_to_pull_off,
                     !.rows = IF t.price_to_pull_off > 0
                              THEN Append(t.rows, Row(op, AccountInvoice, t.price_to_pull_off))
                              ELSE t.rows]
  BY <1>5, <1>11, <1>12, <1>15, <1>16 DEF ChargeOperation, Pulled
<1>18. t \in [balance : [1 .. m -> Nat], credit_change : [1 .. m -> Nat], rows : Seq(PulledRow),
              price_left : Nat, price_to_pull_off : Nat, broke : BOOLEAN] /\ t.price_left = left
  BY <1>13 DEF PullingTo, Pulling
<1>19. PICK x \in Nat : x = t.price_to_pull_off
  BY <1>18
<1>20. /\ r.balance = t.balance /\ r.credit_change = t.credit_change /\ r.price_left = left + x
       /\ r.rows = IF x > 0 THEN Append(t.rows, Row(op, AccountInvoice, x)) ELSE t.rows
  <2>1. t = [balance |-> t.balance, credit_change |-> t.credit_change, rows |-> t.rows,
             price_left |-> t.price_left, price_to_pull_off |-> t.price_to_pull_off,
             broke |-> t.broke]
    BY <1>18
  <2>2. PICK rows : rows = IF x > 0 THEN Append(t.rows, Row(op, AccountInvoice, x)) ELSE t.rows
    OBVIOUS
  <2>3. r = [t EXCEPT !.price_left = left + x, !.rows = rows]
    BY <1>17, <1>18, <1>19, <2>2
  <2>4. r = [balance |-> t.balance, credit_change |-> t.credit_change, rows |-> rows,
             price_left |-> left + x, price_to_pull_off |-> t.price_to_pull_off,
             broke |-> t.broke]
    BY <2>1, <2>3
  <2>5. QED
    BY <2>2, <2>4
<1>21. Stairs(r, m)
  <2>1. ASSUME r.price_left > 0, NEW i \in 1 .. m PROVE r.balance[i] = 0
    <3>1. CASE x > 0
      <4>1. \A l \in 1 .. m : t.balance[l] = 0
        BY <1>14, <1>19, <3>1, NothingLeftBehind
      <4>2. QED
        BY <1>20, <4>1
    <3>2. CASE ~(x > 0)
      <4>1. t.price_left > 0
        BY <1>18, <1>20, <2>1, <3>2
      <4>2. QED
        BY <1>14, <1>20, <4>1 DEF Stairs
    <3>3. QED
      BY <3>1, <3>2
  <2>2. QED
    BY <1>14, <1>20, <2>1 DEF Stairs
<1>22. RowsAfter(r, m, prices, k)
  <2>1. CASE x > 0
    <3>1. PICK inv \in Nat \cup {AccountInvoice} : inv = AccountInvoice
      OBVIOUS
    <3>2. PICK rows \in Seq(PulledRow) : rows = t.rows
      BY <1>18
    <3>3. PICK more : more = Append(rows, Row(op, inv, x))
      OBVIOUS
    <3>4. r.rows = more
      BY <1>20, <2>1, <3>1, <3>2, <3>3
    <3>5. RowAdds(rows, more, op, inv, x)
      BY <3>3, OneRowMore
    <3>6. ASSUME NEW p \in Nat PROVE OfOperation(more, p) = due[p]
      <4>1. OfOperation(rows, p) = due[p] - (IF p = op THEN x ELSE 0)
        BY <1>14, <1>19, <3>2 DEF RowsWithin
      <4>2. /\ OfOperation(more, p) = OfOperation(rows, p) + (IF op = p THEN x ELSE 0)
            /\ OfOperation(rows, p) \in Int
        BY <3>5 DEF RowAdds
      <4>3. PICK y \in Int, d \in Nat : y = OfOperation(rows, p) /\ d = due[p]
        BY <4>2
      <4>4. CASE p = op
        <5>1. y = d - x /\ OfOperation(more, p) = y + x
          BY <4>1, <4>2, <4>3, <4>4
        <5>2. QED
          BY <4>3, <5>1
      <4>5. CASE p # op
        <5>1. y = d - 0 /\ OfOperation(more, p) = y + 0
          BY <4>1, <4>2, <4>3, <4>5
        <5>2. QED
          BY <4>3, <5>1
      <4>6. QED
        BY <4>4, <4>5
    <3>7. ASSUME NEW i \in 1 .. m PROVE OfInvoice(more, i) = t.credit_change[i]
      <4>1. inv # i
        <5>1. inv \notin Nat \ {0}
          BY <3>1, AdvanceAssumption
        <5>2. i \in Nat \ {0}
          OBVIOUS
        <5>3. QED
          BY <5>1, <5>2
      <4>2. /\ OfInvoice(more, i) = OfInvoice(rows, i) + (IF inv = i THEN x ELSE 0)
            /\ OfInvoice(rows, i) \in Int
        BY <3>5 DEF RowAdds
      <4>3. OfInvoice(more, i) = OfInvoice(rows, i)
        BY <4>1, <4>2
      <4>4. QED
        BY <1>14, <3>2, <4>3 DEF RowsWithin
    <3>8. OfInvoice(more, AccountInvoice) = left + x
      <4>1. OfInvoice(more, inv) = OfInvoice(rows, inv) + (IF inv = inv THEN x ELSE 0)
        BY <3>5 DEF RowAdds
      <4>2. OfInvoice(rows, inv) = left
        BY <1>14, <3>1, <3>2 DEF RowsWithin
      <4>3. QED
        BY <3>1, <4>1, <4>2
    <3>9. QED
      BY <1>2, <1>20, <3>4, <3>6, <3>7, <3>8 DEF RowsAfter
  <2>2. CASE ~(x > 0)
    <3>1. x = 0 /\ r.rows = t.rows /\ r.price_left = left
      BY <1>20, <2>2
    <3>2. ASSUME NEW p \in Nat PROVE OfOperation(r.rows, p) = due[p]
      <4>1. OfOperation(t.rows, p) = due[p] - (IF p = op THEN x ELSE 0)
        BY <1>14, <1>19 DEF RowsWithin
      <4>2. PICK d \in Nat : d = due[p]
        OBVIOUS
      <4>3. QED
        BY <3>1, <4>1, <4>2
    <3>3. QED
      BY <1>2, <1>14, <1>20, <3>1, <3>2 DEF RowsAfter, RowsWithin
  <2>3. QED
    BY <2>1, <2>2
<1>23. QED
  BY <1>11, <1>15, <1>21, <1>22

LEMMA PullOffKeeps ==
    ASSUME NEW m \in Nat, NEW b \in [1 .. m -> Nat],
           NEW n \in Nat, NEW prices \in [1 .. n -> Nat]
    PROVE  Stairs(PullOff(prices, b), m) /\ RowsAfter(PullOff(prices, b), m, prices, n)
<1>1. PICK g : ChargeTrace(g, prices, m, b, n)
  BY PullOffTrace
<1> DEFINE Good == {k \in 0 .. n : Stairs(g[k], m) /\ RowsAfter(g[k], m, prices, k)}
<1>2. 0 \in Good
  <2>1. PICK base : base = Start(b)
    OBVIOUS
  <2>2. base = [balance |-> b, credit_change |-> [i \in 1 .. m |-> 0], rows |-> << >>,
                price_left |-> 0, price_to_pull_off |-> 0, broke |-> FALSE]
    BY <2>1 DEF Start
  <2>3. /\ base.rows = << >> /\ base.price_left = 0
        /\ \A i \in 1 .. m : base.credit_change[i] = 0
    BY <2>2
  <2>4. Stairs(base, m)
    BY <2>3 DEF Stairs
  <2>5. \A p \in Nat : Due(prices, 0)[p] = 0
    BY DEF Due
  <2>6. RowsAfter(base, m, prices, 0)
    BY <2>3, <2>5, NoRows DEF RowsAfter
  <2>7. g[0] = base
    BY <1>1, <2>1 DEF ChargeTrace
  <2>8. QED
    BY <2>4, <2>6, <2>7
<1>3. ASSUME NEW k \in 1 .. n, k - 1 \in Good PROVE k \in Good
  <2>1. PICK j \in 0 .. n : j = k - 1
    OBVIOUS
  <2>2. g[k] = ChargeOperation(prices, g[j], k)
    BY <1>1, <2>1 DEF ChargeTrace
  <2>3. PICK s \in Pulling(m, b) : s = g[j]
    BY <1>1 DEF ChargeTrace
  <2>4. Stairs(s, m) /\ RowsAfter(s, m, prices, j)
    BY <1>3, <2>1, <2>3
  <2>5. /\ Stairs(ChargeOperation(prices, s, k), m)
        /\ RowsAfter(ChargeOperation(prices, s, k), m, prices, k)
    BY <2>1, <2>4, ChargeOperationKeeps
  <2>6. QED
    BY <2>2, <2>3, <2>5
<1>4. \A k \in 0 .. n : k \in Good
  <2> HIDE DEF Good
  <2>1. QED
    BY <1>2, <1>3, NumberInduction
<1>5. n \in 0 .. n
  OBVIOUS
<1>6. QED
  BY <1>1, <1>4, <1>5 DEF ChargeTrace

(* Stairs that cover the sum of the prices are the waterfall.              *)
LEMMA StairsAreWaterfall ==
    ASSUME NEW m \in Nat, NEW b \in [1 .. m -> Nat], NEW prices,
           NEW s \in Pulling(m, b), Stairs(s, m), Covered(s) = SumSeq(prices)
    PROVE  IsWaterfall(prices, b, s)
<1>1. PICK a, c : a = s.balance /\ c = s.credit_change
  OBVIOUS
<1>2. PICK left \in Nat : left = s.price_left
  BY DEF Pulling
<1>3. /\ a \in [1 .. m -> Nat] /\ c \in [1 .. m -> Nat]
      /\ \A i \in 1 .. m : a[i] + c[i] = b[i]
  BY <1>1 DEF Pulling
<1>4. /\ \A i, j \in 1 .. m : i < j /\ c[j] > 0 => a[i] = 0
      /\ left > 0 => \A i \in 1 .. m : a[i] = 0
  BY <1>1, <1>2 DEF Stairs
<1>5. Integers(b, m) /\ Integers(c, m)
  BY <1>3, NatsAreIntegers
<1>6. m \in 0 .. m
  OBVIOUS
<1>7. PICK sum \in Nat : sum = SumTo(c, m) /\ sum = SumSeq(c)
  BY <1>3, <1>5, SumIsNat, SumSeqIsSum, SumIsSumTo
<1>8. PICK total \in Nat : total = left + sum /\ total = SumSeq(prices)
  BY <1>1, <1>2, <1>7 DEF Covered
<1>9. \A k \in 0 .. m : SumTo(c, k) <= SumTo(b, k)
  <2>1. \A i \in 1 .. m : c[i] <= b[i]
    <3> SUFFICES ASSUME NEW i \in 1 .. m PROVE c[i] <= b[i]
      OBVIOUS
    <3>1. a[i] + c[i] = b[i] /\ a[i] \in Nat /\ c[i] \in Nat
      BY <1>3
    <3>2. QED
      BY <3>1
  <2>2. QED
    BY <1>5, <2>1, SumToAtMost
<1>10. \A k \in 0 .. m : SumTo(b, k) \in Nat /\ SumTo(c, k) \in Nat /\ SumTo(c, k) <= sum
  BY <1>3, <1>7, SumToGrows
<1>11. ASSUME NEW i \in 1 .. m
       PROVE  c[i] = Smaller(b[i], Monus(total, SumTo(b, i - 1)))
  <2>1. PICK j \in 0 .. m : j = i - 1
    OBVIOUS
  <2>2. PICK x \in Nat, y \in Nat, bi \in Nat, ci \in Nat, ai \in Nat :
            /\ x = SumTo(b, j) /\ y = SumTo(c, j) /\ bi = b[i] /\ ci = c[i] /\ ai = a[i]
            /\ ai + ci = bi /\ y <= x
    BY <1>3, <1>9, <1>10
  <2>3. PICK z \in Nat : z = SumTo(c, i) /\ z = y + ci /\ z <= sum
    <3>1. i \in 0 .. m
      OBVIOUS
    <3>2. SumTo(c, i) = SumTo(c, i - 1) + c[i]
      BY <1>5, SumToStep
    <3>3. SumTo(c, i) \in Nat /\ SumTo(c, i) <= sum
      BY <1>10, <3>1
    <3>4. QED
      BY <2>1, <2>2, <3>2, <3>3
  <2>4. CASE \A l \in 1 .. j : a[l] = 0
    <3>1. \A l \in 1 .. j : c[l] = b[l]
      <4> SUFFICES ASSUME NEW l \in 1 .. j PROVE c[l] = b[l]
        OBVIOUS
      <4>1. l \in 1 .. m
        BY <2>1
      <4>2. a[l] = 0 /\ a[l] + c[l] = b[l] /\ c[l] \in Nat
        BY <1>3, <2>4, <4>1
      <4>3. QED
        BY <4>2
    <3>2. y = x
      BY <1>5, <2>2, <3>1, SumToPrefix, SMTT(30)
    <3>3. CASE ai = 0
      <4>1. bi = ci /\ bi + x <= total
        BY <1>8, <2>2, <2>3, <3>2, <3>3, SMTT(30)
      <4>2. ci = Smaller(bi, Monus(total, x))
        BY <4>1 DEF Smaller, Monus
      <4>3. QED
        BY <2>1, <2>2, <4>2
    <3>4. CASE ai # 0
      <4>1. \A l \in 1 .. m : l > i => c[l] = 0
        <5> SUFFICES ASSUME NEW l \in 1 .. m, l > i PROVE c[l] = 0
          OBVIOUS
        <5>1. ~(c[l] > 0) /\ c[l] \in Nat
          BY <1>3, <1>4, <2>2, <3>4
        <5>2. QED
          BY <5>1
      <4>2. left = 0
        BY <1>4, <2>2, <3>4
      <4>3. i \in 0 .. m
        OBVIOUS
      <4>4. sum = z
        <5>1. SumTo(c, m) = SumTo(c, i)
          BY <1>5, <4>1, <4>3, SumToFlat
        <5>2. QED
          BY <1>7, <2>3, <5>1
      <4>5. total = x + ci /\ ci <= bi
        <5>1. total = left + sum /\ z = y + ci /\ ai + ci = bi
          BY <1>8, <2>2, <2>3
        <5>2. QED
          BY <3>2, <4>2, <4>4, <5>1
      <4>6. ci = Smaller(bi, Monus(total, x))
        BY <4>5 DEF Smaller, Monus
      <4>7. QED
        BY <2>1, <2>2, <4>6
    <3>5. QED
      BY <3>3, <3>4
  <2>5. CASE \E l \in 1 .. j : a[l] # 0
    <3>1. PICK l \in 1 .. j : a[l] # 0
      BY <2>5
    <3>2. l \in 1 .. m /\ l < i
      BY <2>1
    <3>3. \A h \in 1 .. m : h > j => c[h] = 0
      <4> SUFFICES ASSUME NEW h \in 1 .. m, h > j PROVE c[h] = 0
        OBVIOUS
      <4>1. l < h
        OBVIOUS
      <4>2. ~(c[h] > 0) /\ c[h] \in Nat
        BY <1>3, <1>4, <3>1, <3>2, <4>1
      <4>3. QED
        BY <4>2
    <3>4. left = 0
      BY <1>4, <3>1, <3>2
    <3>5. sum = y
      BY <1>5, <1>7, <2>2, <3>3, SumToFlat
    <3>6. ci = 0
      <4>1. i > j
        BY <2>1
      <4>2. QED
        BY <2>2, <3>3, <4>1
    <3>7. total <= x
      BY <1>8, <2>2, <3>4, <3>5
    <3>8. ci = Smaller(bi, Monus(total, x))
      BY <3>6, <3>7 DEF Smaller, Monus
    <3>9. QED
      BY <2>1, <2>2, <3>8
  <2>6. QED
    BY <2>4, <2>5
<1>12. left = Monus(total, SumTo(b, m))
  <2>1. PICK x \in Nat : x = SumTo(b, m) /\ sum <= x
    BY <1>6, <1>7, <1>9, <1>10
  <2>2. CASE left > 0
    <3>1. \A i \in 1 .. m : c[i] = b[i]
      <4> SUFFICES ASSUME NEW i \in 1 .. m PROVE c[i] = b[i]
        OBVIOUS
      <4>1. a[i] = 0 /\ a[i] + c[i] = b[i] /\ c[i] \in Nat
        BY <1>3, <1>4, <2>2
      <4>2. QED
        BY <4>1
    <3>2. sum = x
      <4>1. SumTo(c, m) = SumTo(b, m)
        BY <1>5, <1>6, <3>1, SumToPrefix
      <4>2. QED
        BY <1>7, <2>1, <4>1
    <3>3. left = Monus(total, x)
      BY <1>8, <2>2, <3>2 DEF Monus
    <3>4. QED
      BY <2>1, <3>3
  <2>3. CASE left = 0
    <3>1. left = Monus(total, x)
      BY <1>8, <2>1, <2>3 DEF Monus
    <3>2. QED
      BY <2>1, <3>1
  <2>4. QED
    BY <2>2, <2>3
<1>13. ASSUME NEW i \in 1 .. m PROVE SumUpTo(b, i - 1) = SumTo(b, i - 1)
  <2>1. PICK j \in 0 .. m : j = i - 1
    OBVIOUS
  <2>2. SumUpTo(b, j) = SumTo(b, j)
    BY SumUpToIsSumTo
  <2>3. QED
    BY <2>1, <2>2
<1>14. SumSeq(b) = SumTo(b, m)
  BY <1>5, SumSeqIsSum, SumIsSumTo
<1>15. ASSUME NEW i \in 1 .. m PROVE a[i] = b[i] - c[i]
  <2>1. a[i] + c[i] = b[i] /\ a[i] \in Nat /\ c[i] \in Nat
    BY <1>3
  <2>2. QED
    BY <2>1
<1>16. \A i \in 1 .. m : /\ c[i] = Smaller(b[i], Monus(SumSeq(prices), SumUpTo(b, i - 1)))
                        /\ a[i] = b[i] - c[i]
  BY <1>8, <1>11, <1>13, <1>15
<1>17. left = Monus(SumSeq(prices), SumSeq(b))
  BY <1>8, <1>12, <1>14
<1>18. DOMAIN b = 1 .. m
  OBVIOUS
<1>19. QED
  BY <1>1, <1>2, <1>16, <1>17, <1>18 DEF IsWaterfall

(* The loops of create_account_invoice compute the waterfall, whatever the *)
(* prices of the operations and the balances of the advances are.          *)
THEOREM LoopsAreWaterfall ==
    ASSUME NEW m \in Nat, NEW b \in [1 .. m -> Nat],
           NEW n \in Nat, NEW prices \in [1 .. n -> Nat]
    PROVE  PaidByWaterfall(prices, b)
<1>1. PICK s : s = PullOff(prices, b)
  OBVIOUS
<1>2. s \in Pulling(m, b) /\ Covered(s) = SumSeq(prices)
  BY <1>1, PullOffCovers
<1>3. Stairs(s, m) /\ RowsAfter(s, m, prices, n)
  BY <1>1, PullOffKeeps
<1>4. IsWaterfall(prices, b, s)
  BY <1>2, <1>3, StairsAreWaterfall
<1>5. RowsAddUp(prices, b, s)
  <2>1. RowPrices(s) = PricesOf(s.rows)
    BY DEF RowPrices, PricesOf
  <2>2. ASSUME NEW op \in 1 .. n
        PROVE  SumOn(RowPrices(s), {k \in DOMAIN s.rows : s.rows[k].operation = op}) = prices[op]
    <3>1. OfOperation(s.rows, op) = Due(prices, n)[op]
      BY <1>3 DEF RowsAfter
    <3>2. Due(prices, n)[op] = prices[op]
      BY DEF Due
    <3>3. QED
      BY <2>1, <3>1, <3>2 DEF OfOperation, RowsOfOperation
  <2>3. ASSUME NEW i \in 1 .. m
        PROVE  SumOn(RowPrices(s), {k \in DOMAIN s.rows : s.rows[k].invoice = i})
                   = s.credit_change[i]
    BY <1>3, <2>1 DEF RowsAfter, OfInvoice, RowsOfInvoice
  <2>4. SumOn(RowPrices(s), {k \in DOMAIN s.rows : s.rows[k].invoice = AccountInvoice})
            = s.price_left
    BY <1>3, <2>1 DEF RowsAfter, OfInvoice, RowsOfInvoice
  <2>5. DOMAIN prices = 1 .. n /\ DOMAIN b = 1 .. m
    OBVIOUS
  <2>6. QED
    BY <2>2, <2>3, <2>4, <2>5 DEF RowsAddUp
<1>6. QED
  BY <1>1, <1>4, <1>5 DEF PaidByWaterfall

(* In particular on the inputs TLC enumerates.                             *)
THEOREM WaterfallOnInputs == LoopsComputeWaterfall
<1> SUFFICES ASSUME NEW prices \in BoundedSeq(0 .. MaxPrice, MaxInputOps),
                    NEW balances \in BoundedSeq(0 .. MaxBalance, MaxInputAdvances)
             PROVE  PaidByWaterfall(prices, balances)
  BY DEF LoopsComputeWaterfall
<1>1. {MaxPrice, MaxBalance, MaxInputOps, MaxInputAdvances} \subseteq Nat
  BY AccountingAssumption
<1>2. PICK n \in Nat : prices \in [1 .. n -> Nat]
  <2>1. PICK n \in 0 .. MaxInputOps : prices \in [1 .. n -> 0 .. MaxPrice]
    BY DEF BoundedSeq, SeqOf
  <2>2. n \in Nat /\ prices \in [1 .. n -> Nat]
    BY <1>1, <2>1
  <2>3. QED
    BY <2>2
<1>3. PICK m \in Nat : balances \in [1 .. m -> Nat]
  <2>1. PICK m \in 0 .. MaxInputAdvances : balances \in [1 .. m -> 0 .. MaxBalance]
    BY DEF BoundedSeq, SeqOf
  <2>2. m \in Nat /\ balances \in [1 .. m -> Nat]
    BY <1>1, <2>1
  <2>3. QED
    BY <2>2
<1>4. QED
  BY <1>2, <1>3, LoopsAreWaterfall

-----------------------------------------------------------------------------
(* The books of all registrars.                                            *)
LEMMA SumOnOneMore ==
    ASSUME NEW n \in Nat, NEW w, Integers(w, n), NEW S, NEW j \in 1 .. n, j \notin S,
           NEW T, \A i \in 1 .. n : i \in T <=> i \in S \/ i = j
    PROVE  SumOn(w, T) = SumOn(w, S) + w[j]
<1>1. PICK x, y, c : x = Part(w, T) /\ y = Part(w, S) /\ c = w[j] /\ c \in Int
  BY DEF Integers
<1>2. /\ Integers(x, n) /\ SumOn(w, T) = Sum(x)
      /\ \A i \in 1 .. n : x[i] = At(w, T, i)
  BY <1>1, PartSums
<1>3. /\ Integers(y, n) /\ SumOn(w, S) = Sum(y)
      /\ \A i \in 1 .. n : y[i] = At(w, S, i) /\ y[i] \in Int
  BY <1>1, PartSums
<1>4. Differ(x, y, n, j, c)
  <2> SUFFICES ASSUME NEW i \in 1 .. n PROVE x[i] = y[i] + (IF i = j THEN c ELSE 0)
    BY DEF Differ
  <2>1. CASE i = j
    <3>1. x[i] = c /\ y[i] = 0
      BY <1>1, <1>2, <1>3, <2>1 DEF At
    <3>2. QED
      BY <1>1, <2>1, <3>1
  <2>2. CASE i # j
    <3>1. x[i] = y[i] /\ y[i] \in Int
      BY <1>2, <1>3, <2>2 DEF At
    <3>2. QED
      BY <2>2, <3>1
  <2>3. QED
    BY <2>1, <2>2
<1>5. Sum(x) = Sum(y) + c
  BY <1>1, <1>2, <1>3, <1>4, SumOfPoint
<1>6. QED
  BY <1>1, <1>2, <1>3, <1>5

(* The tables, as values: balances and prices, and the rows of a registrar. *)
Bal(I) == [i \in DOMAIN I |-> I[i].balance]
Of(I, x, typ) == {i \in DOMAIN I : I[i].registrar = x /\ I[i].typ = typ}
Held(I, x, typ) == SumOn(Bal(I), Of(I, x, typ))

LEMMA BalancesAreNat ==
    ASSUME NEW n \in Nat, NEW I \in [1 .. n -> Invoice]
    PROVE  Bal(I) \in [1 .. n -> Nat] /\ Integers(Bal(I), n)
<1>1. \A i \in 1 .. n : I[i].balance \in Nat
  BY DEF Invoice
<1>2. Bal(I) \in [1 .. n -> Nat]
  BY <1>1 DEF Bal
<1>3. QED
  BY <1>2, NatsAreIntegers

(* P is I with the balances lowered by d.                                  *)
Lowered(I, P, d, n) ==
    \A i \in 1 .. n :
        /\ P[i].registrar = I[i].registrar /\ P[i].typ = I[i].typ
        /\ P[i].taxdate = I[i].taxdate /\ P[i].prefix = I[i].prefix
        /\ P[i].operations_price = I[i].operations_price /\ P[i].total = I[i].total
        /\ P[i].balance + d[i] = I[i].balance

HoldsLess(I, P, d) ==
    \A x, typ : Held(I, x, typ) = Held(P, x, typ) + SumOn(d, Of(I, x, typ))

LEMMA LoweredHolds ==
    ASSUME NEW n \in Nat, NEW I \in [1 .. n -> Invoice], NEW P \in [1 .. n -> Invoice],
           NEW d \in [1 .. n -> Nat], Lowered(I, P, d, n)
    PROVE  HoldsLess(I, P, d)
<1> SUFFICES ASSUME NEW x, NEW typ
             PROVE  Held(I, x, typ) = Held(P, x, typ) + SumOn(d, Of(I, x, typ))
  BY DEF HoldsLess
<1>1. PICK u, v, S : u = Bal(I) /\ v = Bal(P) /\ S = Of(I, x, typ)
  OBVIOUS
<1>2. Of(P, x, typ) = S
  BY <1>1 DEF Of, Lowered
<1>3. Integers(u, n) /\ Integers(v, n) /\ Integers(d, n)
  BY <1>1, BalancesAreNat, NatsAreIntegers
<1>4. \A i \in 1 .. n : u[i] = v[i] + d[i]
  BY <1>1 DEF Bal, Lowered
<1>5. Together(u, S, v, S, d, S, n)
  BY <1>4 DEF Together, At
<1>6. SumOn(u, S) = SumOn(v, S) + SumOn(d, S)
  BY <1>3, <1>5, SumOnTogether
<1>7. QED
  BY <1>1, <1>2, <1>6 DEF Held

(* One row more.                                                           *)
LongerBy(I, J, new, n) ==
    /\ DOMAIN J = 1 .. n + 1 /\ J[n + 1] = new
    /\ \A i \in 1 .. n : J[i] = I[i]

LEMMA LongerHolds ==
    ASSUME NEW n \in Nat, NEW I \in [1 .. n -> Invoice], NEW new \in Invoice,
           NEW J, LongerBy(I, J, new, n), NEW x, NEW typ
    PROVE  Held(J, x, typ) = Held(I, x, typ)
               + (IF new.registrar = x /\ new.typ = typ THEN new.balance ELSE 0)
<1>1. PICK u, v, S, T : u = Bal(I) /\ v = Bal(J) /\ S = Of(I, x, typ) /\ T = Of(J, x, typ)
  OBVIOUS
<1>2. new.balance \in Nat
  BY DEF Invoice
<1>3. Integers(u, n) /\ \A i \in 1 .. n : u[i] = I[i].balance
  BY <1>1, BalancesAreNat DEF Bal
<1>4. /\ n + 1 \in 1 .. n + 1 /\ (\A i \in 1 .. n : i \in 1 .. n + 1)
      /\ \A i \in 1 .. n + 1 : i \in 1 .. n \/ i = n + 1
  OBVIOUS
<1>5. /\ DOMAIN v = 1 .. n + 1 /\ (\A i \in 1 .. n : v[i] = u[i]) /\ v[n + 1] = new.balance
  BY <1>1, <1>3, <1>4 DEF Bal, LongerBy
<1>6. Integers(v, n + 1)
  BY <1>2, <1>3, <1>4, <1>5 DEF Integers
<1>7. /\ \A i \in 1 .. n : i \in T <=> i \in S
      /\ n + 1 \in T <=> new.registrar = x /\ new.typ = typ
  BY <1>1, <1>4 DEF Of, LongerBy
<1>8. Alike(v, T, u, S, n)
  BY <1>5, <1>7 DEF Alike, At
<1>9. SumOn(v, T) = SumOn(u, S) + At(v, T, n + 1)
  BY <1>3, <1>6, <1>8, SumOnAppend
<1>10. At(v, T, n + 1) = IF new.registrar = x /\ new.typ = typ THEN new.balance ELSE 0
  BY <1>5, <1>7 DEF At
<1>11. QED
  BY <1>1, <1>9, <1>10 DEF Held

(* d concerns invoices of one registrar and type only.                     *)
OnlyOf(d, I, r, typ, n) == \A i \in 1 .. n : d[i] # 0 => I[i].registrar = r /\ I[i].typ = typ

LEMMA OnlyOfSums ==
    ASSUME NEW n \in Nat, NEW I, DOMAIN I = 1 .. n, NEW d \in [1 .. n -> Nat], NEW r, NEW typ,
           OnlyOf(d, I, r, typ, n), NEW x, NEW u
    PROVE  SumOn(d, Of(I, x, u)) = IF x = r /\ u = typ THEN SumSeq(d) ELSE 0
<1>1. PICK S : S = Of(I, x, u)
  OBVIOUS
<1>2. Integers(d, n)
  BY NatsAreIntegers
<1>3. CASE x = r /\ u = typ
  <2>1. PICK T : T = 1 .. n
    OBVIOUS
  <2>2. Alike(d, S, d, T, n)
    <3> SUFFICES ASSUME NEW i \in 1 .. n PROVE At(d, S, i) = At(d, T, i)
      BY DEF Alike
    <3>1. d[i] # 0 => i \in S
      BY <1>1, <1>3 DEF Of, OnlyOf
    <3>2. QED
      BY <2>1, <3>1 DEF At
  <2>3. SumOn(d, S) = SumOn(d, T)
    BY <1>2, <2>2, SumOnAlike
  <2>4. SumOn(d, T) = SumSeq(d)
    <3>1. 1 .. n \subseteq T
      BY <2>1
    <3>2. QED
      BY <1>2, <3>1, SumOnAll
  <2>5. QED
    BY <1>1, <1>3, <2>3, <2>4
<1>4. CASE ~(x = r /\ u = typ)
  <2>1. \A i \in 1 .. n : At(d, S, i) = 0
    BY <1>1, <1>4 DEF At, Of, OnlyOf
  <2>2. SumOn(d, S) = 0
    BY <1>2, <2>1, SumOnNothing
  <2>3. QED
    BY <1>1, <1>4, <2>2
<1>5. QED
  BY <1>3, <1>4

(* The prices of operations, as a table, and along their order.            *)
Px(O) == [k \in DOMAIN O |-> O[k].price]

LEMMA PxAreNat ==
    ASSUME NEW n \in Nat, NEW O \in [1 .. n -> Operation]
    PROVE  Px(O) \in [1 .. n -> Nat] /\ Integers(Px(O), n)
<1>1. \A i \in 1 .. n : O[i].price \in Nat
  BY DEF Operation
<1>2. Px(O) \in [1 .. n -> Nat]
  BY <1>1 DEF Px
<1>3. QED
  BY <1>2, NatsAreIntegers

(* The prices in order of the operations' dates come to the same sum.      *)
LEMMA PricesAddUp ==
    ASSUME NEW n \in Nat, DOMAIN invoice_operation = 1 .. n, DatedOperations,
           NEW ops, ops \subseteq 1 .. n
    PROVE  SumSeq(Prices(ops)) = SumOn(OperationPrices, ops)
<1>1. PICK c \in Nat : c = Cardinality(ops)
  BY PlacesAreTaken
<1>2. PICK prices, w, order :
          prices = Prices(ops) /\ w = OperationPrices /\ order = InOrder(ops)
  OBVIOUS
<1>3. PICK place : place = [i \in ops |-> Place(ops, i)]
  OBVIOUS
<1>4. \A i \in ops : place[i] \in 0 .. c - 1
  BY <1>1, <1>3, PlacesAreTaken
<1>5. \A i \in ops : place[i] \in Int /\ 0 <= place[i] /\ place[i] < c
  BY <1>4
<1>6. \A k \in 1 .. c : order[k] \in ops /\ place[order[k]] = k - 1
  BY <1>1, <1>2, <1>3, PlacesAreTaken
<1>7. \A i \in ops, j \in ops : place[i] = place[j] => i = j
  <2> SUFFICES ASSUME NEW i \in ops, NEW j \in ops, i # j PROVE place[i] # place[j]
    OBVIOUS
  <2>1. Precedes(i, j) \/ Precedes(j, i)
    BY PrecedesOrders
  <2>2. Place(ops, i) < Place(ops, j) \/ Place(ops, j) < Place(ops, i)
    BY <2>1, PlacesIncrease
  <2>3. place[i] \in Int /\ place[j] \in Int /\ place[i] = Place(ops, i) /\ place[j] = Place(ops, j)
    BY <1>3, <1>4
  <2>4. QED
    BY <2>2, <2>3
<1>8. w \in [1 .. n -> Nat] /\ Integers(w, n)
  <2>1. w \in [1 .. n -> Nat]
    BY <1>2 DEF OperationPrices, DatedOperations
  <2>2. QED
    BY <2>1, NatsAreIntegers
<1>9. /\ Integers(prices, c) /\ \A k \in 1 .. c : prices[k] = w[order[k]]
  <2>1. prices = [k \in 1 .. c |-> invoice_operation[order[k]].price]
    BY <1>1, <1>2 DEF Prices
  <2>2. ASSUME NEW k \in 1 .. c
        PROVE  invoice_operation[order[k]].price = w[order[k]] /\ w[order[k]] \in Int
    <3>1. PICK i \in 1 .. n : i = order[k]
      BY <1>6
    <3>2. invoice_operation[i].price = w[i] /\ w[i] \in Int
      BY <1>2, <1>8 DEF OperationPrices
    <3>3. QED
      BY <3>1, <3>2
  <2>3. QED
    BY <2>1, <2>2 DEF Integers
<1> DEFINE Before(k) == {i \in ops : place[i] < k}
           Good == {k \in 0 .. c : SumTo(prices, k) = SumOn(w, Before(k))}
<1>10. 0 \in Good
  <2>1. SumTo(prices, 0) = 0
    BY <1>9, SumToStep
  <2>2. PICK S : S = Before(0)
    OBVIOUS
  <2>3. \A i \in 1 .. n : At(w, S, i) = 0
    <3>1. ASSUME NEW l \in S PROVE FALSE
      <4>1. l \in ops /\ place[l] < 0
        BY <2>2
      <4>2. place[l] \in Int /\ 0 <= place[l]
        BY <1>5, <4>1
      <4>3. QED
        BY <4>1, <4>2
    <3>2. QED
      BY <3>1 DEF At
  <2>4. SumOn(w, S) = 0
    BY <1>8, <2>3, SumOnNothing
  <2>5. QED
    BY <2>1, <2>2, <2>4
<1>11. ASSUME NEW k \in 1 .. c, k - 1 \in Good PROVE k \in Good
  <2>1. PICK j, i : j = k - 1 /\ i = order[k]
    OBVIOUS
  <2>2. PICK S, T : S = Before(j) /\ T = Before(k) /\ j = k - 1 /\ i = order[k]
    BY <2>1
  <2>3. i \in ops /\ i \in 1 .. n /\ place[i] = j /\ j \in Int
    <3>1. i \in ops /\ place[i] = k - 1
      BY <1>6, <2>1
    <3>2. QED
      BY <2>1, <3>1
  <2>4. i \notin S
    BY <2>2, <2>3
  <2>5. \A l \in 1 .. n : l \in T <=> l \in S \/ l = i
    <3> SUFFICES ASSUME NEW l \in 1 .. n PROVE l \in T <=> l \in S \/ l = i
      OBVIOUS
    <3>1. CASE l \in ops
      <4>1. PICK q \in Int : q = place[l]
        BY <1>4, <3>1
      <4>2. l \in T <=> q < k
        BY <2>2, <3>1, <4>1
      <4>3. l \in S <=> q < j
        BY <2>2, <3>1, <4>1
      <4>4. l = i <=> q = j
        BY <1>7, <2>3, <3>1, <4>1
      <4>5. q < k <=> q < j \/ q = j
        BY <2>2, <2>3
      <4>6. QED
        BY <4>2, <4>3, <4>4, <4>5
    <3>2. CASE l \notin ops
      BY <2>2, <2>3, <3>2
    <3>3. QED
      BY <3>1, <3>2
  <2>6. SumOn(w, T) = SumOn(w, S) + w[i]
    BY <1>8, <2>3, <2>4, <2>5, SumOnOneMore
  <2>7. SumTo(prices, k) = SumTo(prices, j) + prices[k] /\ prices[k] = w[i]
    BY <1>9, <2>2, SumToStep
  <2>8. SumTo(prices, j) = SumOn(w, S)
    BY <1>11, <2>2
  <2>9. QED
    BY <2>2, <2>6, <2>7, <2>8
<1>12. \A k \in 0 .. c : k \in Good
  <2> HIDE DEF Good
  <2>1. QED
    BY <1>10, <1>11, NumberInduction
<1>13. Before(c) = ops
  BY <1>5
<1>14. c \in 0 .. c
  OBVIOUS
<1>15. SumTo(prices, c) = SumOn(w, ops)
  BY <1>12, <1>13, <1>14
<1>16. SumSeq(prices) = SumTo(prices, c)
  BY <1>9, SumIsSumTo, SumSeqIsSum
<1>17. QED
  BY <1>2, <1>15, <1>16

(* What a payment takes off the debts it also credits: the first k         *)
(* invoices.                                                               *)
PaidSoFar(r, s, k) ==
    /\ \A i \in DOMAIN invoice : s.change[i] # 0 => i <= k /\ i \in UnpaidAccountInvoices(r)
    /\ SumSeq(s.change) = SumSeq(s.credits)

LEMMA PayDebtAddsUp ==
    ASSUME Balances, NEW n \in Nat, DOMAIN invoice = 1 .. n, NEW r, NEW price \in Nat,
           NEW s \in PayingDebts(price), NEW k \in 1 .. n, NEW j \in 0 .. n, j = k - 1,
           PaidSoFar(r, s, j)
    PROVE  PaidSoFar(r, PayDebt(r, s, k), k)
<1>1. CASE k \notin UnpaidAccountInvoices(r) \/ s.rest = 0
  <2>1. PayDebt(r, s, k) = s
    BY <1>1 DEF PayDebt
  <2>2. \A i \in 1 .. n : i <= j => i <= k
    OBVIOUS
  <2>3. QED
    BY <2>1, <2>2 DEF PaidSoFar
<1>2. CASE k \in UnpaidAccountInvoices(r) /\ s.rest # 0
  <2>1. PICK c, rest : /\ c = (IF s.rest <= WithVat(invoice[k].balance)
                               THEN WithoutVat(s.rest) ELSE invoice[k].balance)
                       /\ rest = (IF s.rest <= WithVat(invoice[k].balance)
                                  THEN 0 ELSE s.rest - WithVat(invoice[k].balance))
    OBVIOUS
  <2>2. PayDebt(r, s, k) = [rest |-> rest, change |-> [s.change EXCEPT ![k] = c],
                            credits |-> Append(s.credits, c)]
    BY <1>2, <2>1 DEF PayDebt
  <2>3. s.rest \in Nat /\ s.change \in [1 .. n -> Nat] /\ s.credits \in Seq(Nat)
    BY DEF PayingDebts
  <2>4. c \in Nat
    <3>1. PICK u \in Nat : u = s.rest
      BY <2>3
    <3>2. WithoutVat(u) \in Nat
      BY VatTakenOff
    <3>3. invoice[k].balance \in Nat
      BY DEF Balances
    <3>4. QED
      BY <2>1, <3>1, <3>2, <3>3
  <2>5. PICK v, w, t : /\ v = s.change /\ w = [s.change EXCEPT ![k] = c]
                       /\ t = PayDebt(r, s, k)
    OBVIOUS
  <2>6. t.change = w /\ t.credits = Append(s.credits, c)
    BY <2>2, <2>5
  <2>7. v \in [1 .. n -> Nat] /\ w \in [1 .. n -> Nat] /\ w = [v EXCEPT ![k] = c]
    BY <2>3, <2>4, <2>5
  <2>8. v[k] = 0
    <3>1. ~(k <= j)
      OBVIOUS
    <3>2. QED
      BY <2>5, <3>1 DEF PaidSoFar
  <2>9. Differ(w, v, n, k, c)
    <3> SUFFICES ASSUME NEW i \in 1 .. n PROVE w[i] = v[i] + (IF i = k THEN c ELSE 0)
      BY DEF Differ
    <3>1. v[i] \in Nat /\ w[i] = IF i = k THEN c ELSE v[i]
      BY <2>7
    <3>2. QED
      BY <2>4, <2>8, <3>1
  <2>10. Sum(w) = Sum(v) + c
    <3>1. Integers(w, n) /\ Integers(v, n)
      BY <2>7, NatsAreIntegers
    <3>2. c \in Int
      BY <2>4
    <3>3. QED
      BY <2>9, <3>1, <3>2, SumOfPoint
  <2>11. SumSeq(Append(s.credits, c)) = SumSeq(s.credits) + c
    BY <2>3, <2>4, SumSeqOfAppend
  <2>12. SumSeq(t.change) = SumSeq(t.credits)
    <3>1. SumSeq(v) = SumSeq(s.credits)
      BY <2>5 DEF PaidSoFar
    <3>2. QED
      BY <2>6, <2>10, <2>11, <3>1, SumSeqIsSum
  <2>13. ASSUME NEW i \in 1 .. n, w[i] # 0 PROVE i <= k /\ i \in UnpaidAccountInvoices(r)
    <3>1. CASE i = k
      BY <1>2, <3>1
    <3>2. CASE i # k
      <4>1. v[i] # 0
        BY <2>7, <2>13, <3>2
      <4>2. i <= j /\ i \in UnpaidAccountInvoices(r)
        BY <2>5, <4>1 DEF PaidSoFar
      <4>3. QED
        BY <4>2
    <3>3. QED
      BY <3>1, <3>2
  <2>14. QED
    BY <2>5, <2>6, <2>12, <2>13 DEF PaidSoFar
<1>3. QED
  BY <1>1, <1>2

LEMMA DebtsPaidAddUp ==
    ASSUME Balances, NEW n \in Nat, DOMAIN invoice = 1 .. n, NEW r, NEW price \in Nat
    PROVE  PaidSoFar(r, DebtsPaid(r, price), n)
<1>1. PICK U, step, base :
          U = PayingDebts(price) /\ step = PayTurn(r, price) /\ base = StartPaying(price)
  OBVIOUS
<1>2. /\ base \in U /\ Closed(step, U, 1 .. n)
      /\ DebtsPaid(r, price) = RunTo(base, step, n)
  BY <1>1, DebtsPaidRuns
<1>3. PICK g : RunTrace(g, base, step, U, n)
  BY <1>2, RunToTrace
<1> DEFINE Good == {k \in 0 .. n : PaidSoFar(r, g[k], k)}
<1>4. 0 \in Good
  <2>1. g[0] = [rest |-> 100 * price, change |-> [i \in 1 .. n |-> 0], credits |-> << >>]
    BY <1>1, <1>3 DEF RunTrace, StartPaying
  <2>2. PICK w : w = [i \in 1 .. n |-> 0]
    OBVIOUS
  <2>3. g[0].change = w /\ g[0].credits = << >>
    BY <2>1, <2>2
  <2>4. SumSeq(w) = 0
    <3>1. Integers(w, n) /\ Adds(w, w, w, n)
      BY <2>2 DEF Integers, Adds
    <3>2. Sum(w) = Sum(w) + Sum(w) /\ Sum(w) \in Int
      BY <3>1, SumOfSums, SumIsInt
    <3>3. QED
      BY <3>2, SumSeqIsSum
  <2>5. SumSeq(<< >>) = 0
    BY SumOfEmpty, SumSeqIsSum
  <2>6. QED
    BY <2>2, <2>3, <2>4, <2>5 DEF PaidSoFar
<1>5. ASSUME NEW k \in 1 .. n, k - 1 \in Good PROVE k \in Good
  <2>1. PICK j \in 0 .. n : j = k - 1
    OBVIOUS
  <2>2. PICK s : s = g[j]
    OBVIOUS
  <2>3. s \in U /\ g[k] = step[<<s, k>>] /\ PaidSoFar(r, s, j)
    BY <1>3, <1>5, <2>1, <2>2 DEF RunTrace
  <2>4. s \in PayingDebts(price) /\ g[k] = PayDebt(r, s, k)
    BY <1>1, <2>3 DEF PayTurn
  <2>5. PaidSoFar(r, PayDebt(r, s, k), k)
    BY <2>1, <2>3, <2>4, PayDebtAddsUp
  <2>6. QED
    BY <2>4, <2>5
<1>6. \A k \in 0 .. n : k \in Good
  <2> HIDE DEF Good
  <2>1. QED
    BY <1>4, <1>5, NumberInduction
<1>7. n \in 0 .. n
  OBVIOUS
<1>8. QED
  BY <1>2, <1>3, <1>6, <1>7 DEF RunTrace

(* The books, said of tables I of invoices, O of operations, C of credit   *)
(* payments, and of credits and next numbers: values, that can be compared *)
(* before and after a step.                                                *)
Open(O, x) == {k \in DOMAIN O : O[k].registrar = x /\ O[k].ac_invoice = 0}
Late(O, x) == {k \in DOMAIN O : O[k].registrar = x /\ PriceList[O[k].operation].postpaid}
Accounted(O, i) == {k \in DOMAIN O : O[k].ac_invoice = i}

Ledger(I, O, credits) ==
    \A x \in Registrars :
        credits[x] = Held(I, x, "deposit") - Held(I, x, "account") - SumOn(Px(O), Open(O, x))

Owes(O, credits) == \A x \in Registrars : credits[x] + SumOn(Px(O), Late(O, x)) >= 0

Paid(C, ac, ad) == IF <<ac, ad>> \in DOMAIN C THEN C[<<ac, ad>>] ELSE 0
PaidOf(C, ac, n) == [j \in 1 .. n |-> Paid(C, ac, j)]
PaidBy(C, ad, n) == [j \in 1 .. n |-> Paid(C, j, ad)]

AddsUpAt(I, O, C, n, i) ==
    IF I[i].typ = "account"
    THEN /\ I[i].operations_price = SumOn(Px(O), Accounted(O, i))
         /\ I[i].operations_price = I[i].total + SumSeq(PaidOf(C, i, n))
         /\ I[i].balance <= I[i].total
    ELSE I[i].total = I[i].balance + SumSeq(PaidBy(C, i, n))

AddsUp(I, O, C, n) == \A i \in 1 .. n : AddsUpAt(I, O, C, n, i)

IssuedIn(I, p) == {i \in DOMAIN I : Prefix(I[i].typ, I[i].taxdate) = p}
EarlierIn(I, p, i) == {j \in IssuedIn(I, p) : j < i}

NumberedAt(I, next, p) ==
    /\ \A i \in IssuedIn(I, p) :
           I[i].prefix = FirstNumber(p[2]) + Cardinality(EarlierIn(I, p, i))
    /\ next # 0 => next = FirstNumber(p[2]) + Cardinality(IssuedIn(I, p))
    /\ next = 0 => IssuedIn(I, p) = {}

Numbered(I, next) == \A p \in NumberSeries : NumberedAt(I, next[p], p)

AccountedUpTo(O, n) == \A k \in DOMAIN O : O[k].ac_invoice \in 0 .. n

BooksInv ==
    /\ Ledger(invoice, invoice_operation, registrar_credit)
    /\ Owes(invoice_operation, registrar_credit)
    /\ AddsUp(invoice, invoice_operation, credit_payment_map, Len(invoice))
    /\ Numbered(invoice, invoice_prefix)
    /\ AccountedUpTo(invoice_operation, Len(invoice))

LEMMA BooksInvIsEnough == AccountsInv /\ BooksInv => BooksAddUp
<1> SUFFICES ASSUME AccountsInv, BooksInv PROVE BooksAddUp
  OBVIOUS
<1>1. TypeOK /\ DOMAIN invoice = 1 .. Len(invoice)
  BY TablesAreNumbered DEF AccountsInv
<1>2. LedgerBalanced
  <2> SUFFICES ASSUME NEW x \in Registrars
               PROVE  registrar_credit[x] =
                            SumOn(InvoiceBalances, InvoicesOf(x, "deposit"))
                          - SumOn(InvoiceBalances, InvoicesOf(x, "account"))
                          - SumOn(OperationPrices,
                                  {i \in OperationsOf(x) : invoice_operation[i].ac_invoice = 0})
    BY DEF LedgerBalanced
  <2>1. InvoiceBalances = Bal(invoice) /\ OperationPrices = Px(invoice_operation)
    BY DEF InvoiceBalances, OperationPrices, Bal, Px
  <2>2. /\ InvoicesOf(x, "deposit") = Of(invoice, x, "deposit")
        /\ InvoicesOf(x, "account") = Of(invoice, x, "account")
    BY DEF InvoicesOf, Of
  <2>3. {i \in OperationsOf(x) : invoice_operation[i].ac_invoice = 0} = Open(invoice_operation, x)
    BY DEF OperationsOf, Open
  <2>4. registrar_credit[x] = Held(invoice, x, "deposit") - Held(invoice, x, "account")
                                - SumOn(Px(invoice_operation), Open(invoice_operation, x))
    BY DEF BooksInv, Ledger
  <2>5. /\ Held(invoice, x, "deposit") = SumOn(InvoiceBalances, InvoicesOf(x, "deposit"))
        /\ Held(invoice, x, "account") = SumOn(InvoiceBalances, InvoicesOf(x, "account"))
    BY <2>1, <2>2 DEF Held
  <2>6. SumOn(Px(invoice_operation), Open(invoice_operation, x))
            = SumOn(OperationPrices, {i \in OperationsOf(x) : invoice_operation[i].ac_invoice = 0})
    BY <2>1, <2>3
  <2>7. QED
    BY <2>4, <2>5, <2>6
<1>3. InvoicesAddUp
  <2> SUFFICES ASSUME NEW i \in DOMAIN invoice
               PROVE  IF invoice[i].typ = "account"
                      THEN /\ invoice[i].operations_price =
                                  SumOn(OperationPrices, {k \in DOMAIN invoice_operation :
                                                             invoice_operation[k].ac_invoice = i})
                           /\ invoice[i].operations_price = invoice[i].total
                                  + SumSeq([j \in DOMAIN invoice |-> PulledOff(i, j)])
                           /\ invoice[i].balance <= invoice[i].total
                      ELSE invoice[i].total = invoice[i].balance
                                  + SumSeq([j \in DOMAIN invoice |-> PulledOff(j, i)])
    BY DEF InvoicesAddUp
  <2>1. OperationPrices = Px(invoice_operation)
    BY DEF OperationPrices, Px
  <2>2. {k \in DOMAIN invoice_operation : invoice_operation[k].ac_invoice = i}
            = Accounted(invoice_operation, i)
    BY DEF Accounted
  <2>3. \A ac, ad : PulledOff(ac, ad) = Paid(credit_payment_map, ac, ad)
    BY DEF PulledOff, Paid
  <2>4. [j \in DOMAIN invoice |-> PulledOff(i, j)] = PaidOf(credit_payment_map, i, Len(invoice))
    BY <1>1, <2>3 DEF PaidOf
  <2>5. [j \in DOMAIN invoice |-> PulledOff(j, i)] = PaidBy(credit_payment_map, i, Len(invoice))
    BY <1>1, <2>3 DEF PaidBy
  <2>6. AddsUpAt(invoice, invoice_operation, credit_payment_map, Len(invoice), i)
    BY <1>1 DEF BooksInv, AddsUp
  <2>7. QED
    BY <2>1, <2>2, <2>4, <2>5, <2>6 DEF AddsUpAt
<1>4. DebtIsPostpaid
  <2> SUFFICES ASSUME NEW x \in Registrars
               PROVE  registrar_credit[x] + SumOn(OperationPrices, {i \in OperationsOf(x) :
                          PriceList[invoice_operation[i].operation].postpaid}) >= 0
    BY DEF DebtIsPostpaid
  <2>1. OperationPrices = Px(invoice_operation)
    BY DEF OperationPrices, Px
  <2>2. {i \in OperationsOf(x) : PriceList[invoice_operation[i].operation].postpaid}
            = Late(invoice_operation, x)
    BY DEF OperationsOf, Late
  <2>3. QED
    BY <2>1, <2>2 DEF BooksInv, Owes
<1>5. NumbersWithoutGaps
  <2> SUFFICES ASSUME NEW p \in NumberSeries
               PROVE  /\ \A i \in Issued(p) : invoice[i].prefix =
                             FirstNumber(p[2]) + Cardinality({j \in Issued(p) : j < i})
                      /\ Issued(p) # {} =>
                             invoice_prefix[p] = FirstNumber(p[2]) + Cardinality(Issued(p))
    BY DEF NumbersWithoutGaps
  <2>1. Issued(p) = IssuedIn(invoice, p)
    BY DEF Issued, IssuedIn
  <2>2. \A i : {j \in Issued(p) : j < i} = EarlierIn(invoice, p, i)
    BY <2>1 DEF EarlierIn
  <2>3. NumberedAt(invoice, invoice_prefix[p], p)
    BY DEF BooksInv, Numbered
  <2>4. QED
    BY <2>1, <2>2, <2>3 DEF NumberedAt
<1>6. QED
  BY <1>1, <1>2, <1>3, <1>4, <1>5 DEF BooksAddUp

(* One operation more.                                                     *)
SameUpTo(S, T, n) == \A k \in 1 .. n : k \in T <=> k \in S

LEMMA LongerPrices ==
    ASSUME NEW q \in Nat, NEW O \in [1 .. q -> Operation], NEW new \in Operation,
           NEW O2, LongerBy(O, O2, new, q), NEW S, NEW T, SameUpTo(S, T, q)
    PROVE  /\ SumOn(Px(O2), T) = SumOn(Px(O), S) + (IF q + 1 \in T THEN new.price ELSE 0)
           /\ SumOn(Px(O), S) \in Nat
<1>1. PICK u, v : u = Px(O) /\ v = Px(O2)
  OBVIOUS
<1>2. new.price \in Nat
  BY DEF Operation
<1>3. u \in [1 .. q -> Nat] /\ Integers(u, q) /\ \A i \in 1 .. q : u[i] = O[i].price
  BY <1>1, PxAreNat DEF Px
<1>4. /\ q + 1 \in 1 .. q + 1 /\ (\A i \in 1 .. q : i \in 1 .. q + 1)
      /\ \A i \in 1 .. q + 1 : i \in 1 .. q \/ i = q + 1
  OBVIOUS
<1>5. /\ DOMAIN v = 1 .. q + 1 /\ (\A i \in 1 .. q : v[i] = u[i]) /\ v[q + 1] = new.price
  BY <1>1, <1>3, <1>4 DEF Px, LongerBy
<1>6. Integers(v, q + 1)
  BY <1>2, <1>3, <1>4, <1>5 DEF Integers
<1>7. Alike(v, T, u, S, q)
  BY <1>5 DEF Alike, At, SameUpTo
<1>8. SumOn(v, T) = SumOn(u, S) + At(v, T, q + 1)
  BY <1>3, <1>6, <1>7, SumOnAppend
<1>9. At(v, T, q + 1) = IF q + 1 \in T THEN new.price ELSE 0
  BY <1>5 DEF At
<1>10. SumOn(u, S) \in Nat
  BY <1>3, SumOnIsNat
<1>11. QED
  BY <1>1, <1>8, <1>9, <1>10

(* credits, with that of r changed by d.                                   *)
Credited(credits, credits2, r, d) ==
    \A x \in Registrars : credits2[x] = credits[x] + (IF x = r THEN d ELSE 0)

LEMMA ChargeKeepsLedger ==
    ASSUME NEW n \in Nat, NEW I \in [1 .. n -> Invoice],
           NEW q \in Nat, NEW O \in [1 .. q -> Operation], NEW new \in Operation,
           NEW O2, LongerBy(O, O2, new, q), new.ac_invoice = 0,
           NEW credits \in [Registrars -> Int], NEW credits2,
           Credited(credits, credits2, new.registrar, - new.price),
           Ledger(I, O, credits)
    PROVE  Ledger(I, O2, credits2)
<1> SUFFICES ASSUME NEW x \in Registrars
             PROVE  credits2[x] = Held(I, x, "deposit") - Held(I, x, "account")
                                      - SumOn(Px(O2), Open(O2, x))
  BY DEF Ledger
<1>1. PICK S, T : S = Open(O, x) /\ T = Open(O2, x)
  OBVIOUS
<1>2. /\ q + 1 \in 1 .. q + 1 /\ (\A i \in 1 .. q : i \in 1 .. q + 1)
  OBVIOUS
<1>3. SameUpTo(S, T, q) /\ (q + 1 \in T <=> new.registrar = x)
  BY <1>1, <1>2 DEF SameUpTo, Open, LongerBy
<1>4. /\ SumOn(Px(O2), T) = SumOn(Px(O), S) + (IF q + 1 \in T THEN new.price ELSE 0)
      /\ SumOn(Px(O), S) \in Nat
  BY <1>3, LongerPrices
<1>5. PICK a \in Int, b \in Int : a = Held(I, x, "deposit") /\ b = Held(I, x, "account")
  BY BalancesAreNat, SumOnIsInt DEF Held
<1>6. PICK o \in Nat, p \in Nat, c \in Int : o = SumOn(Px(O), S) /\ p = new.price /\ c = credits[x]
  BY <1>4 DEF Operation
<1>7. c = a - b - o
  BY <1>1, <1>5, <1>6 DEF Ledger
<1>8. CASE new.registrar = x
  <2>1. credits2[x] = c - p
    BY <1>6, <1>8 DEF Credited
  <2>2. SumOn(Px(O2), T) = o + p
    BY <1>3, <1>4, <1>6, <1>8
  <2>3. c - p = a - b - (o + p)
    BY <1>7
  <2>4. QED
    BY <1>1, <1>5, <2>1, <2>2, <2>3
<1>9. CASE new.registrar # x
  <2>1. credits2[x] = c
    BY <1>6, <1>9 DEF Credited
  <2>2. SumOn(Px(O2), T) = o
    BY <1>3, <1>4, <1>6, <1>9
  <2>3. QED
    BY <1>1, <1>5, <1>7, <2>1, <2>2
<1>10. QED
  BY <1>8, <1>9

(* A charge the registrar's credit does not cover is postpaid.             *)
LEMMA ChargeKeepsOwes ==
    ASSUME NEW q \in Nat, NEW O \in [1 .. q -> Operation], NEW new \in Operation,
           NEW O2, LongerBy(O, O2, new, q),
           NEW credits \in [Registrars -> Int], NEW credits2,
           Credited(credits, credits2, new.registrar, - new.price),
           \/ PriceList[new.operation].postpaid \/ new.price = 0
           \/ credits[new.registrar] >= new.price,
           Owes(O, credits)
    PROVE  Owes(O2, credits2)
<1> SUFFICES ASSUME NEW x \in Registrars
             PROVE  credits2[x] + SumOn(Px(O2), Late(O2, x)) >= 0
  BY DEF Owes
<1>1. PICK S, T : S = Late(O, x) /\ T = Late(O2, x)
  OBVIOUS
<1>2. /\ q + 1 \in 1 .. q + 1 /\ (\A i \in 1 .. q : i \in 1 .. q + 1)
  OBVIOUS
<1>3. /\ SameUpTo(S, T, q)
      /\ q + 1 \in T <=> new.registrar = x /\ PriceList[new.operation].postpaid
  BY <1>1, <1>2 DEF SameUpTo, Late, LongerBy
<1>4. /\ SumOn(Px(O2), T) = SumOn(Px(O), S) + (IF q + 1 \in T THEN new.price ELSE 0)
      /\ SumOn(Px(O), S) \in Nat
  BY <1>3, LongerPrices
<1>5. PICK o \in Nat, p \in Nat, c \in Int : o = SumOn(Px(O), S) /\ p = new.price /\ c = credits[x]
  BY <1>4 DEF Operation
<1>6. c + o >= 0
  BY <1>1, <1>5 DEF Owes
<1>7. CASE new.registrar # x
  <2>1. credits2[x] = c
    BY <1>5, <1>7 DEF Credited
  <2>2. SumOn(Px(O2), T) = o
    BY <1>3, <1>4, <1>5, <1>7
  <2>3. QED
    BY <1>1, <1>6, <2>1, <2>2
<1>8. CASE new.registrar = x /\ q + 1 \in T
  <2>1. credits2[x] = c - p
    BY <1>5, <1>8 DEF Credited
  <2>2. SumOn(Px(O2), T) = o + p
    BY <1>4, <1>5, <1>8
  <2>3. c - p + (o + p) >= 0
    BY <1>6
  <2>4. QED
    BY <1>1, <2>1, <2>2, <2>3
<1>9. CASE new.registrar = x /\ q + 1 \notin T
  <2>1. credits2[x] = c - p
    BY <1>5, <1>9 DEF Credited
  <2>2. SumOn(Px(O2), T) = o
    BY <1>4, <1>5, <1>9
  <2>3. p = 0 \/ c >= p
    BY <1>3, <1>5, <1>9
  <2>4. c - p + o >= 0
    BY <1>6, <2>3
  <2>5. QED
    BY <1>1, <2>1, <2>2, <2>4
<1>10. QED
  BY <1>7, <1>8, <1>9

LEMMA ChargeKeepsAddsUp ==
    ASSUME NEW n \in Nat, NEW I, NEW C,
           NEW q \in Nat, NEW O \in [1 .. q -> Operation], NEW new \in Operation,
           NEW O2, LongerBy(O, O2, new, q), new.ac_invoice = 0,
           AddsUp(I, O, C, n), AccountedUpTo(O, n)
    PROVE  AddsUp(I, O2, C, n) /\ AccountedUpTo(O2, n)
<1>1. /\ q + 1 \in 1 .. q + 1 /\ (\A i \in 1 .. q : i \in 1 .. q + 1)
      /\ \A i \in 1 .. q + 1 : i \in 1 .. q \/ i = q + 1
  OBVIOUS
<1>2. ASSUME NEW i \in 1 .. n PROVE AddsUpAt(I, O2, C, n, i)
  <2>1. PICK S, T : S = Accounted(O, i) /\ T = Accounted(O2, i)
    OBVIOUS
  <2>2. i # 0
    OBVIOUS
  <2>3. SameUpTo(S, T, q) /\ q + 1 \notin T
    BY <1>1, <2>1, <2>2 DEF SameUpTo, Accounted, LongerBy
  <2>4. SumOn(Px(O2), T) = SumOn(Px(O), S)
    <3>1. /\ SumOn(Px(O2), T) = SumOn(Px(O), S) + (IF q + 1 \in T THEN new.price ELSE 0)
          /\ SumOn(Px(O), S) \in Nat
      BY <2>3, LongerPrices
    <3>2. QED
      BY <2>3, <3>1
  <2>5. AddsUpAt(I, O, C, n, i)
    BY DEF AddsUp
  <2>6. QED
    BY <2>1, <2>4, <2>5 DEF AddsUpAt
<1>3. AccountedUpTo(O2, n)
  <2>1. 0 \in 0 .. n
    OBVIOUS
  <2>2. QED
    BY <1>1, <2>1 DEF AccountedUpTo, LongerBy
<1>4. QED
  BY <1>2, <1>3 DEF AddsUp

(* One invoice more of the series p0, with its next number.                *)
NextTaken(next, next2, p0) ==
    \A p \in NumberSeries : next2[p] = IF p = p0 THEN next[p] + 1 ELSE next[p]

LEMMA LongerIsNumbered ==
    ASSUME NEW n \in Nat, NEW I, DOMAIN I = 1 .. n, NEW new, NEW J, LongerBy(I, J, new, n),
           NEW next \in [NumberSeries -> Nat], NEW next2, NEW p0,
           p0 = Prefix(new.typ, new.taxdate), next[p0] # 0, new.prefix = next[p0],
           NextTaken(next, next2, p0),
           Numbered(I, next)
    PROVE  Numbered(J, next2)
<1> SUFFICES ASSUME NEW p \in NumberSeries PROVE NumberedAt(J, next2[p], p)
  BY DEF Numbered
<1>1. /\ n + 1 \in 1 .. n + 1 /\ (\A i \in 1 .. n : i \in 1 .. n + 1 /\ i < n + 1 /\ ~(n + 1 < i))
      /\ (\A i \in 1 .. n + 1 : i \in 1 .. n \/ i = n + 1) /\ n + 1 \notin 1 .. n
      /\ ~(n + 1 < n + 1)
  OBVIOUS
<1>2. PICK S, T : S = IssuedIn(I, p) /\ T = IssuedIn(J, p)
  OBVIOUS
<1>3. S \subseteq 1 .. n /\ IsFiniteSet(S) /\ Cardinality(S) \in Nat
  <2>1. S \subseteq 1 .. n
    BY <1>2 DEF IssuedIn
  <2>2. QED
    BY <2>1, IndexSetsAreFinite, FS_CardinalityType
<1>4. NumberedAt(I, next[p], p)
  BY DEF Numbered
<1>5. T = IF p = p0 THEN S \cup {n + 1} ELSE S
  BY <1>1, <1>2 DEF IssuedIn, LongerBy
<1>6. \A i \in S : J[i].prefix = I[i].prefix
  BY <1>3 DEF LongerBy
<1>7. ASSUME NEW i \in S PROVE EarlierIn(J, p, i) = EarlierIn(I, p, i)
  <2>1. {j \in T : j < i} = {j \in S : j < i}
    BY <1>1, <1>3, <1>5
  <2>2. QED
    BY <1>2, <2>1 DEF EarlierIn
<1>8. \A i \in S : J[i].prefix = FirstNumber(p[2]) + Cardinality(EarlierIn(J, p, i))
  <2>1. \A i \in S : I[i].prefix = FirstNumber(p[2]) + Cardinality(EarlierIn(I, p, i))
    BY <1>2, <1>4 DEF NumberedAt
  <2>2. QED
    BY <1>6, <1>7, <2>1
<1>9. CASE p = p0
  <2>1. next[p] = FirstNumber(p[2]) + Cardinality(S) /\ next[p] # 0
    BY <1>2, <1>4, <1>9 DEF NumberedAt
  <2>2. EarlierIn(J, p, n + 1) = S
    <3>1. {j \in T : j < n + 1} = S
      BY <1>1, <1>3, <1>5, <1>9
    <3>2. QED
      BY <1>2, <3>1 DEF EarlierIn
  <2>3. J[n + 1].prefix = FirstNumber(p[2]) + Cardinality(EarlierIn(J, p, n + 1))
    BY <1>9, <2>1, <2>2 DEF LongerBy
  <2>4. Cardinality(T) = Cardinality(S) + 1
    BY <1>1, <1>3, <1>5, <1>9, FS_AddElement
  <2>5. PICK c \in Nat : c = Cardinality(S)
    BY <1>3
  <2>6. PICK f \in Nat : f = FirstNumber(p[2])
    <3>1. PICK d \in Days : p[2] = Year(d)
      BY DEF NumberSeries
    <3>2. QED
      BY <3>1, YearsAreNat
  <2>7. next2[p] = f + (c + 1) /\ next2[p] # 0
    <3>1. PICK x \in Nat : x = next[p] /\ x = f + c
      BY <2>1, <2>5, <2>6
    <3>2. next2[p] = x + 1
      BY <1>9, <3>1 DEF NextTaken
    <3>3. QED
      BY <2>5, <2>6, <3>1, <3>2, SMTT(30)
  <2>8. \A i \in T : J[i].prefix = FirstNumber(p[2]) + Cardinality(EarlierIn(J, p, i))
    BY <1>5, <1>8, <1>9, <2>3
  <2>9. next2[p] = FirstNumber(p[2]) + Cardinality(T)
    BY <2>4, <2>5, <2>6, <2>7
  <2>10. QED
    BY <1>2, <2>7, <2>8, <2>9 DEF NumberedAt
<1>10. CASE p # p0
  <2>1. T = S /\ next2[p] = next[p]
    BY <1>5, <1>10 DEF NextTaken
  <2>2. QED
    BY <1>2, <1>4, <1>8, <2>1 DEF NumberedAt
<1>11. QED
  BY <1>9, <1>10

LEMMA LoweredIsNumbered ==
    ASSUME NEW n \in Nat, NEW I, DOMAIN I = 1 .. n, NEW P, DOMAIN P = 1 .. n, NEW d,
           Lowered(I, P, d, n), NEW next, Numbered(I, next)
    PROVE  Numbered(P, next)
<1>1. ASSUME NEW p PROVE IssuedIn(P, p) = IssuedIn(I, p)
  BY DEF IssuedIn, Lowered
<1>2. ASSUME NEW p, NEW i PROVE EarlierIn(P, p, i) = EarlierIn(I, p, i)
  BY <1>1 DEF EarlierIn
<1>3. ASSUME NEW p \in NumberSeries PROVE NumberedAt(P, next[p], p)
  <2>1. NumberedAt(I, next[p], p)
    BY DEF Numbered
  <2>2. \A i \in IssuedIn(I, p) : P[i].prefix = I[i].prefix
    BY DEF IssuedIn, Lowered
  <2>3. QED
    BY <1>1, <1>2, <2>1, <2>2 DEF NumberedAt
<1>4. QED
  BY <1>3 DEF Numbered

LEMMA HeldIsInt ==
    ASSUME NEW n \in Nat, NEW I \in [1 .. n -> Invoice], NEW x, NEW typ
    PROVE  Held(I, x, typ) \in Int
  BY BalancesAreNat, SumOnIsInt DEF Held

(* Balances of invoices of r and of one type lowered by d.                 *)
Drained(I, P, r, typ, sum) ==
    \A x, u : Held(I, x, u) = Held(P, x, u) + (IF x = r /\ u = typ THEN sum ELSE 0)

LEMMA HeldAfterLowering ==
    ASSUME NEW n \in Nat, NEW I \in [1 .. n -> Invoice], NEW P \in [1 .. n -> Invoice],
           NEW d \in [1 .. n -> Nat], Lowered(I, P, d, n), NEW r, NEW typ,
           OnlyOf(d, I, r, typ, n)
    PROVE  Drained(I, P, r, typ, SumSeq(d))
<1> SUFFICES ASSUME NEW x, NEW u
             PROVE  Held(I, x, u) = Held(P, x, u) + (IF x = r /\ u = typ THEN SumSeq(d) ELSE 0)
  BY DEF Drained
<1>1. HoldsLess(I, P, d)
  BY LoweredHolds
<1>2. DOMAIN I = 1 .. n
  OBVIOUS
<1>3. SumOn(d, Of(I, x, u)) = IF x = r /\ u = typ THEN SumSeq(d) ELSE 0
  BY <1>2, OnlyOfSums
<1>4. QED
  BY <1>1, <1>3 DEF HoldsLess

LEMMA LongerSums ==
    ASSUME NEW n \in Nat, NEW w \in [1 .. n -> Nat], NEW c \in Nat, NEW v, LongerBy(w, v, c, n)
    PROVE  SumSeq(v) = SumSeq(w) + c
<1>1. /\ n + 1 \in 1 .. n + 1 /\ (\A i \in 1 .. n : i \in 1 .. n + 1)
      /\ \A i \in 1 .. n + 1 : i \in 1 .. n \/ i = n + 1
  OBVIOUS
<1>2. Integers(w, n)
  BY NatsAreIntegers
<1>3. Integers(v, n + 1)
  BY <1>1, <1>2 DEF Integers, LongerBy
<1>4. Sum(v) = Sum(w) + v[n + 1]
  BY <1>2, <1>3, SumOfAppend DEF LongerBy
<1>5. QED
  BY <1>4, SumSeqIsSum DEF LongerBy

LEMMA ZerosSum ==
    ASSUME NEW n \in Nat, NEW w, DOMAIN w = 1 .. n, \A i \in 1 .. n : w[i] = 0
    PROVE  SumSeq(w) = 0
<1>1. Integers(w, n) /\ Adds(w, w, w, n)
  BY DEF Integers, Adds
<1>2. Sum(w) = Sum(w) + Sum(w) /\ Sum(w) \in Int
  BY <1>1, SumOfSums, SumIsInt
<1>3. QED
  BY <1>2, SumSeqIsSum

(* Ledgers, when a payment settles debts and when it makes a deposit.      *)
LEMMA DebtsKeepLedger ==
    ASSUME NEW n \in Nat, NEW I \in [1 .. n -> Invoice], NEW P \in [1 .. n -> Invoice],
           NEW d \in [1 .. n -> Nat], Lowered(I, P, d, n), NEW r,
           OnlyOf(d, I, r, "account", n),
           NEW q \in Nat, NEW O \in [1 .. q -> Operation],
           NEW credits \in [Registrars -> Int], NEW credits2, NEW sum \in Nat, sum = SumSeq(d),
           Credited(credits, credits2, r, sum), Ledger(I, O, credits)
    PROVE  Ledger(P, O, credits2)
<1> SUFFICES ASSUME NEW x \in Registrars
             PROVE  credits2[x] = Held(P, x, "deposit") - Held(P, x, "account")
                                      - SumOn(Px(O), Open(O, x))
  BY DEF Ledger
<1>1. PICK a \in Int, b \in Int : a = Held(P, x, "deposit") /\ b = Held(P, x, "account")
  BY HeldIsInt
<1>2. PICK o \in Int, c \in Int : o = SumOn(Px(O), Open(O, x)) /\ c = credits[x]
  BY PxAreNat, SumOnIsInt
<1>3. Drained(I, P, r, "account", sum)
  BY HeldAfterLowering
<1>4. /\ Held(I, x, "deposit") = a
      /\ Held(I, x, "account") = b + (IF x = r THEN sum ELSE 0)
  BY <1>1, <1>3 DEF Drained
<1>5. c = a - (b + (IF x = r THEN sum ELSE 0)) - o
  BY <1>2, <1>4 DEF Ledger
<1>6. credits2[x] = c + (IF x = r THEN sum ELSE 0)
  BY <1>2 DEF Credited
<1>7. credits2[x] = a - b - o
  BY <1>5, <1>6, SMTT(30)
<1>8. QED
  BY <1>1, <1>2, <1>7

LEMMA DepositKeepsLedger ==
    ASSUME NEW n \in Nat, NEW I \in [1 .. n -> Invoice], NEW new \in Invoice, NEW J,
           LongerBy(I, J, new, n), new.typ = "deposit",
           NEW q \in Nat, NEW O \in [1 .. q -> Operation],
           NEW credits \in [Registrars -> Int], NEW credits2,
           Credited(credits, credits2, new.registrar, new.balance), Ledger(I, O, credits)
    PROVE  Ledger(J, O, credits2)
<1> SUFFICES ASSUME NEW x \in Registrars
             PROVE  credits2[x] = Held(J, x, "deposit") - Held(J, x, "account")
                                      - SumOn(Px(O), Open(O, x))
  BY DEF Ledger
<1>1. PICK a \in Int, b \in Int : a = Held(I, x, "deposit") /\ b = Held(I, x, "account")
  BY HeldIsInt
<1>2. PICK o \in Int, c \in Int : o = SumOn(Px(O), Open(O, x)) /\ c = credits[x]
  BY PxAreNat, SumOnIsInt
<1>3. PICK w \in Nat : w = new.balance
  BY DEF Invoice
<1>4. Held(J, x, "deposit") = a + (IF x = new.registrar THEN w ELSE 0)
  <2>1. Held(J, x, "deposit") = Held(I, x, "deposit")
            + (IF new.registrar = x /\ new.typ = "deposit" THEN new.balance ELSE 0)
    BY LongerHolds
  <2>2. QED
    BY <1>1, <1>3, <2>1
<1>5. Held(J, x, "account") = b
  <2>1. Held(J, x, "account") = Held(I, x, "account")
            + (IF new.registrar = x /\ new.typ = "account" THEN new.balance ELSE 0)
    BY LongerHolds
  <2>2. QED
    BY <1>1, <2>1
<1>6. c = a - b - o
  BY <1>1, <1>2 DEF Ledger
<1>7. credits2[x] = c + (IF x = new.registrar THEN w ELSE 0)
  BY <1>2, <1>3 DEF Credited
<1>8. credits2[x] = a + (IF x = new.registrar THEN w ELSE 0) - b - o
  BY <1>6, <1>7
<1>9. QED
  BY <1>2, <1>4, <1>5, <1>8

LEMMA CreditKeepsOwes ==
    ASSUME NEW q \in Nat, NEW O \in [1 .. q -> Operation],
           NEW credits \in [Registrars -> Int], NEW credits2, NEW r, NEW sum \in Nat,
           Credited(credits, credits2, r, sum), Owes(O, credits)
    PROVE  Owes(O, credits2)
<1> SUFFICES ASSUME NEW x \in Registrars
             PROVE  credits2[x] + SumOn(Px(O), Late(O, x)) >= 0
  BY DEF Owes
<1>1. PICK o \in Int, c \in Int : o = SumOn(Px(O), Late(O, x)) /\ c = credits[x]
  BY PxAreNat, SumOnIsInt
<1>2. c + o >= 0
  BY <1>1 DEF Owes
<1>3. credits2[x] = c + (IF x = r THEN sum ELSE 0)
  BY <1>1 DEF Credited
<1>4. QED
  BY <1>1, <1>2, <1>3

LEMMA DebtsKeepAddsUp ==
    ASSUME NEW n \in Nat, NEW I \in [1 .. n -> Invoice], NEW P \in [1 .. n -> Invoice],
           NEW d \in [1 .. n -> Nat], Lowered(I, P, d, n), NEW r,
           OnlyOf(d, I, r, "account", n), NEW O, NEW C, AddsUp(I, O, C, n)
    PROVE  AddsUp(P, O, C, n)
<1> SUFFICES ASSUME NEW i \in 1 .. n PROVE AddsUpAt(P, O, C, n, i)
  BY DEF AddsUp
<1>1. AddsUpAt(I, O, C, n, i)
  BY DEF AddsUp
<1>2. /\ P[i].typ = I[i].typ /\ P[i].operations_price = I[i].operations_price
      /\ P[i].total = I[i].total /\ P[i].balance + d[i] = I[i].balance
  BY DEF Lowered
<1>3. P[i].balance \in Nat /\ I[i].balance \in Nat /\ I[i].total \in Nat /\ d[i] \in Nat
  BY DEF Invoice
<1>4. CASE I[i].typ = "account"
  <2>1. P[i].balance <= P[i].total
    <3>1. I[i].balance <= I[i].total
      BY <1>1, <1>4 DEF AddsUpAt
    <3>2. QED
      BY <1>2, <1>3, <3>1
  <2>2. QED
    BY <1>1, <1>2, <1>4, <2>1 DEF AddsUpAt
<1>5. CASE I[i].typ # "account"
  <2>1. d[i] = 0
    BY <1>5 DEF OnlyOf
  <2>2. P[i].balance = I[i].balance
    BY <1>2, <1>3, <2>1
  <2>3. QED
    BY <1>1, <1>2, <1>5, <2>2 DEF AddsUpAt
<1>6. QED
  BY <1>4, <1>5

(* The credit payments: between invoices there are.                        *)
Mapped(C, n) ==
    DOMAIN C \subseteq (1 .. n) \X (1 .. n) /\ \A p \in DOMAIN C : C[p] \in Nat

LEMMA PaidIsNat ==
    ASSUME NEW n \in Nat, NEW C, Mapped(C, n)
    PROVE  /\ \A i, j : Paid(C, i, j) \in Nat
           /\ \A i : PaidOf(C, i, n) \in [1 .. n -> Nat]
           /\ \A i : PaidBy(C, i, n) \in [1 .. n -> Nat]
           /\ \A i : Paid(C, i, n + 1) = 0 /\ Paid(C, n + 1, i) = 0
<1>1. \A i, j : Paid(C, i, j) \in Nat
  BY DEF Paid, Mapped
<1>2. n + 1 \notin 1 .. n
  OBVIOUS
<1>3. \A i : Paid(C, i, n + 1) = 0 /\ Paid(C, n + 1, i) = 0
  BY <1>2 DEF Paid, Mapped
<1>4. QED
  BY <1>1, <1>3 DEF PaidOf, PaidBy

(* C2 extends C by an invoice: row and column i get one more entry, c.     *)
RowGrows(C, C2, n, i, c) ==
    Paid(C2, i, n + 1) = c /\ \A j \in 1 .. n : Paid(C2, i, j) = Paid(C, i, j)
ColumnGrows(C, C2, n, i, c) ==
    Paid(C2, n + 1, i) = c /\ \A j \in 1 .. n : Paid(C2, j, i) = Paid(C, j, i)

LEMMA MorePaid ==
    ASSUME NEW n \in Nat, NEW C, Mapped(C, n), NEW C2, NEW i, NEW c \in Nat
    PROVE  /\ RowGrows(C, C2, n, i, c) =>
                  SumSeq(PaidOf(C2, i, n + 1)) = SumSeq(PaidOf(C, i, n)) + c
           /\ ColumnGrows(C, C2, n, i, c) =>
                  SumSeq(PaidBy(C2, i, n + 1)) = SumSeq(PaidBy(C, i, n)) + c
<1>1. /\ n + 1 \in 1 .. n + 1 /\ (\A j \in 1 .. n : j \in 1 .. n + 1)
  OBVIOUS
<1>2. ASSUME RowGrows(C, C2, n, i, c)
      PROVE  SumSeq(PaidOf(C2, i, n + 1)) = SumSeq(PaidOf(C, i, n)) + c
  <2>1. PICK w, v : w = PaidOf(C, i, n) /\ v = PaidOf(C2, i, n + 1)
    OBVIOUS
  <2>2. w \in [1 .. n -> Nat]
    BY <2>1, PaidIsNat
  <2>3. LongerBy(w, v, c, n)
    BY <1>1, <1>2, <2>1 DEF PaidOf, RowGrows, LongerBy
  <2>4. QED
    BY <2>1, <2>2, <2>3, LongerSums
<1>3. ASSUME ColumnGrows(C, C2, n, i, c)
      PROVE  SumSeq(PaidBy(C2, i, n + 1)) = SumSeq(PaidBy(C, i, n)) + c
  <2>1. PICK w, v : w = PaidBy(C, i, n) /\ v = PaidBy(C2, i, n + 1)
    OBVIOUS
  <2>2. w \in [1 .. n -> Nat]
    BY <2>1, PaidIsNat
  <2>3. LongerBy(w, v, c, n)
    BY <1>1, <1>3, <2>1 DEF PaidBy, ColumnGrows, LongerBy
  <2>4. QED
    BY <2>1, <2>2, <2>3, LongerSums
<1>4. QED
  BY <1>2, <1>3

LEMMA PaidSumsAreNat ==
    ASSUME NEW n \in Nat, NEW C, Mapped(C, n), NEW i
    PROVE  SumSeq(PaidOf(C, i, n)) \in Nat /\ SumSeq(PaidBy(C, i, n)) \in Nat
<1>1. PICK w, v : w = PaidOf(C, i, n) /\ v = PaidBy(C, i, n)
  OBVIOUS
<1>2. w \in [1 .. n -> Nat] /\ v \in [1 .. n -> Nat]
  BY <1>1, PaidIsNat
<1>3. QED
  BY <1>1, <1>2, SumIsNat

LEMMA DepositKeepsAddsUp ==
    ASSUME NEW n \in Nat, NEW I \in [1 .. n -> Invoice], NEW new \in Invoice, NEW J,
           LongerBy(I, J, new, n), new.typ = "deposit", new.total = new.balance,
           NEW O, NEW C, Mapped(C, n), AddsUp(I, O, C, n), AccountedUpTo(O, n)
    PROVE  AddsUp(J, O, C, n + 1) /\ AccountedUpTo(O, n + 1)
<1>1. ASSUME NEW i \in 1 .. n PROVE AddsUpAt(J, O, C, n + 1, i)
  <2>1. AddsUpAt(I, O, C, n, i) /\ J[i] = I[i]
    BY DEF AddsUp, LongerBy
  <2>2. 0 \in Nat /\ RowGrows(C, C, n, i, 0) /\ ColumnGrows(C, C, n, i, 0)
    BY PaidIsNat DEF RowGrows, ColumnGrows
  <2>3. /\ SumSeq(PaidOf(C, i, n + 1)) = SumSeq(PaidOf(C, i, n)) + 0
        /\ SumSeq(PaidBy(C, i, n + 1)) = SumSeq(PaidBy(C, i, n)) + 0
    BY <2>2, MorePaid
  <2>4. /\ SumSeq(PaidOf(C, i, n + 1)) = SumSeq(PaidOf(C, i, n))
        /\ SumSeq(PaidBy(C, i, n + 1)) = SumSeq(PaidBy(C, i, n))
    BY <2>3, PaidSumsAreNat
  <2>5. QED
    BY <2>1, <2>4 DEF AddsUpAt
<1>2. AddsUpAt(J, O, C, n + 1, n + 1)
  <2>1. J[n + 1] = new
    BY DEF LongerBy
  <2>2. PICK v : v = PaidBy(C, n + 1, n + 1)
    OBVIOUS
  <2>3. DOMAIN v = 1 .. n + 1 /\ \A j \in 1 .. n + 1 : v[j] = 0
    BY <2>2, PaidIsNat DEF PaidBy
  <2>4. SumSeq(v) = 0
    <3>1. n + 1 \in Nat
      OBVIOUS
    <3>2. QED
      BY <2>3, <3>1, ZerosSum
  <2>5. new.total = new.balance + SumSeq(v)
    <3>1. new.balance \in Nat
      BY DEF Invoice
    <3>2. QED
      BY <2>4, <3>1
  <2>6. J[n + 1].typ # "account" /\ J[n + 1].total = J[n + 1].balance + SumSeq(v)
    BY <2>1, <2>5
  <2>7. QED
    BY <2>2, <2>6 DEF AddsUpAt
<1>3. AccountedUpTo(O, n + 1)
  <2>1. \A i \in 0 .. n : i \in 0 .. n + 1
    OBVIOUS
  <2>2. QED
    BY <2>1 DEF AccountedUpTo
<1>4. \A i \in 1 .. n + 1 : i \in 1 .. n \/ i = n + 1
  OBVIOUS
<1>5. QED
  BY <1>1, <1>2, <1>3, <1>4 DEF AddsUp

(* The operations ops, of r and open, are accounted to invoice id.         *)
Invoiced(O, O2, ops, id, q) ==
    /\ DOMAIN O2 = 1 .. q
    /\ \A k \in 1 .. q :
           /\ O2[k].registrar = O[k].registrar /\ O2[k].operation = O[k].operation
           /\ O2[k].price = O[k].price /\ O2[k].crdate = O[k].crdate
           /\ O2[k].ac_invoice = IF k \in ops THEN id ELSE O[k].ac_invoice

LessOpen(O, O2, ops, r) ==
    /\ Px(O2) = Px(O)
    /\ \A x : Late(O2, x) = Late(O, x)
    /\ \A x : SumOn(Px(O), Open(O, x)) =
                  SumOn(Px(O), Open(O2, x)) + (IF x = r THEN SumOn(Px(O), ops) ELSE 0)

LEMMA InvoicedSums ==
    ASSUME NEW q \in Nat, NEW O \in [1 .. q -> Operation], NEW ops, NEW r, ops \subseteq Open(O, r),
           NEW id \in Nat \ {0}, NEW O2, Invoiced(O, O2, ops, id, q)
    PROVE  LessOpen(O, O2, ops, r)
<1> SUFFICES ASSUME NEW x
             PROVE  /\ Px(O2) = Px(O) /\ Late(O2, x) = Late(O, x)
                    /\ SumOn(Px(O), Open(O, x)) =
                           SumOn(Px(O), Open(O2, x)) + (IF x = r THEN SumOn(Px(O), ops) ELSE 0)
  BY DEF LessOpen
<1>1. Px(O2) = Px(O)
  BY DEF Px, Invoiced
<1>2. Late(O2, x) = Late(O, x)
  BY DEF Late, Invoiced
<1>3. PICK w : w = Px(O) /\ w \in [1 .. q -> Nat] /\ Integers(w, q)
  BY PxAreNat
<1>4. PICK S, T : S = Open(O, x) /\ T = Open(O2, x)
  OBVIOUS
<1>5. \A k \in 1 .. q : w[k] \in Nat
  BY <1>3
<1>6. CASE x = r
  <2>1. \A k \in 1 .. q : (k \in S <=> k \in T \/ k \in ops) /\ ~(k \in T /\ k \in ops)
    BY <1>4, <1>6 DEF Open, Invoiced
  <2>2. Together(w, S, w, T, w, ops, q)
    BY <1>5, <2>1 DEF Together, At
  <2>3. SumOn(w, S) = SumOn(w, T) + SumOn(w, ops)
    BY <1>3, <2>2, SumOnTogether
  <2>4. QED
    BY <1>1, <1>2, <1>3, <1>4, <1>6, <2>3
<1>7. CASE x # r
  <2>1. S = T
    BY <1>4, <1>7 DEF Open, Invoiced
  <2>2. SumOn(w, T) \in Nat
    BY <1>3, SumOnIsNat
  <2>3. SumOn(w, S) = SumOn(w, T) + 0
    BY <2>1, <2>2
  <2>4. QED
    BY <1>1, <1>2, <1>3, <1>4, <1>7, <2>3
<1>8. QED
  BY <1>6, <1>7

LEMMA InvoicingKeepsLedger ==
    ASSUME NEW n \in Nat, NEW I \in [1 .. n -> Invoice], NEW P \in [1 .. n -> Invoice],
           NEW cc \in [1 .. n -> Nat], Lowered(I, P, cc, n), NEW r,
           OnlyOf(cc, I, r, "deposit", n),
           NEW new \in Invoice, NEW J, LongerBy(P, J, new, n),
           new.typ = "account", new.registrar = r,
           NEW q \in Nat, NEW O \in [1 .. q -> Operation], NEW ops, ops \subseteq Open(O, r),
           NEW id \in Nat \ {0}, NEW O2, Invoiced(O, O2, ops, id, q),
           NEW credits \in [Registrars -> Int], NEW paid \in Nat, paid = SumSeq(cc),
           SumOn(Px(O), ops) = new.balance + paid, Ledger(I, O, credits)
    PROVE  Ledger(J, O2, credits)
<1> SUFFICES ASSUME NEW x \in Registrars
             PROVE  credits[x] = Held(J, x, "deposit") - Held(J, x, "account")
                                      - SumOn(Px(O2), Open(O2, x))
  BY DEF Ledger
<1>1. PICK a \in Int, b \in Int : a = Held(P, x, "deposit") /\ b = Held(P, x, "account")
  BY HeldIsInt
<1>2. PICK o \in Int, c \in Int : o = SumOn(Px(O), Open(O2, x)) /\ c = credits[x]
  BY PxAreNat, SumOnIsInt
<1>3. PICK w \in Nat : w = new.balance
  BY DEF Invoice
<1>4. Drained(I, P, r, "deposit", paid)
  BY HeldAfterLowering
<1>5. /\ Held(I, x, "deposit") = a + (IF x = r THEN paid ELSE 0)
      /\ Held(I, x, "account") = b
  BY <1>1, <1>4 DEF Drained
<1>6. Held(J, x, "deposit") = a
  <2>1. Held(J, x, "deposit") = Held(P, x, "deposit")
            + (IF new.registrar = x /\ new.typ = "deposit" THEN new.balance ELSE 0)
    BY LongerHolds, SMTT(30)
  <2>2. QED
    BY <1>1, <2>1
<1>7. Held(J, x, "account") = b + (IF x = r THEN w ELSE 0)
  <2>1. Held(J, x, "account") = Held(P, x, "account")
            + (IF new.registrar = x /\ new.typ = "account" THEN new.balance ELSE 0)
    BY LongerHolds, SMTT(30)
  <2>2. QED
    BY <1>1, <1>3, <2>1
<1>8. SumOn(Px(O), Open(O, x)) = o + (IF x = r THEN w + paid ELSE 0) /\ Px(O2) = Px(O)
  <2>1. LessOpen(O, O2, ops, r)
    BY InvoicedSums
  <2>2. QED
    BY <1>2, <1>3, <2>1 DEF LessOpen
<1>9. PICK h, k, m : /\ h = Held(I, x, "deposit") /\ k = Held(I, x, "account")
                     /\ m = SumOn(Px(O), Open(O, x)) /\ c = h - k - m
  BY <1>2 DEF Ledger
<1>10. c = a - (b + (IF x = r THEN w ELSE 0)) - o
  <2>1. CASE x = r
    <3>1. h = a + paid /\ k = b
      BY <1>5, <1>9, <2>1
    <3>2. m = o + (w + paid)
      <4>1. PICK e : e = IF x = r THEN w + paid ELSE 0
        OBVIOUS
      <4>2. m = o + e
        BY <1>8, <1>9, <4>1
      <4>3. e = w + paid
        BY <2>1, <4>1
      <4>4. QED
        BY <4>2, <4>3
    <3>3. c = h - k - m
      BY <1>9
    <3>4. c = a - (b + w) - o
      BY <3>1, <3>2, <3>3, SMTT(30)
    <3>5. QED
      BY <2>1, <3>4
  <2>2. CASE x # r
    <3>1. h = a + 0 /\ k = b /\ m = o + 0
      BY <1>5, <1>8, <1>9, <2>2
    <3>2. c = h - k - m
      BY <1>9
    <3>3. c = a - (b + 0) - o
      BY <3>1, <3>2
    <3>4. QED
      BY <2>2, <3>3
  <2>3. QED
    BY <2>1, <2>2
<1>11. QED
  BY <1>2, <1>6, <1>7, <1>8, <1>10

LEMMA InvoicingKeepsOwes ==
    ASSUME NEW q \in Nat, NEW O \in [1 .. q -> Operation], NEW ops, NEW r, ops \subseteq Open(O, r),
           NEW id \in Nat \ {0}, NEW O2, Invoiced(O, O2, ops, id, q), NEW credits, Owes(O, credits)
    PROVE  Owes(O2, credits)
<1>1. LessOpen(O, O2, ops, r)
  BY InvoicedSums
<1>2. QED
  BY <1>1 DEF Owes, LessOpen

(* The new invoice is paid by the advances, as cc says.                    *)
PaidMore(C, C2, cc, n) ==
    /\ \A i, j \in 1 .. n : Paid(C2, i, j) = Paid(C, i, j)
    /\ \A j \in 1 .. n : Paid(C2, n + 1, j) = cc[j]
    /\ \A i \in 1 .. n + 1 : Paid(C2, i, n + 1) = 0

LEMMA InvoicingKeepsAddsUp ==
    ASSUME NEW n \in Nat, NEW I \in [1 .. n -> Invoice], NEW P \in [1 .. n -> Invoice],
           NEW cc \in [1 .. n -> Nat], Lowered(I, P, cc, n), NEW r,
           OnlyOf(cc, I, r, "deposit", n),
           NEW new \in Invoice, NEW J, LongerBy(P, J, new, n),
           new.typ = "account", new.total = new.balance,
           NEW q \in Nat, NEW O \in [1 .. q -> Operation], NEW ops, ops \subseteq Open(O, r),
           NEW O2, Invoiced(O, O2, ops, n + 1, q),
           NEW C, Mapped(C, n), NEW C2, PaidMore(C, C2, cc, n),
           NEW paid \in Nat, paid = SumSeq(cc),
           SumOn(Px(O), ops) = new.balance + paid, new.operations_price = SumOn(Px(O), ops),
           AddsUp(I, O, C, n), AccountedUpTo(O, n)
    PROVE  AddsUp(J, O2, C2, n + 1) /\ AccountedUpTo(O2, n + 1)
<1>1. /\ n + 1 \in 1 .. n + 1 /\ (\A i \in 1 .. n : i \in 1 .. n + 1 /\ i # n + 1 /\ i # 0)
      /\ (\A i \in 1 .. n + 1 : i \in 1 .. n \/ i = n + 1)
      /\ (\A i \in 0 .. n : i \in 0 .. n + 1 /\ i # n + 1)
      /\ n + 1 \in 0 .. n + 1 /\ n + 1 \in Nat \ {0}
  OBVIOUS
<1>2. Px(O2) = Px(O)
  BY DEF Px, Invoiced
<1>3. ASSUME NEW i \in 1 .. n PROVE AddsUpAt(J, O2, C2, n + 1, i)
  <2>1. AddsUpAt(I, O, C, n, i) /\ J[i] = P[i]
    BY DEF AddsUp, LongerBy
  <2>2. /\ P[i].typ = I[i].typ /\ P[i].operations_price = I[i].operations_price
        /\ P[i].total = I[i].total /\ P[i].balance + cc[i] = I[i].balance
    BY DEF Lowered
  <2>3. P[i].balance \in Nat /\ I[i].balance \in Nat /\ I[i].total \in Nat /\ cc[i] \in Nat
    BY DEF Invoice
  <2>4. Accounted(O2, i) = Accounted(O, i)
    BY <1>1, SMTT(30) DEF Accounted, Invoiced, Open
  <2>5. CASE I[i].typ = "account"
    <3>1. P[i].balance <= P[i].total
      <4>1. I[i].balance <= I[i].total
        BY <2>1, <2>5 DEF AddsUpAt
      <4>2. QED
        BY <2>2, <2>3, <4>1
    <3>2. 0 \in Nat /\ RowGrows(C, C2, n, i, 0)
      BY <1>1 DEF RowGrows, PaidMore
    <3>3. SumSeq(PaidOf(C2, i, n + 1)) = SumSeq(PaidOf(C, i, n)) + 0
      BY <3>2, MorePaid
    <3>4. SumSeq(PaidOf(C2, i, n + 1)) = SumSeq(PaidOf(C, i, n))
      BY <3>3, PaidSumsAreNat
    <3>5. QED
      BY <1>2, <2>1, <2>2, <2>4, <2>5, <3>1, <3>4 DEF AddsUpAt
  <2>6. CASE I[i].typ # "account"
    <3>1. PICK c \in Nat : c = cc[i]
      BY <2>3
    <3>2. ColumnGrows(C, C2, n, i, c)
      BY <1>1, <3>1 DEF ColumnGrows, PaidMore
    <3>3. SumSeq(PaidBy(C2, i, n + 1)) = SumSeq(PaidBy(C, i, n)) + c
      BY <3>2, MorePaid
    <3>4. PICK y \in Nat : y = SumSeq(PaidBy(C, i, n))
      BY PaidSumsAreNat
    <3>5. I[i].total = I[i].balance + y
      BY <2>1, <2>6, <3>4 DEF AddsUpAt
    <3>6. P[i].total = P[i].balance + (y + c)
      BY <2>2, <2>3, <3>1, <3>5, SMTT(30)
    <3>7. QED
      BY <2>1, <2>2, <2>6, <3>3, <3>4, <3>6 DEF AddsUpAt
  <2>7. QED
    BY <2>5, <2>6
<1>4. AddsUpAt(J, O2, C2, n + 1, n + 1)
  <2>1. J[n + 1] = new
    BY DEF LongerBy
  <2>2. Accounted(O2, n + 1) = ops
    <3>1. \A k \in 1 .. q : O[k].ac_invoice # n + 1
      BY <1>1 DEF AccountedUpTo
    <3>2. ops \subseteq 1 .. q
      BY DEF Open
    <3>3. QED
      BY <3>1, <3>2 DEF Accounted, Invoiced
  <2>3. PICK v : v = PaidOf(C2, n + 1, n + 1)
    OBVIOUS
  <2>4. LongerBy(cc, v, 0, n)
    BY <1>1, <2>3 DEF PaidOf, PaidMore, LongerBy
  <2>5. SumSeq(v) = paid + 0
    <3>1. 0 \in Nat
      OBVIOUS
    <3>2. QED
      BY <2>4, <3>1, LongerSums
  <2>6. /\ new.operations_price = SumOn(Px(O2), Accounted(O2, n + 1))
        /\ new.operations_price = new.total + SumSeq(v)
        /\ new.balance <= new.total
    <3>1. new.balance \in Nat
      BY DEF Invoice
    <3>2. QED
      BY <1>2, <2>2, <2>5, <3>1
  <2>7. QED
    BY <2>1, <2>3, <2>6 DEF AddsUpAt
<1>5. AccountedUpTo(O2, n + 1)
  BY <1>1 DEF AccountedUpTo, Invoiced
<1>6. QED
  BY <1>1, <1>3, <1>4, <1>5 DEF AddsUp

LEMMA BooksInit == Init => BooksInv
<1> SUFFICES ASSUME Init PROVE BooksInv
  OBVIOUS
<1>1. PICK I, O : I = invoice /\ O = invoice_operation /\ I = << >> /\ O = << >>
  BY DEF Init
<1>2. DOMAIN I = 1 .. 0 /\ DOMAIN O = 1 .. 0 /\ Len(invoice) = 0
  BY <1>1
<1>3. \A S : SumOn(Bal(I), S) = 0 /\ SumOn(Px(O), S) = 0
  <2>1. ASSUME NEW w, DOMAIN w = 1 .. 0, NEW S PROVE SumOn(w, S) = 0
    <3>1. Integers(w, 0) /\ \A i \in 1 .. 0 : At(w, S, i) = 0
      BY <2>1 DEF Integers
    <3>2. QED
      BY <3>1, SumOnNothing
  <2>2. PICK u, v : u = Bal(I) /\ v = Px(O) /\ DOMAIN u = 1 .. 0 /\ DOMAIN v = 1 .. 0
    BY <1>2 DEF Bal, Px
  <2>3. QED
    BY <2>1, <2>2
<1>4. Ledger(I, O, registrar_credit) /\ Owes(O, registrar_credit)
  BY <1>3 DEF Ledger, Owes, Held, Init
<1>5. AddsUp(invoice, invoice_operation, credit_payment_map, Len(invoice))
  BY <1>2 DEF AddsUp
<1>6. AccountedUpTo(invoice_operation, Len(invoice))
  BY <1>1, <1>2 DEF AccountedUpTo
<1>7. Numbered(invoice, invoice_prefix)
  <2> SUFFICES ASSUME NEW p \in NumberSeries PROVE NumberedAt(I, invoice_prefix[p], p)
    BY <1>1 DEF Numbered
  <2>1. IssuedIn(I, p) = {}
    BY <1>1 DEF IssuedIn
  <2>2. Cardinality({}) = 0
    BY FS_EmptySet
  <2>3. PICK f \in Nat : f = FirstNumber(p[2])
    <3>1. PICK d \in Days : p[2] = Year(d)
      BY DEF NumberSeries
    <3>2. QED
      BY <3>1, YearsAreNat
  <2>4. invoice_prefix[p] # 0 => invoice_prefix[p] = f
    BY <2>3 DEF Init
  <2>5. QED
    BY <2>1, <2>2, <2>3, <2>4 DEF NumberedAt
<1>8. QED
  BY <1>1, <1>4, <1>5, <1>6, <1>7 DEF BooksInv

LEMMA ChargeKeepsBooks ==
    ASSUME AccountsInv, BooksInv, NEW r \in Registrars, NEW op \in DOMAIN PriceList,
           NEW quantity \in Nat, NEW crdate \in Days, NEW period \in Days,
           \/ PriceList[op].postpaid \/ PriceList[op].price * quantity = 0
           \/ registrar_credit[r] >= PriceList[op].price * quantity,
           Charge(r, op, quantity, crdate, period),
           UNCHANGED <<invoice, invoice_prefix, credit_payment_map>>
    PROVE  BooksInv'
<1>1. PICK price \in Nat : price = PriceList[op].price * quantity
  BY AccountingAssumption
<1>2. op \in EppOperations \cup Fees
  BY AccountingAssumption
<1>3. PICK new : new = [registrar |-> r, operation |-> op, price |-> price,
                        crdate |-> crdate, period |-> period, ac_invoice |-> 0]
  OBVIOUS
<1>4. new \in Operation
  BY <1>2, <1>3 DEF Operation
<1>5. TypeOK
  BY DEF AccountsInv
<1>6. PICK n, q : /\ n \in Nat /\ n = Len(invoice) /\ DOMAIN invoice = 1 .. n
                  /\ q \in Nat /\ q = Len(invoice_operation)
                  /\ DOMAIN invoice_operation = 1 .. q
  BY <1>5, TablesAreNumbered
<1>7. PICK I, O, C, credits, next :
          /\ I = invoice /\ O = invoice_operation /\ C = credit_payment_map
          /\ credits = registrar_credit /\ next = invoice_prefix
  OBVIOUS
<1>8. PICK O2, credits2 : O2 = invoice_operation' /\ credits2 = registrar_credit'
  OBVIOUS
<1>9. /\ invoice' = I /\ credit_payment_map' = C /\ invoice_prefix' = next /\ Len(invoice') = n
  BY <1>6, <1>7
<1>10. I \in [1 .. n -> Invoice] /\ O \in [1 .. q -> Operation] /\ credits \in [Registrars -> Int]
  BY <1>5, <1>6, <1>7 DEF TypeOK
<1>11. LongerBy(O, O2, new, q)
  <2>1. O2 = Append(invoice_operation, new)
    BY <1>1, <1>3, <1>8 DEF Charge
  <2>2. QED
    BY <1>4, <1>5, <1>6, <1>7, <2>1 DEF LongerBy, TypeOK
<1>12. new.registrar = r /\ new.price = price /\ new.ac_invoice = 0 /\ new.operation = op
  BY <1>3
<1>13. Credited(credits, credits2, new.registrar, - new.price)
  <2>1. credits2 = [credits EXCEPT ![r] = credits[r] - price]
    BY <1>1, <1>7, <1>8 DEF Charge
  <2>2. \A x \in Registrars : credits[x] \in Int
    BY <1>10
  <2>3. QED
    BY <1>10, <1>12, <2>1, <2>2 DEF Credited
<1>14. /\ Ledger(I, O, credits) /\ Owes(O, credits) /\ AddsUp(I, O, C, n)
       /\ Numbered(I, next) /\ AccountedUpTo(O, n)
  BY <1>6, <1>7 DEF BooksInv
<1>15. Ledger(I, O2, credits2)
  BY <1>4, <1>6, <1>10, <1>11, <1>12, <1>13, <1>14, ChargeKeepsLedger
<1>16. Owes(O2, credits2)
  <2>1. \/ PriceList[new.operation].postpaid \/ new.price = 0
        \/ credits[new.registrar] >= new.price
    BY <1>1, <1>7, <1>12
  <2>2. QED
    BY <1>4, <1>6, <1>10, <1>11, <1>13, <1>14, <2>1, ChargeKeepsOwes
<1>17. AddsUp(I, O2, C, n) /\ AccountedUpTo(O2, n)
  BY <1>4, <1>6, <1>10, <1>11, <1>12, <1>14, ChargeKeepsAddsUp
<1>18. QED
  BY <1>8, <1>9, <1>14, <1>15, <1>16, <1>17 DEF BooksInv

(* What a payment of r does to the n invoices I: P after the debts, J at   *)
(* the end.                                                                *)
PaymentMade(I, P, J, d, r, now, n) ==
    /\ P \in [1 .. n -> Invoice] /\ d \in [1 .. n -> Nat]
    /\ Lowered(I, P, d, n) /\ OnlyOf(d, I, r, "account", n)
    /\ \/ J = P
       \/ \E new \in Invoice :
              LongerBy(P, J, new, n) /\ new.typ = "deposit" /\ new.taxdate <= now

LEMMA PaymentKeepsBooks ==
    ASSUME AccountsInv, BooksInv, NEW uuid \in Uuids, NEW r \in Registrars,
           NEW price \in PaymentPrices, NEW taxdate \in Days,
           importPayment(uuid, r, price, taxdate)
    PROVE  /\ BooksInv'
           /\ \E P, d : PaymentMade(invoice, P, invoice', d, r, today, Len(invoice))
<1>1. price \in Nat /\ price > 0
  BY AccountingAssumption DEF importPayment, InvalidPayment
<1>2. /\ TypeOK /\ Balances
  BY TablesAreNumbered DEF AccountsInv
<1>3. PICK n, q : /\ n \in Nat /\ n = Len(invoice) /\ DOMAIN invoice = 1 .. n
                  /\ q \in Nat /\ q = Len(invoice_operation)
                  /\ DOMAIN invoice_operation = 1 .. q
  BY <1>2, TablesAreNumbered
<1>4. PICK s : s = DebtsPaid(r, price)
  OBVIOUS
<1>5. s \in PayingDebts(price)
  BY <1>1, <1>2, <1>3, <1>4, DebtsPaidStays
<1>6. PaidSoFar(r, s, n)
  BY <1>1, <1>2, <1>3, <1>4, DebtsPaidAddUp
<1>7. PICK I, O, C, credits, next, d :
          /\ I = invoice /\ O = invoice_operation /\ C = credit_payment_map
          /\ credits = registrar_credit /\ next = invoice_prefix /\ d = s.change
  OBVIOUS
<1>8. PICK J, credits2, next2 :
          J = invoice' /\ credits2 = registrar_credit' /\ next2 = invoice_prefix'
  OBVIOUS
<1>9. invoice_operation' = O /\ credit_payment_map' = C
  BY <1>7 DEF importPayment
<1>10. /\ I \in [1 .. n -> Invoice] /\ O \in [1 .. q -> Operation]
       /\ credits \in [Registrars -> Int] /\ next \in [NumberSeries -> Nat] /\ Mapped(C, n)
  <2>1. /\ I \in [1 .. n -> Invoice] /\ O \in [1 .. q -> Operation]
        /\ credits \in [Registrars -> Int] /\ next \in [NumberSeries -> Nat]
    BY <1>2, <1>3, <1>7 DEF TypeOK
  <2>2. Mapped(C, n)
    BY <1>2, <1>3, <1>7 DEF TypeOK, Mapped
  <2>3. QED
    BY <2>1, <2>2
<1>11. /\ d \in [1 .. n -> Nat] /\ s.rest \in Nat /\ s.credits \in Seq(Nat)
       /\ \A i \in 1 .. n : d[i] <= I[i].balance
  BY <1>3, <1>5, <1>7 DEF PayingDebts
<1>12. PICK sum : sum = SumSeq(d) /\ sum = SumSeq(s.credits) /\ sum \in Nat
  <2>1. SumSeq(d) \in Nat
    BY <1>3, <1>11, SumIsNat
  <2>2. QED
    BY <1>6, <1>7, <2>1 DEF PaidSoFar
<1>13. OnlyOf(d, I, r, "account", n)
  BY <1>3, <1>6, <1>7 DEF OnlyOf, PaidSoFar, UnpaidAccountInvoices
<1>14. PICK paid : paid = AfterDebts(s.change)
  OBVIOUS
<1>15. paid \in [1 .. n -> Invoice] /\ Lowered(I, paid, d, n)
  <2>1. paid = [i \in 1 .. n |-> [I[i] EXCEPT !.balance = I[i].balance - d[i]]]
    BY <1>3, <1>7, <1>14 DEF AfterDebts
  <2>2. ASSUME NEW i \in 1 .. n
        PROVE  /\ paid[i] \in Invoice
               /\ paid[i].registrar = I[i].registrar /\ paid[i].typ = I[i].typ
               /\ paid[i].taxdate = I[i].taxdate /\ paid[i].prefix = I[i].prefix
               /\ paid[i].operations_price = I[i].operations_price /\ paid[i].total = I[i].total
               /\ paid[i].balance + d[i] = I[i].balance
    <3>1. I[i] \in Invoice
      BY <1>10
    <3>2. I[i].balance \in Nat /\ d[i] \in Nat /\ d[i] <= I[i].balance
      BY <1>11, <3>1 DEF Invoice
    <3>3. PICK b \in Nat : b = I[i].balance - d[i] /\ b + d[i] = I[i].balance
      BY <3>2
    <3>4. paid[i] = [I[i] EXCEPT !.balance = b]
      BY <2>1, <3>3
    <3>5. QED
      BY <3>1, <3>3, <3>4 DEF Invoice
  <2>3. QED
    BY <2>1, <2>2 DEF Lowered
<1>16. /\ Ledger(I, O, credits) /\ Owes(O, credits) /\ AddsUp(I, O, C, n)
       /\ Numbered(I, next) /\ AccountedUpTo(O, n)
  BY <1>3, <1>7 DEF BooksInv
<1>17. PICK between : between = [x \in Registrars |-> credits[x] + (IF x = r THEN sum ELSE 0)]
  OBVIOUS
<1>18. between \in [Registrars -> Int] /\ Credited(credits, between, r, sum)
  BY <1>10, <1>12, <1>17 DEF Credited
<1>19. Ledger(paid, O, between)
  BY <1>3, <1>10, <1>11, <1>12, <1>13, <1>15, <1>16, <1>18, DebtsKeepLedger
<1>20. Owes(O, between)
  BY <1>3, <1>10, <1>12, <1>16, <1>18, CreditKeepsOwes
<1>21. AddsUp(paid, O, C, n)
  BY <1>3, <1>10, <1>11, <1>13, <1>15, <1>16, DebtsKeepAddsUp
<1>22. Numbered(paid, next)
  <2>1. DOMAIN I = 1 .. n /\ DOMAIN paid = 1 .. n
    BY <1>10, <1>15
  <2>2. QED
    BY <1>3, <1>15, <1>16, <2>1, LoweredIsNumbered
<1>23. PICK p : p = Prefix("deposit", taxdate)
  OBVIOUS
<1>24. PICK deposit \in Nat : deposit = WithoutVat(s.rest)
  <2>1. PICK u \in Nat : u = s.rest
    BY <1>11
  <2>2. QED
    BY <2>1, VatTakenOff
<1>25. CASE s.rest > 0
  <2>1. PICK new : new = NewInvoice(r, "deposit", taxdate, 0, deposit)
    OBVIOUS
  <2>2. /\ J = paid \o <<new>>
        /\ next[p] # 0 /\ taxdate <= today
        /\ next2 = [next EXCEPT ![p] = next[p] + 1]
        /\ credits2 = [credits EXCEPT ![r] = credits[r] + SumSeq(s.credits \o <<deposit>>)]
    BY <1>4, <1>7, <1>8, <1>14, <1>23, <1>24, <1>25, <2>1 DEF importPayment, ValidTaxDate
  <2>3. /\ new = [registrar |-> r, typ |-> "deposit", taxdate |-> taxdate, prefix |-> next[p],
                  operations_price |-> 0, total |-> deposit, balance |-> deposit]
    BY <1>7, <1>23, <2>1 DEF NewInvoice
  <2>4. /\ new.registrar = r /\ new.typ = "deposit" /\ new.taxdate = taxdate
        /\ new.prefix = next[p] /\ new.total = deposit /\ new.balance = deposit
    BY <2>3
  <2>5. p \in NumberSeries /\ next[p] \in Nat
    BY <1>10, <1>23, YearsAreNat DEF Types
  <2>6. new \in Invoice
    <3>1. next[p] \in Nat \ {0} /\ "deposit" \in Types /\ 0 \in Nat
      BY <2>2, <2>5 DEF Types
    <3>2. QED
      BY <2>3, <3>1 DEF Invoice
  <2>7. LongerBy(paid, J, new, n) /\ Len(J) = n + 1
    <3>1. paid \in Seq(Invoice) /\ Len(paid) = n
      <4>1. paid = [i \in 1 .. n |-> paid[i]] /\ \A i \in 1 .. n : paid[i] \in Invoice
        BY <1>15
      <4>2. QED
        BY <1>3, <4>1
    <3>2. paid \o <<new>> = Append(paid, new)
      BY <2>6, <3>1
    <3>3. QED
      BY <1>3, <2>2, <2>6, <3>1, <3>2 DEF LongerBy
  <2>8. Credited(between, credits2, new.registrar, new.balance)
    <3>1. s.credits \o <<deposit>> = Append(s.credits, deposit)
      BY <1>11
    <3>2. SumSeq(Append(s.credits, deposit)) = SumSeq(s.credits) + deposit
      BY <1>11, SumSeqOfAppend
    <3>3. credits2 = [credits EXCEPT ![r] = credits[r] + (sum + deposit)]
      BY <1>12, <2>2, <3>1, <3>2
    <3>4. ASSUME NEW x \in Registrars
          PROVE  credits2[x] = between[x] + (IF x = r THEN deposit ELSE 0)
      <4>1. PICK c \in Int : c = credits[x]
        BY <1>10
      <4>2. between[x] = c + (IF x = r THEN sum ELSE 0)
        BY <1>17, <4>1
      <4>3. credits2[x] = IF x = r THEN c + (sum + deposit) ELSE c
        BY <1>10, <3>3, <4>1
      <4>4. QED
        BY <1>12, <4>2, <4>3
    <3>5. QED
      BY <2>4, <3>4 DEF Credited
  <2>9. Ledger(J, O, credits2)
    BY <1>3, <1>10, <1>15, <1>18, <1>19, <2>4, <2>6, <2>7, <2>8, DepositKeepsLedger
  <2>10. Owes(O, credits2)
    <3>1. Credited(between, credits2, r, deposit)
      BY <2>4, <2>8
    <3>2. QED
      BY <1>3, <1>10, <1>18, <1>20, <3>1, CreditKeepsOwes
  <2>11. AddsUp(J, O, C, n + 1) /\ AccountedUpTo(O, n + 1)
    <3>1. new.total = new.balance
      BY <2>4
    <3>2. QED
      BY <1>3, <1>10, <1>15, <1>16, <1>21, <2>4, <2>6, <2>7, <3>1, DepositKeepsAddsUp
  <2>12. Numbered(J, next2)
    <3>1. p = Prefix(new.typ, new.taxdate) /\ DOMAIN paid = 1 .. n
      BY <1>15, <1>23, <2>4
    <3>2. NextTaken(next, next2, p)
      BY <1>10, <2>2, <2>5 DEF NextTaken
    <3>3. /\ n \in Nat /\ next \in [NumberSeries -> Nat] /\ Numbered(paid, next)
          /\ LongerBy(paid, J, new, n) /\ next[p] # 0 /\ new.prefix = next[p]
      BY <1>3, <1>10, <1>22, <2>2, <2>4, <2>7
    <3>4. QED
      BY <3>1, <3>2, <3>3, LongerIsNumbered
  <2>13. Len(invoice') = n + 1
    BY <1>8, <2>7
  <2>14. BooksInv'
    BY <1>8, <1>9, <2>9, <2>10, <2>11, <2>12, <2>13 DEF BooksInv
  <2>15. PaymentMade(invoice, paid, invoice', d, r, today, Len(invoice))
    BY <1>3, <1>7, <1>8, <1>11, <1>13, <1>15, <2>2, <2>4, <2>6, <2>7 DEF PaymentMade
  <2>16. QED
    BY <2>14, <2>15
<1>26. CASE ~(s.rest > 0)
  <2>1. /\ J = paid \o << >>
        /\ next2 = [next EXCEPT ![p] = next[p]]
        /\ credits2 = [credits EXCEPT ![r] = credits[r] + SumSeq(s.credits \o << >>)]
    BY <1>4, <1>7, <1>8, <1>14, <1>23, <1>26 DEF importPayment
  <2>2. J = paid /\ Len(J) = n
    <3>1. paid \in Seq(Invoice) /\ Len(paid) = n
      <4>1. paid = [i \in 1 .. n |-> paid[i]] /\ \A i \in 1 .. n : paid[i] \in Invoice
        BY <1>15
      <4>2. QED
        BY <1>3, <4>1
    <3>2. QED
      BY <2>1, <3>1
  <2>3. next2 = next
    BY <1>10, <2>1
  <2>4. credits2 = between
    <3>1. s.credits \o << >> = s.credits
      BY <1>11
    <3>2. credits2 = [credits EXCEPT ![r] = credits[r] + sum]
      BY <1>12, <2>1, <3>1
    <3>3. ASSUME NEW x \in Registrars PROVE credits2[x] = between[x]
      <4>1. PICK c \in Int : c = credits[x]
        BY <1>10
      <4>2. between[x] = c + (IF x = r THEN sum ELSE 0)
        BY <1>17, <4>1
      <4>3. credits2[x] = IF x = r THEN c + sum ELSE c
        BY <1>10, <3>2, <4>1
      <4>4. QED
        BY <1>12, <4>2, <4>3
    <3>4. /\ credits2 = [x \in Registrars |-> credits2[x]]
          /\ between = [x \in Registrars |-> between[x]]
      BY <1>10, <1>17, <3>2
    <3>5. QED
      BY <3>3, <3>4
  <2>5. Len(invoice') = n
    BY <1>8, <2>2
  <2>6. BooksInv'
    BY <1>8, <1>9, <1>16, <1>19, <1>20, <1>21, <1>22, <2>2, <2>3, <2>4, <2>5 DEF BooksInv
  <2>7. PaymentMade(invoice, paid, invoice', d, r, today, Len(invoice))
    BY <1>3, <1>7, <1>8, <1>11, <1>13, <1>15, <2>2 DEF PaymentMade
  <2>8. QED
    BY <2>6, <2>7
<1>27. QED
  BY <1>25, <1>26

LEMMA CreditPaymentsPaid ==
    ASSUME NEW n \in Nat, NEW C, C = credit_payment_map, Mapped(C, n),
           NEW advances, advances \subseteq 1 .. n, NEW s, NEW cc \in [1 .. n -> Nat],
           cc = s.credit_change, \A i \in 1 .. n : cc[i] # 0 => i \in advances,
           NEW id, id = n + 1, NEW C2, C2 = CreditPayments(id, advances, s)
    PROVE  PaidMore(C, C2, cc, n)
<1>1. PICK new : new = {<<id, i>> : i \in {j \in advances : s.credit_change[j] > 0}}
  OBVIOUS
<1>2. /\ DOMAIN C2 = DOMAIN C \cup new
      /\ \A p \in DOMAIN C2 : C2[p] = IF p \in new THEN cc[p[2]] ELSE C[p]
  BY <1>1 DEF CreditPayments
<1>3. id \notin 1 .. n /\ id \in 1 .. id
  OBVIOUS
<1>4. \A i, j : <<i, j>> \in new <=> i = id /\ j \in advances /\ cc[j] > 0
  BY <1>1
<1>5. \A i, j : <<i, j>> \in DOMAIN C => i \in 1 .. n /\ j \in 1 .. n
  BY DEF Mapped
<1>6. ASSUME NEW i \in 1 .. n, NEW j \in 1 .. n PROVE Paid(C2, i, j) = Paid(C, i, j)
  <2>1. <<i, j>> \notin new
    BY <1>3, <1>4
  <2>2. QED
    BY <1>2, <2>1 DEF Paid
<1>7. ASSUME NEW j \in 1 .. n PROVE Paid(C2, id, j) = cc[j]
  <2>1. <<id, j>> \notin DOMAIN C
    BY <1>3, <1>5
  <2>2. cc[j] \in Nat
    OBVIOUS
  <2>3. CASE cc[j] = 0
    <3>1. <<id, j>> \notin new
      BY <1>4, <2>3
    <3>2. QED
      BY <1>2, <2>1, <2>3, <3>1 DEF Paid
  <2>4. CASE cc[j] # 0
    <3>1. <<id, j>> \in new
      BY <1>4, <2>2, <2>4
    <3>2. C2[<<id, j>>] = cc[j]
      BY <1>2, <3>1
    <3>3. QED
      BY <1>2, <3>1, <3>2 DEF Paid
  <2>5. QED
    BY <2>3, <2>4
<1>8. ASSUME NEW i \in 1 .. id PROVE Paid(C2, i, id) = 0
  <2>1. <<i, id>> \notin DOMAIN C /\ <<i, id>> \notin new
    BY <1>3, <1>4, <1>5
  <2>2. QED
    BY <1>2, <2>1 DEF Paid
<1>9. QED
  BY <1>6, <1>7, <1>8 DEF PaidMore

(* The deposits of x dated up to a day, and what they hold.                *)
Early(I, x, d) ==
    {i \in DOMAIN I : I[i].registrar = x /\ I[i].typ = "deposit" /\ I[i].taxdate <= d}
Reserve(I, x, d) == SumOn(Bal(I), Early(I, x, d))

(* What an account invoice of r for ops does to the tables: P is I without *)
(* what the advances pay, J has the invoice too.  The waterfall says what  *)
(* is left to pay.                                                         *)
InvoiceMade(I, P, J, new, cc, O, O2, ops, r, taxdate, n, q) ==
    /\ P \in [1 .. n -> Invoice] /\ cc \in [1 .. n -> Nat] /\ new \in Invoice
    /\ Lowered(I, P, cc, n) /\ LongerBy(P, J, new, n) /\ Invoiced(O, O2, ops, n + 1, q)
    /\ new.registrar = r /\ new.typ = "account" /\ new.taxdate = taxdate
    /\ \A i \in 1 .. n : cc[i] # 0 => i \in Early(I, r, taxdate)
    /\ SumOn(Px(O), ops) = new.total + SumSeq(cc)
    /\ new.total = Monus(SumOn(Px(O), ops), Reserve(I, r, taxdate))

BilledFrom(r, from) == IF from = NoDate THEN DefaultFrom(r) ELSE from

LEMMA InvoicingKeepsBooks ==
    ASSUME AccountsInv, BooksInv, NEW r \in Registrars, NEW from \in Days \cup {NoDate},
           NEW to \in Days, NEW taxdate \in Days, createAccountInvoice(r, from, to, taxdate)
    PROVE  /\ BooksInv'
           /\ \E P, new, cc :
                  InvoiceMade(invoice, P, invoice', new, cc, invoice_operation, invoice_operation',
                              Unaccounted(r, BilledFrom(r, from), to), r, taxdate,
                              Len(invoice), Len(invoice_operation))
<1>1. TypeOK /\ Balances /\ DatedOperations
  BY TablesAreNumbered DEF AccountsInv
<1>2. PICK n, q : /\ n \in Nat /\ n = Len(invoice) /\ DOMAIN invoice = 1 .. n
                  /\ q \in Nat /\ q = Len(invoice_operation)
                  /\ DOMAIN invoice_operation = 1 .. q
  BY <1>1, TablesAreNumbered
<1>3. PICK I, O, C, credits, next :
          /\ I = invoice /\ O = invoice_operation /\ C = credit_payment_map
          /\ credits = registrar_credit /\ next = invoice_prefix
  OBVIOUS
<1>4. PICK J, O2, C2, next2 : /\ J = invoice' /\ O2 = invoice_operation'
                              /\ C2 = credit_payment_map' /\ next2 = invoice_prefix'
  OBVIOUS
<1>5. /\ I \in [1 .. n -> Invoice] /\ O \in [1 .. q -> Operation]
      /\ credits \in [Registrars -> Int] /\ next \in [NumberSeries -> Nat]
  BY <1>1, <1>2, <1>3 DEF TypeOK
<1>6. Mapped(C, n)
  BY <1>1, <1>2, <1>3 DEF TypeOK, Mapped
<1>7. PICK ops : ops = Unaccounted(r, IF from = NoDate THEN DefaultFrom(r) ELSE from, to)
  OBVIOUS
<1>8. ops \subseteq 1 .. q /\ ops \subseteq Open(O, r)
  BY <1>2, <1>3, <1>7 DEF Unaccounted, Open
<1>9. PICK c, prices : /\ c = Cardinality(ops) /\ prices = Prices(ops)
                       /\ c \in Nat /\ prices \in [1 .. c -> Nat]
  BY <1>1, <1>2, <1>8, PricesAreNat
<1>10. PICK advances : advances = Advances(r, taxdate) /\ advances \subseteq 1 .. n
  BY <1>2 DEF Advances
<1>11. PICK b : /\ b = AdvanceBalances(advances) /\ b \in [1 .. n -> Nat]
                /\ \A i \in 1 .. n : b[i] = IF i \in advances THEN I[i].balance ELSE 0
  <2>1. PICK b : b = AdvanceBalances(advances)
    OBVIOUS
  <2>2. b = [i \in 1 .. n |-> IF i \in advances THEN I[i].balance ELSE 0]
    BY <1>2, <1>3, <2>1 DEF AdvanceBalances
  <2>3. \A i \in 1 .. n : I[i].balance \in Nat
    BY <1>1, <1>2, <1>3 DEF Balances
  <2>4. b \in [1 .. n -> Nat] /\ \A i \in 1 .. n : b[i] = IF i \in advances THEN I[i].balance ELSE 0
    BY <2>2, <2>3
  <2>5. QED
    BY <2>1, <2>4
<1>12. PICK s : s = PullOff(prices, b)
  OBVIOUS
<1>13. s \in Pulling(n, b) /\ Covered(s) = SumSeq(prices)
  <2>1. n \in Nat /\ b \in [1 .. n -> Nat] /\ c \in Nat /\ prices \in [1 .. c -> Nat]
    BY <1>2, <1>9, <1>11
  <2>2. QED
    BY <1>12, <2>1, PullOffCovers
<1>14. PICK cc : /\ cc = s.credit_change /\ cc \in [1 .. n -> Nat] /\ s.price_left \in Nat
                 /\ \A i \in 1 .. n : s.balance[i] \in Nat /\ s.balance[i] + cc[i] = b[i]
  BY <1>13 DEF Pulling
<1>15. PICK left \in Nat, pulled \in Nat : left = s.price_left /\ pulled = SumSeq(cc)
  BY <1>2, <1>14, SumIsNat
<1>16. PICK sum : sum = SumSeq(prices) /\ sum = left + pulled /\ sum \in Nat
  BY <1>13, <1>14, <1>15 DEF Covered
<1>17. SumOn(Px(O), ops) = sum
  <2>1. OperationPrices = Px(O)
    BY <1>3 DEF OperationPrices, Px
  <2>2. SumSeq(Prices(ops)) = SumOn(OperationPrices, ops)
    BY <1>1, <1>2, <1>8, PricesAddUp
  <2>3. QED
    BY <1>9, <1>16, <2>1, <2>2
<1>18. PICK p, id : p = Prefix("account", taxdate) /\ id = n + 1
  OBVIOUS
<1>19. PICK new : new = NewInvoice(r, "account", taxdate, sum, left)
  OBVIOUS
<1>20. PICK paid : paid = [i \in DOMAIN invoice |->
           IF i \in advances THEN [invoice[i] EXCEPT !.balance = s.balance[i]] ELSE invoice[i]]
  OBVIOUS
<1>21. /\ next[p] # 0 /\ J = paid \o <<new>>
       /\ next2 = [next EXCEPT ![p] = next[p] + 1]
       /\ O2 = [i \in DOMAIN invoice_operation |->
                   IF i \in ops THEN [invoice_operation[i] EXCEPT !.ac_invoice = id]
                   ELSE invoice_operation[i]]
       /\ C2 = CreditPayments(id, advances, s)
       /\ registrar_credit' = credits
  BY <1>2, <1>3, <1>4, <1>7, <1>9, <1>10, <1>11, <1>12, <1>15, <1>16, <1>18, <1>19, <1>20
  DEF createAccountInvoice, InvoicesAfter
<1>22. ASSUME NEW i \in 1 .. n, i \notin advances PROVE cc[i] = 0
  <2>1. b[i] = 0 /\ cc[i] \in Nat /\ s.balance[i] \in Nat /\ s.balance[i] + cc[i] = b[i]
    BY <1>11, <1>14, <1>22
  <2>2. QED
    BY <2>1
<1>23. OnlyOf(cc, I, r, "deposit", n)
  BY <1>3, <1>10, <1>22 DEF OnlyOf, Advances
<1>24. paid \in [1 .. n -> Invoice] /\ Lowered(I, paid, cc, n)
  <2>1. DOMAIN paid = 1 .. n /\ paid = [i \in 1 .. n |-> paid[i]]
    BY <1>2, <1>20
  <2>2. ASSUME NEW i \in 1 .. n
        PROVE  /\ paid[i] \in Invoice
               /\ paid[i].registrar = I[i].registrar /\ paid[i].typ = I[i].typ
               /\ paid[i].taxdate = I[i].taxdate /\ paid[i].prefix = I[i].prefix
               /\ paid[i].operations_price = I[i].operations_price /\ paid[i].total = I[i].total
               /\ paid[i].balance + cc[i] = I[i].balance
    <3>1. I[i] \in Invoice /\ I[i].balance \in Nat
      BY <1>5 DEF Invoice
    <3>2. CASE i \in advances
      <4>1. PICK x \in Nat : x = s.balance[i] /\ x + cc[i] = I[i].balance
        BY <1>11, <1>14, <3>2
      <4>2. paid[i] = [I[i] EXCEPT !.balance = x]
        BY <1>2, <1>3, <1>20, <3>2, <4>1
      <4>3. QED
        BY <3>1, <4>1, <4>2 DEF Invoice
    <3>3. CASE i \notin advances
      <4>1. paid[i] = I[i] /\ cc[i] = 0
        BY <1>2, <1>3, <1>20, <1>22, <3>3
      <4>2. QED
        BY <3>1, <4>1
    <3>4. QED
      BY <3>2, <3>3
  <2>3. QED
    BY <2>1, <2>2 DEF Lowered
<1>25. /\ new = [registrar |-> r, typ |-> "account", taxdate |-> taxdate, prefix |-> next[p],
                 operations_price |-> sum, total |-> left, balance |-> left]
  BY <1>3, <1>18, <1>19 DEF NewInvoice
<1>26. /\ new.registrar = r /\ new.typ = "account" /\ new.taxdate = taxdate
       /\ new.prefix = next[p] /\ new.total = left /\ new.balance = left
       /\ new.operations_price = sum
  BY <1>25
<1>27. p \in NumberSeries /\ next[p] \in Nat \ {0}
  BY <1>5, <1>18, <1>21, YearsAreNat DEF Types
<1>28. new \in Invoice
  <2>1. "account" \in Types
    BY DEF Types
  <2>2. QED
    BY <1>16, <1>25, <1>27, <2>1 DEF Invoice
<1>29. LongerBy(paid, J, new, n) /\ Len(J) = n + 1
  <2>1. paid \in Seq(Invoice) /\ Len(paid) = n
    <3>1. paid = [i \in 1 .. n |-> paid[i]] /\ \A i \in 1 .. n : paid[i] \in Invoice
      BY <1>24
    <3>2. QED
      BY <1>2, <3>1
  <2>2. paid \o <<new>> = Append(paid, new)
    BY <1>28, <2>1
  <2>3. QED
    BY <1>2, <1>21, <1>28, <2>1, <2>2 DEF LongerBy
<1>30. Invoiced(O, O2, ops, id, q)
  <2>1. \A k \in 1 .. q : O[k] \in Operation
    BY <1>5
  <2>2. QED
    BY <1>2, <1>3, <1>21, <2>1 DEF Invoiced, Operation
<1>31. PaidMore(C, C2, cc, n)
  <2>1. \A i \in 1 .. n : cc[i] # 0 => i \in advances
    BY <1>22
  <2>2. QED
    BY <1>2, <1>3, <1>6, <1>10, <1>14, <1>18, <1>21, <2>1, CreditPaymentsPaid
<1>32. /\ Ledger(I, O, credits) /\ Owes(O, credits) /\ AddsUp(I, O, C, n)
       /\ Numbered(I, next) /\ AccountedUpTo(O, n)
  BY <1>2, <1>3 DEF BooksInv
<1>33. id \in Nat \ {0} /\ SumOn(Px(O), ops) = new.balance + pulled
  BY <1>2, <1>16, <1>17, <1>18, <1>26
<1>34. Ledger(J, O2, credits)
  <2>1. /\ n \in Nat /\ I \in [1 .. n -> Invoice] /\ paid \in [1 .. n -> Invoice]
        /\ cc \in [1 .. n -> Nat] /\ Lowered(I, paid, cc, n) /\ OnlyOf(cc, I, r, "deposit", n)
        /\ LongerBy(paid, J, new, n)
    BY <1>2, <1>5, <1>14, <1>23, <1>24, <1>29
  <2>2. /\ q \in Nat /\ O \in [1 .. q -> Operation] /\ ops \subseteq Open(O, r)
        /\ credits \in [Registrars -> Int]
    BY <1>2, <1>5, <1>8
  <2>3. new.typ = "account" /\ new.registrar = r
    BY <1>26
  <2>4. Ledger(I, O, credits)
    BY <1>32
  <2>5. QED
    BY <1>15, <1>28, <1>30, <1>33, <2>1, <2>2, <2>3, <2>4, InvoicingKeepsLedger, ZenonT(60)
<1>35. Owes(O2, credits)
  BY <1>2, <1>5, <1>8, <1>30, <1>32, <1>33, InvoicingKeepsOwes
<1>36. AddsUp(J, O2, C2, n + 1) /\ AccountedUpTo(O2, n + 1)
  <2>1. Invoiced(O, O2, ops, n + 1, q) /\ new.total = new.balance
        /\ new.operations_price = SumOn(Px(O), ops)
    BY <1>17, <1>18, <1>26, <1>30
  <2>2. /\ n \in Nat /\ I \in [1 .. n -> Invoice] /\ paid \in [1 .. n -> Invoice]
        /\ cc \in [1 .. n -> Nat] /\ Lowered(I, paid, cc, n) /\ OnlyOf(cc, I, r, "deposit", n)
        /\ LongerBy(paid, J, new, n)
    BY <1>2, <1>5, <1>14, <1>23, <1>24, <1>29
  <2>3. /\ q \in Nat /\ O \in [1 .. q -> Operation] /\ ops \subseteq Open(O, r)
    BY <1>2, <1>5, <1>8
  <2>4. new.typ = "account" /\ AddsUp(I, O, C, n) /\ AccountedUpTo(O, n)
    BY <1>26, <1>32
  <2>5. QED
    BY <1>6, <1>15, <1>28, <1>31, <1>33, <2>1, <2>2, <2>3, <2>4, InvoicingKeepsAddsUp
<1>37. Numbered(J, next2)
  <2>1. DOMAIN I = 1 .. n /\ DOMAIN paid = 1 .. n
    BY <1>5, <1>24
  <2>2. Numbered(paid, next)
    BY <1>2, <1>24, <1>32, <2>1, LoweredIsNumbered
  <2>3. p = Prefix(new.typ, new.taxdate) /\ NextTaken(next, next2, p)
    BY <1>5, <1>18, <1>21, <1>26, <1>27 DEF NextTaken
  <2>4. /\ n \in Nat /\ next \in [NumberSeries -> Nat]
        /\ LongerBy(paid, J, new, n) /\ next[p] # 0 /\ new.prefix = next[p]
    BY <1>2, <1>5, <1>21, <1>26, <1>29
  <2>5. QED
    BY <2>1, <2>2, <2>3, <2>4, LongerIsNumbered
<1>38. Len(invoice') = n + 1
  BY <1>4, <1>29
<1>39. BooksInv'
  BY <1>4, <1>21, <1>34, <1>35, <1>36, <1>37, <1>38 DEF BooksInv
<1>40. left = Monus(sum, SumSeq(b))
  <2>1. n \in Nat /\ b \in [1 .. n -> Nat] /\ c \in Nat /\ prices \in [1 .. c -> Nat]
    BY <1>2, <1>9, <1>11
  <2>2. PaidByWaterfall(prices, b)
    BY <2>1, LoopsAreWaterfall
  <2>3. IsWaterfall(prices, b, s)
    BY <1>12, <2>2 DEF PaidByWaterfall
  <2>4. QED
    BY <1>15, <1>16, <2>3 DEF IsWaterfall
<1>41. SumSeq(b) = Reserve(I, r, taxdate)
  <2>1. PICK w, S, T : w = Bal(I) /\ S = Early(I, r, taxdate) /\ T = 1 .. n
    OBVIOUS
  <2>2. Integers(w, n) /\ Integers(b, n)
    BY <1>2, <1>5, <1>11, <2>1, BalancesAreNat, NatsAreIntegers
  <2>3. ASSUME NEW i \in 1 .. n PROVE At(b, T, i) = At(w, S, i)
    <3>1. w[i] = I[i].balance /\ I[i].balance \in Nat
      BY <1>5, <2>1 DEF Bal, Invoice
    <3>2. i \in advances <=> i \in S /\ I[i].balance > 0
      BY <1>2, <1>3, <1>10, <2>1 DEF Advances, Early
    <3>3. b[i] = IF i \in advances THEN I[i].balance ELSE 0
      BY <1>11
    <3>4. QED
      BY <2>1, <3>1, <3>2, <3>3 DEF At
  <2>4. Alike(b, T, w, S, n)
    BY <2>3 DEF Alike
  <2>5. SumOn(b, T) = SumOn(w, S)
    BY <1>2, <2>2, <2>4, SumOnAlike
  <2>6. SumOn(b, T) = SumSeq(b)
    <3>1. 1 .. n \subseteq T
      BY <2>1
    <3>2. QED
      BY <1>2, <2>2, <3>1, SumOnAll
  <2>7. QED
    BY <2>1, <2>5, <2>6 DEF Reserve
<1>42. \A i \in 1 .. n : cc[i] # 0 => i \in Early(I, r, taxdate)
  BY <1>2, <1>3, <1>10, <1>22 DEF Advances, Early
<1>43. InvoiceMade(I, paid, J, new, cc, O, O2, ops, r, taxdate, n, q)
  <2>1. /\ paid \in [1 .. n -> Invoice] /\ cc \in [1 .. n -> Nat] /\ new \in Invoice
        /\ Lowered(I, paid, cc, n) /\ LongerBy(paid, J, new, n)
        /\ Invoiced(O, O2, ops, n + 1, q)
        /\ new.registrar = r /\ new.typ = "account" /\ new.taxdate = taxdate
    BY <1>14, <1>18, <1>24, <1>26, <1>28, <1>29, <1>30
  <2>2. /\ SumOn(Px(O), ops) = new.total + SumSeq(cc)
        /\ new.total = Monus(SumOn(Px(O), ops), Reserve(I, r, taxdate))
    BY <1>15, <1>16, <1>17, <1>26, <1>40, <1>41
  <2>3. QED
    BY <1>42, <2>1, <2>2 DEF InvoiceMade
<1>44. ops = Unaccounted(r, BilledFrom(r, from), to)
  BY <1>7 DEF BilledFrom
<1>45. QED
  BY <1>2, <1>3, <1>4, <1>39, <1>43, <1>44

LEMMA BooksNext == AccountsInv /\ BooksInv /\ AccountsInv' /\ [Next]_accountVars => BooksInv'
<1> SUFFICES ASSUME AccountsInv, BooksInv, AccountsInv', [Next]_accountVars PROVE BooksInv'
  OBVIOUS
<1>1. TypeOK /\ today \in Days
  BY DEF AccountsInv, TypeOK
<1>2. \A r \in Registrars : registrar_credit[r] \in Int
  BY <1>1 DEF TypeOK
<1>3. \A op \in DOMAIN PriceList : PriceList[op].price \in Nat
  BY AccountingAssumption
<1>4. ASSUME NEW r \in Registrars, NEW op \in EppOperations, NEW quantity \in 1 .. 2,
             domain_bill_item(r, op, quantity)
      PROVE  BooksInv'
  <2>1. op \in DOMAIN PriceList /\ quantity \in Nat
    BY <1>4 DEF domain_bill_item
  <2>2. PICK price \in Nat : price = PriceList[op].price * quantity
    BY <1>3, <2>1
  <2>3. \/ PriceList[op].postpaid \/ price = 0 \/ ~(registrar_credit[r] < price)
    BY <1>4, <2>2 DEF domain_bill_item, BillingFailure
  <2>4. \/ PriceList[op].postpaid \/ PriceList[op].price * quantity = 0
        \/ registrar_credit[r] >= PriceList[op].price * quantity
    BY <1>2, <2>2, <2>3
  <2>5. /\ Charge(r, op, quantity, today, today)
        /\ UNCHANGED <<invoice, invoice_prefix, credit_payment_map>>
    BY <1>4 DEF domain_bill_item
  <2>6. QED
    BY <1>1, <2>1, <2>4, <2>5, ChargeKeepsBooks
<1>5. ASSUME NEW r \in Registrars, NEW op \in DOMAIN PriceList, ~ChargeRefused(r, op)
      PROVE  \/ PriceList[op].postpaid \/ PriceList[op].price * 1 = 0
             \/ registrar_credit[r] >= PriceList[op].price * 1
  <2>1. PICK price \in Nat : price = PriceList[op].price /\ price * 1 = price
    BY <1>3
  <2>2. PriceList[op].postpaid \/ ~(registrar_credit[r] < price)
    BY <1>5, <2>1 DEF ChargeRefused
  <2>3. QED
    BY <1>2, <2>1, <2>2
<1>6. ASSUME NEW r \in Registrars, NEW period \in Days, NEW crdate \in Days,
             chargeRegistryAccessFee(r, period, crdate)
      PROVE  BooksInv'
  <2>1. PICK op : op = "MonthlyFee"
    OBVIOUS
  <2>2. /\ op \in DOMAIN PriceList /\ 1 \in Nat /\ ~ChargeRefused(r, op)
        /\ Charge(r, op, 1, crdate, period)
        /\ UNCHANGED <<invoice, invoice_prefix, credit_payment_map>>
    BY <1>6, <2>1 DEF chargeRegistryAccessFee
  <2>3. \/ PriceList[op].postpaid \/ PriceList[op].price * 1 = 0
        \/ registrar_credit[r] >= PriceList[op].price * 1
    BY <1>5, <2>2
  <2>4. QED
    BY <2>2, <2>3, ChargeKeepsBooks
<1>7. ASSUME NEW r \in Registrars, NEW period \in Days, chargeRequestFee(r, period)
      PROVE  BooksInv'
  <2>1. PICK op : op = "GeneralEppOperation"
    OBVIOUS
  <2>2. /\ op \in DOMAIN PriceList /\ 1 \in Nat /\ ~ChargeRefused(r, op)
        /\ Charge(r, op, 1, period, period)
        /\ UNCHANGED <<invoice, invoice_prefix, credit_payment_map>>
    BY <1>7, <2>1 DEF chargeRequestFee
  <2>3. \/ PriceList[op].postpaid \/ PriceList[op].price * 1 = 0
        \/ registrar_credit[r] >= PriceList[op].price * 1
    BY <1>5, <2>2
  <2>4. QED
    BY <2>2, <2>3, ChargeKeepsBooks
<1>8. ASSUME NEW u \in Uuids, NEW r \in Registrars, NEW price \in PaymentPrices, NEW d \in Days,
             importPayment(u, r, price, d)
      PROVE  BooksInv'
  BY <1>8, PaymentKeepsBooks
<1>9. ASSUME UNCHANGED <<registrar_credit, invoice_operation, invoice, invoice_prefix,
                         credit_payment_map>>
      PROVE  BooksInv'
  BY <1>9 DEF BooksInv
<1>10. ASSUME NEW r \in Registrars, NEW from \in Days \cup {NoDate}, NEW to \in Days,
             NEW d \in Days, createAccountInvoice(r, from, to, d) \/ EmptyRun(r, from, to, d)
      PROVE  BooksInv'
  <2>1. CASE createAccountInvoice(r, from, to, d)
    BY <2>1, InvoicingKeepsBooks
  <2>2. CASE EmptyRun(r, from, to, d)
    BY <1>9, <2>2 DEF EmptyRun
  <2>3. QED
    BY <1>10, <2>1, <2>2
<1>11. ASSUME NEW y \in {Year(d) : d \in Days}, createInvoicePrefixes(y) PROVE BooksInv'
  <2>1. UNCHANGED <<registrar_credit, invoice_operation, invoice, credit_payment_map>>
    BY <1>11 DEF createInvoicePrefixes
  <2>2. PICK I, next, next2 : I = invoice /\ next = invoice_prefix /\ next2 = invoice_prefix'
    OBVIOUS
  <2>3. Numbered(I, next)
    BY <2>2 DEF BooksInv
  <2>4. ASSUME NEW p \in NumberSeries PROVE NumberedAt(I, next2[p], p)
    <3>1. NumberedAt(I, next[p], p)
      BY <2>3 DEF Numbered
    <3>2. CASE p[2] = y /\ next[p] = 0
      <4>1. IssuedIn(I, p) = {}
        BY <3>1, <3>2 DEF NumberedAt
      <4>2. Cardinality({}) = 0
        BY FS_EmptySet
      <4>3. PICK f \in Nat \ {0} : f = FirstNumber(y)
        BY YearsAreNat
      <4>4. next2[p] = f
        BY <1>11, <2>2, <3>2, <4>3 DEF createInvoicePrefixes
      <4>5. QED
        BY <3>2, <4>1, <4>2, <4>3, <4>4 DEF NumberedAt
    <3>3. CASE ~(p[2] = y /\ next[p] = 0)
      <4>1. next2[p] = next[p]
        BY <1>11, <2>2, <3>3 DEF createInvoicePrefixes
      <4>2. QED
        BY <3>1, <4>1
    <3>4. QED
      BY <3>2, <3>3
  <2>5. Numbered(I, next2)
    BY <2>4 DEF Numbered
  <2>6. QED
    BY <2>1, <2>2, <2>5 DEF BooksInv
<1>12. ASSUME NEW r \in Registrars, EndAccess(r) PROVE BooksInv'
  BY <1>9, <1>12 DEF EndAccess
<1>13. ASSUME NextDay PROVE BooksInv'
  BY <1>9, <1>13 DEF NextDay
<1>14. ASSUME UNCHANGED accountVars PROVE BooksInv'
  BY <1>9, <1>14 DEF accountVars
<1>15. QED
  BY <1>4, <1>6, <1>7, <1>8, <1>10, <1>11, <1>12, <1>13, <1>14 DEF Next

LEMMA BooksInvHolds == Spec => []BooksInv
<1>1. AccountsInv /\ BooksInv /\ AccountsInv' /\ [Next]_accountVars => BooksInv'
  BY BooksNext
<1>2. QED
  BY BooksInit, AccountsInvHolds, <1>1, PTL DEF Spec

(* The books close after every charge, payment, billing run, rounding and  *)
(* renumbering, for any VAT rate, prices, payments, calendar and number of *)
(* registrars, invoices and operations.                                    *)
THEOREM BooksAlwaysAddUp == Spec => []BooksAddUp
<1>1. AccountsInv /\ BooksInv => BooksAddUp
  BY BooksInvIsEnough
<1>2. QED
  BY AccountsInvHolds, BooksInvHolds, <1>1, PTL

-----------------------------------------------------------------------------
(* Prepaid work leaves no debt.                                            *)
(* A registrar that does prepaid work only.  The deposits dated up to a    *)
(* day cover the operations up to that day which a default run still has   *)
(* to invoice; last is the day up to which the registrar was billed.       *)
PrepaidOnly(O, x) ==
    \A k \in DOMAIN O : O[k].registrar = x =>
        O[k].operation \in EppOperations /\ ~PriceList[O[k].operation].postpaid

NoDebt(I, x) ==
    \A i \in DOMAIN I : I[i].registrar = x /\ I[i].typ = "account" => I[i].total = 0

Waiting(O, x, last, d) ==
    {k \in DOMAIN O : /\ O[k].registrar = x /\ O[k].ac_invoice = 0
                      /\ last < O[k].crdate /\ O[k].crdate <= d}
ToInvoice(O, x, last, d) == SumOn(Px(O), Waiting(O, x, last, d))

CoveredAt(I, O, x, last, d) == ToInvoice(O, x, last, d) <= Reserve(I, x, d)
Covers(I, O, x, last) == \A d \in Days : CoveredAt(I, O, x, last, d)

DatedBy(I, O, d) ==
    (\A k \in DOMAIN O : O[k].crdate <= d) /\ (\A i \in DOMAIN I : I[i].taxdate <= d)

LEMMA SumOnWithin ==
    ASSUME NEW n \in Nat, NEW w \in [1 .. n -> Nat], NEW S, NEW T, S \subseteq T
    PROVE  SumOn(w, S) \in Nat /\ SumOn(w, T) \in Nat /\ SumOn(w, S) <= SumOn(w, T)
<1>1. PICK R : R = T \ S
  OBVIOUS
<1>2. Integers(w, n) /\ \A i \in 1 .. n : w[i] \in Nat
  BY NatsAreIntegers
<1>3. Together(w, T, w, S, w, R, n)
  BY <1>1, <1>2 DEF Together, At
<1>4. SumOn(w, T) = SumOn(w, S) + SumOn(w, R)
  BY <1>2, <1>3, SumOnTogether
<1>5. SumOn(w, S) \in Nat /\ SumOn(w, T) \in Nat /\ SumOn(w, R) \in Nat
  BY SumOnIsNat
<1>6. QED
  BY <1>4, <1>5

LEMMA SumsOfTables ==
    ASSUME NEW n \in Nat, NEW I \in [1 .. n -> Invoice], NEW q \in Nat,
           NEW O \in [1 .. q -> Operation], NEW x, NEW last, NEW d
    PROVE  Reserve(I, x, d) \in Nat /\ ToInvoice(O, x, last, d) \in Nat
  BY BalancesAreNat, PxAreNat, SumOnIsNat DEF Reserve, ToInvoice

(* From today on there is nothing to show: the ledger says it, of all      *)
(* operations that are not accounted for.                                  *)
LEMMA PresentIsCovered ==
    ASSUME NEW n \in Nat, NEW I \in [1 .. n -> Invoice], NEW q \in Nat,
           NEW O \in [1 .. q -> Operation], NEW C, NEW credits \in [Registrars -> Int],
           Ledger(I, O, credits), Owes(O, credits), AddsUp(I, O, C, n),
           NEW x \in Registrars, PrepaidOnly(O, x), NoDebt(I, x),
           NEW now \in Days, DatedBy(I, O, now), NEW d \in Days, now <= d, NEW last
    PROVE  CoveredAt(I, O, x, last, d)
<1>1. PICK w, v : /\ w = Bal(I) /\ v = Px(O) /\ w \in [1 .. n -> Nat] /\ v \in [1 .. q -> Nat]
                  /\ Integers(w, n) /\ Integers(v, q)
  BY BalancesAreNat, PxAreNat
<1>2. Held(I, x, "account") = 0
  <2>1. PICK S : S = Of(I, x, "account")
    OBVIOUS
  <2>2. ASSUME NEW i \in S, i \in 1 .. n PROVE w[i] = 0
    <3>1. I[i].registrar = x /\ I[i].typ = "account" /\ i \in DOMAIN I
      BY <2>1, <2>2 DEF Of
    <3>2. I[i].total = 0
      BY <3>1 DEF NoDebt
    <3>3. I[i].balance <= I[i].total
      BY <2>2, <3>1 DEF AddsUp, AddsUpAt
    <3>4. I[i].balance \in Nat /\ w[i] = I[i].balance
      BY <1>1, <2>2 DEF Invoice, Bal
    <3>5. QED
      BY <3>2, <3>3, <3>4
  <2>3. \A i \in 1 .. n : At(w, S, i) = 0
    BY <2>2 DEF At
  <2>4. SumOn(w, S) = 0
    BY <1>1, <2>3, SumOnNothing
  <2>5. QED
    BY <1>1, <2>1, <2>4 DEF Held
<1>3. SumOn(v, Late(O, x)) = 0
  <2>1. PICK S : S = Late(O, x)
    OBVIOUS
  <2>2. \A i \in 1 .. q : At(v, S, i) = 0
    BY <2>1 DEF At, Late, PrepaidOnly
  <2>3. QED
    BY <1>1, <2>1, <2>2, SumOnNothing
<1>4. PICK c \in Int : c = credits[x] /\ 0 <= c
  <2>1. credits[x] \in Int /\ credits[x] + 0 >= 0
    BY <1>1, <1>3 DEF Owes
  <2>2. QED
    BY <2>1
<1>5. Early(I, x, d) = Of(I, x, "deposit")
  <2>1. now \in Int /\ d \in Int
    BY YearsAreNat
  <2>2. ASSUME NEW i \in 1 .. n PROVE I[i].taxdate <= d
    <3>1. PICK t \in Int : t = I[i].taxdate
      <4>1. I[i].taxdate \in Days
        BY DEF Invoice
      <4>2. QED
        BY <4>1, YearsAreNat
    <3>2. t <= now
      BY <3>1 DEF DatedBy
    <3>3. QED
      BY <2>1, <3>1, <3>2
  <2>3. QED
    BY <2>2 DEF Early, Of
<1>6. PICK a \in Int : a = Held(I, x, "deposit") /\ a = Reserve(I, x, d)
  BY <1>1, <1>5, HeldIsInt DEF Held, Reserve
<1>7. PICK o \in Nat : o = SumOn(v, Open(O, x)) /\ ToInvoice(O, x, last, d) <= o
  <2>1. PICK S, T : S = Waiting(O, x, last, d) /\ T = Open(O, x)
    OBVIOUS
  <2>2. S \subseteq T
    BY <2>1 DEF Waiting, Open
  <2>3. SumOn(v, T) \in Nat /\ SumOn(v, S) <= SumOn(v, T)
    BY <1>1, <2>2, SumOnWithin
  <2>4. QED
    BY <1>1, <2>1, <2>3 DEF ToInvoice
<1>8. c = a - 0 - o
  BY <1>1, <1>2, <1>4, <1>6, <1>7 DEF Ledger
<1>9. ToInvoice(O, x, last, d) \in Nat
  BY SumsOfTables
<1>10. ToInvoice(O, x, last, d) <= a
  BY <1>4, <1>7, <1>8, <1>9
<1>11. QED
  BY <1>6, <1>10 DEF CoveredAt

(* A deposit or an account invoice more never lowers a reserve, and a      *)
(* change to the balances of others or of account invoices leaves it.      *)
LEMMA LongerReserve ==
    ASSUME NEW n \in Nat, NEW I \in [1 .. n -> Invoice], NEW new \in Invoice,
           NEW J, LongerBy(I, J, new, n), NEW x, NEW d
    PROVE  Reserve(I, x, d) <= Reserve(J, x, d) /\ Reserve(J, x, d) \in Nat
<1>1. PICK u, v, S, T : u = Bal(I) /\ v = Bal(J) /\ S = Early(I, x, d) /\ T = Early(J, x, d)
  OBVIOUS
<1>2. new.balance \in Nat
  BY DEF Invoice
<1>3. u \in [1 .. n -> Nat] /\ Integers(u, n) /\ \A i \in 1 .. n : u[i] = I[i].balance
  BY <1>1, BalancesAreNat DEF Bal
<1>4. /\ n + 1 \in 1 .. n + 1 /\ (\A i \in 1 .. n : i \in 1 .. n + 1)
      /\ \A i \in 1 .. n + 1 : i \in 1 .. n \/ i = n + 1
  OBVIOUS
<1>5. /\ DOMAIN v = 1 .. n + 1 /\ (\A i \in 1 .. n : v[i] = u[i]) /\ v[n + 1] = new.balance
  BY <1>1, <1>3, <1>4 DEF Bal, LongerBy
<1>6. Integers(v, n + 1)
  BY <1>2, <1>3, <1>4, <1>5 DEF Integers
<1>7. \A i \in 1 .. n : i \in T <=> i \in S
  BY <1>1, <1>4 DEF Early, LongerBy
<1>8. Alike(v, T, u, S, n)
  BY <1>5, <1>7 DEF Alike, At
<1>9. SumOn(v, T) = SumOn(u, S) + At(v, T, n + 1)
  BY <1>3, <1>6, <1>8, SumOnAppend
<1>10. At(v, T, n + 1) \in Nat
  BY <1>2, <1>5 DEF At
<1>11. SumOn(u, S) \in Nat
  BY <1>3, SumOnIsNat
<1>12. SumOn(u, S) <= SumOn(v, T) /\ SumOn(v, T) \in Nat
  BY <1>9, <1>10, <1>11
<1>13. QED
  BY <1>1, <1>12 DEF Reserve

NoneIn(d, S, n) == \A i \in 1 .. n : d[i] # 0 => i \notin S
AllIn(d, S, n) == \A i \in 1 .. n : d[i] # 0 => i \in S

ReserveAfter(I, P, d, x, day, n) ==
    /\ NoneIn(d, Early(I, x, day), n) => Reserve(P, x, day) = Reserve(I, x, day)
    /\ AllIn(d, Early(I, x, day), n) => Reserve(I, x, day) = Reserve(P, x, day) + SumSeq(d)

LEMMA LoweredReserve ==
    ASSUME NEW n \in Nat, NEW I \in [1 .. n -> Invoice], NEW P \in [1 .. n -> Invoice],
           NEW d \in [1 .. n -> Nat], Lowered(I, P, d, n), NEW x, NEW day
    PROVE  ReserveAfter(I, P, d, x, day, n)
<1>1. PICK u, v, S : u = Bal(I) /\ v = Bal(P) /\ S = Early(I, x, day)
  OBVIOUS
<1>2. Early(P, x, day) = S
  BY <1>1 DEF Early, Lowered
<1>3. Integers(u, n) /\ Integers(v, n) /\ Integers(d, n)
  BY <1>1, BalancesAreNat, NatsAreIntegers
<1>4. \A i \in 1 .. n : u[i] = v[i] + d[i]
  BY <1>1 DEF Bal, Lowered
<1>5. Together(u, S, v, S, d, S, n)
  BY <1>4 DEF Together, At
<1>6. SumOn(u, S) = SumOn(v, S) + SumOn(d, S)
  BY <1>3, <1>5, SumOnTogether
<1>7. Reserve(I, x, day) = SumOn(u, S) /\ Reserve(P, x, day) = SumOn(v, S) /\ SumOn(v, S) \in Int
  BY <1>1, <1>2, <1>3, SumOnIsInt DEF Reserve
<1>8. ASSUME NoneIn(d, S, n)
      PROVE  Reserve(P, x, day) = Reserve(I, x, day)
  <2>1. \A i \in 1 .. n : At(d, S, i) = 0
    BY <1>8 DEF At, NoneIn
  <2>2. SumOn(d, S) = 0
    BY <1>3, <2>1, SumOnNothing
  <2>3. QED
    BY <1>6, <1>7, <2>2
<1>9. ASSUME AllIn(d, S, n)
      PROVE  Reserve(I, x, day) = Reserve(P, x, day) + SumSeq(d)
  <2>1. PICK T : T = 1 .. n
    OBVIOUS
  <2>2. Alike(d, S, d, T, n)
    BY <1>9, <2>1 DEF Alike, At, AllIn
  <2>3. SumOn(d, S) = SumOn(d, T)
    BY <1>3, <2>2, SumOnAlike
  <2>4. SumOn(d, T) = SumSeq(d)
    <3>1. 1 .. n \subseteq T
      BY <2>1
    <3>2. QED
      BY <1>3, <3>1, SumOnAll
  <2>5. QED
    BY <1>6, <1>7, <2>3, <2>4
<1>10. QED
  BY <1>1, <1>8, <1>9 DEF ReserveAfter

CoveredRegistrar(I, O, x, last) == NoDebt(I, x) /\ Covers(I, O, x, last)

CoverInv ==
    /\ DatedBy(invoice, invoice_operation, today)
    /\ customRuns = 0 => \A x \in Registrars :
           PrepaidOnly(invoice_operation, x) =>
               CoveredRegistrar(invoice, invoice_operation, x, invoice_generation[x])

LEMMA CoverInvIsEnough == CoverInv => PrepaidWorkLeavesNoDebt
<1> SUFFICES ASSUME CoverInv, NEW r \in Registrars, customRuns = 0,
                    \A i \in OperationsOf(r) :
                        /\ invoice_operation[i].operation \in EppOperations
                        /\ ~PriceList[invoice_operation[i].operation].postpaid,
                    NEW i \in InvoicesOf(r, "account")
             PROVE  invoice[i].total = 0
  BY DEF PrepaidWorkLeavesNoDebt
<1>1. PrepaidOnly(invoice_operation, r)
  BY DEF PrepaidOnly, OperationsOf
<1>2. NoDebt(invoice, r)
  BY <1>1 DEF CoverInv, CoveredRegistrar
<1>3. QED
  BY <1>2 DEF NoDebt, InvoicesOf

LEMMA CoverInit == Init => CoverInv
<1> SUFFICES ASSUME Init PROVE CoverInv
  OBVIOUS
<1>1. PICK I, O : I = invoice /\ O = invoice_operation /\ I = << >> /\ O = << >>
  BY DEF Init
<1>2. DOMAIN I = 1 .. 0 /\ DOMAIN O = 1 .. 0
  BY <1>1
<1>3. DatedBy(I, O, today)
  BY <1>2 DEF DatedBy
<1>4. ASSUME NEW x, NEW last PROVE CoveredRegistrar(I, O, x, last)
  <2>1. NoDebt(I, x)
    BY <1>2 DEF NoDebt
  <2>2. ASSUME NEW d PROVE CoveredAt(I, O, x, last, d)
    <3>1. ASSUME NEW w, DOMAIN w = 1 .. 0, NEW S PROVE SumOn(w, S) = 0
      <4>1. Integers(w, 0) /\ \A i \in 1 .. 0 : At(w, S, i) = 0
        BY <3>1 DEF Integers
      <4>2. QED
        BY <4>1, SumOnNothing
    <3>2. PICK u, v : u = Bal(I) /\ v = Px(O) /\ DOMAIN u = 1 .. 0 /\ DOMAIN v = 1 .. 0
      BY <1>2 DEF Bal, Px
    <3>3. ToInvoice(O, x, last, d) = 0 /\ Reserve(I, x, d) = 0
      BY <3>1, <3>2 DEF ToInvoice, Reserve
    <3>4. QED
      BY <3>3 DEF CoveredAt
  <2>3. QED
    BY <2>1, <2>2 DEF CoveredRegistrar, Covers
<1>5. QED
  BY <1>1, <1>3, <1>4 DEF CoverInv

(* A charge that is not one of x up to day d.                              *)
Elsewhere(new, x, d) == ~(new.registrar = x /\ new.crdate <= d)

LEMMA ChargeElsewhere ==
    ASSUME NEW q \in Nat, NEW O \in [1 .. q -> Operation], NEW new \in Operation,
           NEW O2, LongerBy(O, O2, new, q), NEW x, NEW last, NEW d,
           Elsewhere(new, x, d)
    PROVE  ToInvoice(O2, x, last, d) = ToInvoice(O, x, last, d)
<1>1. PICK S, T : S = Waiting(O, x, last, d) /\ T = Waiting(O2, x, last, d)
  OBVIOUS
<1>2. /\ q + 1 \in 1 .. q + 1 /\ (\A i \in 1 .. q : i \in 1 .. q + 1)
  OBVIOUS
<1>3. SameUpTo(S, T, q) /\ q + 1 \notin T
  BY <1>1, <1>2 DEF SameUpTo, Waiting, LongerBy, Elsewhere
<1>4. /\ SumOn(Px(O2), T) = SumOn(Px(O), S) + (IF q + 1 \in T THEN new.price ELSE 0)
      /\ SumOn(Px(O), S) \in Nat
  BY <1>3, LongerPrices
<1>5. SumOn(Px(O2), T) = SumOn(Px(O), S)
  BY <1>3, <1>4
<1>6. QED
  BY <1>1, <1>5 DEF ToInvoice

LEMMA ChargeKeepsCover ==
    ASSUME AccountsInv, CoverInv, BooksInv', NEW r \in Registrars,
           NEW op \in DOMAIN PriceList, NEW quantity \in Nat, NEW crdate \in Days,
           NEW period \in Days, crdate <= today, op \in EppOperations => crdate = today,
           AccountsInv', Charge(r, op, quantity, crdate, period),
           UNCHANGED <<today, invoice, invoice_generation, customRuns>>
    PROVE  CoverInv'
<1>1. PICK price \in Nat : price = PriceList[op].price * quantity
  BY AccountingAssumption
<1>2. op \in EppOperations \cup Fees
  BY AccountingAssumption
<1>3. PICK new : new = [registrar |-> r, operation |-> op, price |-> price,
                        crdate |-> crdate, period |-> period, ac_invoice |-> 0]
  OBVIOUS
<1>4. new \in Operation
  BY <1>2, <1>3 DEF Operation
<1>5. TypeOK /\ TypeOK'
  BY DEF AccountsInv
<1>6. PICK n, q : /\ n \in Nat /\ n = Len(invoice) /\ DOMAIN invoice = 1 .. n
                  /\ q \in Nat /\ q = Len(invoice_operation)
                  /\ DOMAIN invoice_operation = 1 .. q
  BY <1>5, TablesAreNumbered
<1>7. PICK I, O, gen, now :
          /\ I = invoice /\ O = invoice_operation /\ gen = invoice_generation /\ now = today
  OBVIOUS
<1>8. PICK O2, C2, credits2 :
          O2 = invoice_operation' /\ C2 = credit_payment_map' /\ credits2 = registrar_credit'
  OBVIOUS
<1>9. invoice' = I /\ invoice_generation' = gen /\ today' = now /\ Len(invoice') = n
  BY <1>6, <1>7
<1>10. /\ I \in [1 .. n -> Invoice] /\ O \in [1 .. q -> Operation] /\ now \in Days
       /\ credits2 \in [Registrars -> Int]
  BY <1>5, <1>6, <1>7, <1>8 DEF TypeOK
<1>11. LongerBy(O, O2, new, q)
  <2>1. O2 = Append(invoice_operation, new)
    BY <1>1, <1>3, <1>8 DEF Charge
  <2>2. QED
    BY <1>4, <1>5, <1>6, <1>7, <2>1 DEF LongerBy, TypeOK
<1>12. new.registrar = r /\ new.crdate = crdate /\ new.operation = op
  BY <1>3
<1>13. Ledger(I, O2, credits2) /\ Owes(O2, credits2) /\ AddsUp(I, O2, C2, n)
  BY <1>8, <1>9 DEF BooksInv
<1>14. /\ q + 1 \in 1 .. q + 1 /\ (\A i \in 1 .. q : i \in 1 .. q + 1)
       /\ \A i \in 1 .. q + 1 : i \in 1 .. q \/ i = q + 1
  BY <1>6
<1>15. O2 \in [1 .. q + 1 -> Operation] /\ q + 1 \in Nat
  <2>1. DOMAIN O2 = 1 .. q + 1 /\ O2 \in Seq(Operation)
    BY <1>5, <1>8, <1>11 DEF LongerBy, TypeOK
  <2>2. QED
    BY <1>6, <2>1
<1>16. DatedBy(I, O2, now)
  <2>1. DatedBy(I, O, now)
    BY <1>7 DEF CoverInv
  <2>2. QED
    BY <1>7, <1>10, <1>11, <1>12, <1>14, <2>1 DEF DatedBy, LongerBy
<1>17. ASSUME NEW x \in Registrars, customRuns' = 0, PrepaidOnly(O2, x)
       PROVE  CoveredRegistrar(I, O2, x, gen[x])
  <2>1. PrepaidOnly(O, x)
    BY <1>10, <1>11, <1>14, <1>17 DEF PrepaidOnly, LongerBy
  <2>2. NoDebt(I, x) /\ Covers(I, O, x, gen[x])
    BY <1>7, <1>17, <2>1 DEF CoverInv, CoveredRegistrar
  <2>3. PICK last : last = gen[x]
    OBVIOUS
  <2>4. ASSUME NEW d \in Days PROVE CoveredAt(I, O2, x, last, d)
    <3>1. CoveredAt(I, O, x, last, d)
      BY <2>2, <2>3 DEF Covers
    <3>2. CASE Elsewhere(new, x, d)
      <4>1. q \in Nat /\ O \in [1 .. q -> Operation]
        BY <1>6, <1>10
      <4>2. ToInvoice(O2, x, last, d) = ToInvoice(O, x, last, d)
        BY <1>4, <1>11, <3>2, <4>1, ChargeElsewhere
      <4>3. QED
        BY <3>1, <4>2 DEF CoveredAt
    <3>3. CASE new.registrar = x /\ new.crdate <= d
      <4>1. op \in EppOperations
        BY <1>11, <1>12, <1>14, <1>17, <3>3 DEF PrepaidOnly, LongerBy
      <4>2. now <= d
        BY <1>7, <1>12, <3>3, <4>1
      <4>3. NoDebt(I, x)
        BY <2>2
      <4>4. PICK m : m \in Nat /\ O2 \in [1 .. m -> Operation]
        BY <1>15
      <4>5. n \in Nat /\ I \in [1 .. n -> Invoice] /\ now \in Days /\ credits2 \in [Registrars -> Int]
        BY <1>6, <1>10
      <4>6. QED
        BY <1>13, <1>16, <1>17, <4>2, <4>3, <4>4, <4>5, PresentIsCovered
    <3>4. QED
      BY <3>2, <3>3 DEF Elsewhere
  <2>5. QED
    BY <2>2, <2>3, <2>4 DEF CoveredRegistrar, Covers
<1>18. QED
  BY <1>8, <1>9, <1>16, <1>17 DEF CoverInv

LEMMA PaymentCovers ==
    ASSUME NEW n \in Nat, NEW I \in [1 .. n -> Invoice], NEW q \in Nat,
           NEW O \in [1 .. q -> Operation], NEW P, NEW J, NEW pay, NEW r, NEW now,
           PaymentMade(I, P, J, pay, r, now, n), NEW x, NEW last,
           CoveredRegistrar(I, O, x, last)
    PROVE  CoveredRegistrar(J, O, x, last)
<1>1. /\ P \in [1 .. n -> Invoice] /\ pay \in [1 .. n -> Nat]
      /\ Lowered(I, P, pay, n) /\ OnlyOf(pay, I, r, "account", n)
  BY DEF PaymentMade
<1>2. NoDebt(I, x) /\ Covers(I, O, x, last)
  BY DEF CoveredRegistrar
<1>3. NoDebt(P, x)
  BY <1>1, <1>2 DEF NoDebt, Lowered
<1>4. ASSUME NEW d \in Days PROVE CoveredAt(P, O, x, last, d)
  <2>1. PICK S : S = Early(I, x, d)
    OBVIOUS
  <2>2. NoneIn(pay, S, n)
    BY <1>1, <2>1 DEF NoneIn, OnlyOf, Early
  <2>3. ReserveAfter(I, P, pay, x, d, n)
    BY <1>1, LoweredReserve
  <2>4. Reserve(P, x, d) = Reserve(I, x, d)
    BY <2>1, <2>2, <2>3 DEF ReserveAfter
  <2>5. QED
    BY <1>2, <2>4 DEF Covers, CoveredAt
<1>5. CASE J = P
  BY <1>3, <1>4, <1>5 DEF CoveredRegistrar, Covers
<1>6. ASSUME NEW new \in Invoice, LongerBy(P, J, new, n), new.typ = "deposit"
      PROVE  CoveredRegistrar(J, O, x, last)
  <2>1. \A i \in 1 .. n + 1 : i \in 1 .. n \/ i = n + 1
    OBVIOUS
  <2>2. NoDebt(J, x)
    BY <1>1, <1>3, <1>6, <2>1 DEF NoDebt, LongerBy
  <2>3. ASSUME NEW d \in Days PROVE CoveredAt(J, O, x, last, d)
    <3>1. Reserve(P, x, d) <= Reserve(J, x, d) /\ Reserve(J, x, d) \in Nat
      BY <1>1, <1>6, LongerReserve
    <3>2. PICK a, b \in Nat : a = ToInvoice(O, x, last, d) /\ b = Reserve(P, x, d) /\ a \in Nat
      BY <1>1, SumsOfTables
    <3>3. a <= b
      BY <1>4, <3>2 DEF CoveredAt
    <3>4. QED
      BY <3>1, <3>2, <3>3 DEF CoveredAt
  <2>4. QED
    BY <2>2, <2>3 DEF CoveredRegistrar, Covers
<1>7. QED
  BY <1>5, <1>6 DEF PaymentMade

LEMMA PaymentKeepsCover ==
    ASSUME AccountsInv, BooksInv, CoverInv, NEW uuid \in Uuids, NEW r \in Registrars,
           NEW price \in PaymentPrices, NEW taxdate \in Days,
           importPayment(uuid, r, price, taxdate)
    PROVE  CoverInv'
<1>1. TypeOK
  BY DEF AccountsInv
<1>2. PICK n, q : /\ n \in Nat /\ n = Len(invoice) /\ DOMAIN invoice = 1 .. n
                  /\ q \in Nat /\ q = Len(invoice_operation)
                  /\ DOMAIN invoice_operation = 1 .. q
  BY <1>1, TablesAreNumbered
<1>3. PICK I, O, gen, now, J :
          /\ I = invoice /\ O = invoice_operation /\ gen = invoice_generation /\ now = today
          /\ J = invoice'
  OBVIOUS
<1>4. /\ invoice_operation' = O /\ invoice_generation' = gen /\ today' = now
      /\ customRuns' = customRuns
  BY <1>3 DEF importPayment
<1>5. I \in [1 .. n -> Invoice] /\ O \in [1 .. q -> Operation]
  BY <1>1, <1>2, <1>3 DEF TypeOK
<1>6. PICK P, pay : PaymentMade(I, P, J, pay, r, now, n)
  BY <1>2, <1>3, PaymentKeepsBooks
<1>7. DatedBy(J, O, now)
  <2>1. DatedBy(I, O, now)
    BY <1>3 DEF CoverInv
  <2>2. P \in [1 .. n -> Invoice] /\ \A i \in 1 .. n : P[i].taxdate <= now
    BY <1>5, <1>6, <2>1 DEF DatedBy, PaymentMade, Lowered
  <2>3. \A i \in 1 .. n + 1 : i \in 1 .. n \/ i = n + 1
    BY <1>2
  <2>4. \A i \in DOMAIN J : J[i].taxdate <= now
    BY <1>6, <2>2, <2>3 DEF PaymentMade, LongerBy
  <2>5. QED
    BY <2>1, <2>4 DEF DatedBy
<1>8. ASSUME NEW x \in Registrars, customRuns' = 0, PrepaidOnly(O, x)
      PROVE  CoveredRegistrar(J, O, x, gen[x])
  <2>1. PICK last : last = gen[x] /\ CoveredRegistrar(I, O, x, last)
    BY <1>3, <1>4, <1>8 DEF CoverInv
  <2>2. CoveredRegistrar(J, O, x, last)
    BY <1>2, <1>5, <1>6, <2>1, PaymentCovers
  <2>3. QED
    BY <2>1, <2>2
<1>9. QED
  BY <1>3, <1>4, <1>7, <1>8 DEF CoverInv

(* An account invoice of r leaves the others alone, ...                    *)
LEMMA InvoicingCoversOthers ==
    ASSUME NEW n \in Nat, NEW I \in [1 .. n -> Invoice], NEW q \in Nat,
           NEW O \in [1 .. q -> Operation], NEW P, NEW J, NEW new, NEW cc, NEW O2, NEW ops,
           NEW r, ops \subseteq Open(O, r), NEW taxdate,
           InvoiceMade(I, P, J, new, cc, O, O2, ops, r, taxdate, n, q), NEW x, x # r, NEW last,
           CoveredRegistrar(I, O, x, last)
    PROVE  CoveredRegistrar(J, O2, x, last)
<1>1. /\ P \in [1 .. n -> Invoice] /\ cc \in [1 .. n -> Nat] /\ new \in Invoice
      /\ Lowered(I, P, cc, n) /\ LongerBy(P, J, new, n) /\ Invoiced(O, O2, ops, n + 1, q)
      /\ new.registrar = r
      /\ \A i \in 1 .. n : cc[i] # 0 => i \in Early(I, r, taxdate)
  BY DEF InvoiceMade
<1>2. NoDebt(I, x) /\ Covers(I, O, x, last)
  BY DEF CoveredRegistrar
<1>3. /\ \A i \in 1 .. n + 1 : i \in 1 .. n \/ i = n + 1
  OBVIOUS
<1>4. NoDebt(J, x)
  <2>1. NoDebt(P, x)
    BY <1>1, <1>2 DEF NoDebt, Lowered
  <2>2. QED
    BY <1>1, <1>3, <2>1 DEF NoDebt, LongerBy
<1>5. ASSUME NEW d \in Days PROVE CoveredAt(J, O2, x, last, d)
  <2>1. PICK S : S = Early(I, x, d)
    OBVIOUS
  <2>2. NoneIn(cc, S, n)
    BY <1>1, <2>1 DEF NoneIn, Early
  <2>3. ReserveAfter(I, P, cc, x, d, n)
    BY <1>1, LoweredReserve
  <2>4. Reserve(P, x, d) = Reserve(I, x, d)
    BY <2>1, <2>2, <2>3 DEF ReserveAfter
  <2>5. Reserve(P, x, d) <= Reserve(J, x, d) /\ Reserve(J, x, d) \in Nat
    BY <1>1, LongerReserve
  <2>6. Waiting(O2, x, last, d) = Waiting(O, x, last, d) /\ Px(O2) = Px(O)
    BY <1>1 DEF Waiting, Invoiced, Open, Px
  <2>7. ToInvoice(O2, x, last, d) = ToInvoice(O, x, last, d)
    BY <2>6 DEF ToInvoice
  <2>8. PICK a, b \in Nat : a = ToInvoice(O, x, last, d) /\ b = Reserve(P, x, d) /\ a \in Nat
    BY <1>1, SumsOfTables
  <2>9. a <= b
    BY <1>2, <2>4, <2>8 DEF Covers, CoveredAt
  <2>10. QED
    BY <2>5, <2>7, <2>8, <2>9 DEF CoveredAt
<1>6. QED
  BY <1>4, <1>5 DEF CoveredRegistrar, Covers

(* ... and leaves r nothing to pay: the deposits cover its operations, and *)
(* what they pay is what no longer waits.                                  *)
LEMMA InvoicingCovers ==
    ASSUME NEW n \in Nat, NEW I \in [1 .. n -> Invoice], NEW q \in Nat,
           NEW O \in [1 .. q -> Operation], NEW P, NEW J, NEW new, NEW cc, NEW O2, NEW ops,
           NEW r, NEW to \in Days, NEW last \in Int, last < to, ops = Waiting(O, r, last, to),
           InvoiceMade(I, P, J, new, cc, O, O2, ops, r, to, n, q),
           CoveredRegistrar(I, O, r, last)
    PROVE  CoveredRegistrar(J, O2, r, to)
<1>1. /\ P \in [1 .. n -> Invoice] /\ cc \in [1 .. n -> Nat] /\ new \in Invoice
      /\ Lowered(I, P, cc, n) /\ LongerBy(P, J, new, n) /\ Invoiced(O, O2, ops, n + 1, q)
      /\ \A i \in 1 .. n : cc[i] # 0 => i \in Early(I, r, to)
  BY DEF InvoiceMade
<1>2. NoDebt(I, r) /\ Covers(I, O, r, last)
  BY DEF CoveredRegistrar
<1>3. /\ \A i \in 1 .. n + 1 : i \in 1 .. n \/ i = n + 1
  OBVIOUS
<1>4. PICK sum, res, pulled :
          /\ sum \in Nat /\ sum = ToInvoice(O, r, last, to) /\ sum = SumOn(Px(O), ops)
          /\ res \in Nat /\ res = Reserve(I, r, to) /\ pulled \in Nat /\ pulled = SumSeq(cc)
  BY <1>1, SumsOfTables, SumIsNat DEF ToInvoice
<1>5. new.total = 0 /\ sum = pulled
  <2>1. sum <= res
    BY <1>2, <1>4 DEF Covers, CoveredAt
  <2>2. new.total = Monus(sum, res) /\ sum = new.total + pulled
    BY <1>4 DEF InvoiceMade
  <2>3. new.total = 0
    BY <1>4, <2>1, <2>2 DEF Monus
  <2>4. QED
    BY <1>4, <2>2, <2>3
<1>6. NoDebt(J, r)
  <2>1. NoDebt(P, r)
    BY <1>1, <1>2 DEF NoDebt, Lowered
  <2>2. QED
    BY <1>1, <1>3, <1>5, <2>1 DEF NoDebt, LongerBy
<1>7. to \in Int /\ \A d \in Days : d \in Int
  BY YearsAreNat
<1>8. \A k \in 1 .. q : O[k].crdate \in Int
  BY <1>7 DEF Operation
<1>9. Px(O2) = Px(O) /\ n + 1 # 0
  BY <1>1 DEF Invoiced, Px
<1>10. PICK w : w = Px(O) /\ w \in [1 .. q -> Nat] /\ Integers(w, q)
  BY PxAreNat
<1>11. ASSUME NEW d \in Days PROVE CoveredAt(J, O2, r, to, d)
  <2>1. PICK R : R = Waiting(O2, r, to, d)
    OBVIOUS
  <2>2. PICK b : b \in Nat /\ b = Reserve(P, r, d)
    BY <1>1, SumsOfTables
  <2>3. b <= Reserve(J, r, d) /\ Reserve(J, r, d) \in Int
    <3>1. Reserve(P, r, d) <= Reserve(J, r, d) /\ Reserve(J, r, d) \in Nat
      BY <1>1, LongerReserve
    <3>2. QED
      BY <2>2, <3>1
  <2>4. CASE d <= to
    <3>1. \A k \in 1 .. q : At(w, R, k) = 0
      <4>1. ASSUME NEW k \in R PROVE FALSE
        <5>1. k \in 1 .. q /\ to < O2[k].crdate /\ O2[k].crdate <= d
          BY <1>1, <2>1 DEF Waiting, Invoiced
        <5>2. PICK t \in Int : t = O2[k].crdate
          BY <1>1, <1>8, <5>1 DEF Invoiced
        <5>3. QED
          BY <1>7, <2>4, <5>1, <5>2
      <4>2. QED
        BY <4>1 DEF At
    <3>2. SumOn(w, R) = 0
      BY <1>10, <3>1, SumOnNothing
    <3>3. ToInvoice(O2, r, to, d) = 0
      BY <1>9, <1>10, <2>1, <3>2 DEF ToInvoice
    <3>4. QED
      BY <2>2, <2>3, <3>3 DEF CoveredAt
  <2>5. CASE ~(d <= to)
    <3>1. PICK T : T = Waiting(O, r, last, d)
      OBVIOUS
    <3>2. ASSUME NEW k \in 1 .. q
          PROVE  (k \in T <=> k \in R \/ k \in ops) /\ ~(k \in R /\ k \in ops)
      <4>1. PICK t \in Int : t = O[k].crdate /\ t = O2[k].crdate
        BY <1>1, <1>8 DEF Invoiced
      <4>2. /\ k \in T <=> O[k].registrar = r /\ O[k].ac_invoice = 0 /\ last < t /\ t <= d
            /\ k \in ops <=> O[k].registrar = r /\ O[k].ac_invoice = 0 /\ last < t /\ t <= to
        BY <3>1, <4>1 DEF Waiting
      <4>3. k \in R <=> O[k].registrar = r /\ O2[k].ac_invoice = 0 /\ to < t /\ t <= d
        BY <1>1, <2>1, <4>1 DEF Waiting, Invoiced
      <4>4. O2[k].ac_invoice = IF k \in ops THEN n + 1 ELSE O[k].ac_invoice
        BY <1>1 DEF Invoiced
      <4>5. (last < t /\ t <= d <=> (last < t /\ t <= to) \/ (to < t /\ t <= d))
            /\ ~(t <= to /\ to < t)
        BY <1>7, <2>5
      <4>6. QED
        BY <1>9, <4>2, <4>3, <4>4, <4>5
    <3>3. Together(w, T, w, R, w, ops, q)
      <4>1. \A k \in 1 .. q : w[k] \in Nat
        BY <1>10
      <4>2. QED
        BY <3>2, <4>1 DEF Together, At
    <3>4. SumOn(w, T) = SumOn(w, R) + SumOn(w, ops)
      BY <1>10, <3>3, SumOnTogether
    <3>5. PICK a \in Nat : a = SumOn(w, R) /\ a = ToInvoice(O2, r, to, d)
      BY <1>9, <1>10, <2>1, SumOnIsNat DEF ToInvoice
    <3>6. ToInvoice(O, r, last, d) = a + sum
      BY <1>4, <1>10, <3>1, <3>4, <3>5 DEF ToInvoice
    <3>7. Reserve(I, r, d) = b + pulled
      <4>1. PICK S : S = Early(I, r, d)
        OBVIOUS
      <4>2. ASSUME NEW i \in 1 .. n, cc[i] # 0 PROVE i \in S
        <5>1. i \in Early(I, r, to)
          BY <1>1, <4>2
        <5>2. PICK t \in Int : t = I[i].taxdate
          <6>1. I[i].taxdate \in Days
            BY DEF Invoice
          <6>2. QED
            BY <1>7, <6>1
        <5>3. t <= d
          <6>1. t <= to
            BY <5>1, <5>2 DEF Early
          <6>2. QED
            BY <1>7, <2>5, <6>1
        <5>4. QED
          BY <4>1, <5>1, <5>2, <5>3 DEF Early
      <4>3. AllIn(cc, S, n)
        BY <4>2 DEF AllIn
      <4>4. ReserveAfter(I, P, cc, r, d, n)
        BY <1>1, LoweredReserve
      <4>5. Reserve(I, r, d) = Reserve(P, r, d) + SumSeq(cc)
        BY <4>1, <4>3, <4>4 DEF ReserveAfter
      <4>6. QED
        BY <1>4, <2>2, <4>5
    <3>8. a + sum <= b + pulled
      BY <1>2, <3>6, <3>7 DEF Covers, CoveredAt
    <3>9. a <= b
      BY <1>4, <1>5, <2>2, <3>8
    <3>10. a <= Reserve(J, r, d)
      BY <2>2, <2>3, <3>9
    <3>11. QED
      BY <3>5, <3>10 DEF CoveredAt
  <2>6. QED
    BY <2>4, <2>5
<1>12. QED
  BY <1>6, <1>11 DEF CoveredRegistrar, Covers

(* A run that leaves customRuns at 0 is a default run, with its last day   *)
(* as tax date.                                                            *)
LEMMA DefaultRun ==
    ASSUME TypeOK, NEW r \in Registrars, NEW from \in Days \cup {NoDate},
           NEW to \in Days, NEW taxdate \in Days, RangeAccepted(r, from, to),
           CountCustomRun(from, to, taxdate), customRuns' = 0
    PROVE  /\ customRuns = 0 /\ from = NoDate /\ taxdate = to
           /\ invoice_generation[r] \in Int /\ invoice_generation[r] < to
           /\ BilledFrom(r, from) = invoice_generation[r] + 1
<1>1. customRuns \in Nat /\ to \in Int /\ invoice_generation[r] \in Int
  <2>1. customRuns \in Nat /\ invoice_generation[r] \in Days \cup {-1}
    BY DEF TypeOK, NoDate
  <2>2. \A d \in Days : d \in Int
    BY YearsAreNat
  <2>3. QED
    BY <2>1, <2>2
<1>2. customRuns = 0 /\ from = NoDate /\ taxdate = to
  BY <1>1 DEF CountCustomRun
<1>3. DefaultFrom(r) <= to
  BY <1>2 DEF RangeAccepted
<1>4. QED
  BY <1>1, <1>2, <1>3 DEF DefaultFrom, BilledFrom

LEMMA DefaultRunTakesWaiting ==
    ASSUME TypeOK, NEW r \in Registrars, NEW O, O = invoice_operation, NEW q \in Nat,
           O \in [1 .. q -> Operation], NEW last \in Int, NEW to \in Days
    PROVE  Unaccounted(r, last + 1, to) = Waiting(O, r, last, to)
<1>1. \A k \in 1 .. q : O[k].crdate \in Int
  BY YearsAreNat DEF Operation
<1>2. to \in Int
  BY YearsAreNat
<1>3. \A t \in Int : t \in last + 1 .. to <=> last < t /\ t <= to
  BY <1>2
<1>4. QED
  BY <1>1, <1>3 DEF Unaccounted, Waiting

LEMMA InvoicingKeepsCover ==
    ASSUME AccountsInv, BooksInv, CoverInv, NEW r \in Registrars,
           NEW from \in Days \cup {NoDate}, NEW to \in Days, NEW taxdate \in Days,
           createAccountInvoice(r, from, to, taxdate)
    PROVE  CoverInv'
<1>1. TypeOK
  BY DEF AccountsInv
<1>2. PICK n, q : /\ n \in Nat /\ n = Len(invoice) /\ DOMAIN invoice = 1 .. n
                  /\ q \in Nat /\ q = Len(invoice_operation)
                  /\ DOMAIN invoice_operation = 1 .. q
  BY <1>1, TablesAreNumbered
<1>3. PICK I, O, gen, now :
          /\ I = invoice /\ O = invoice_operation /\ gen = invoice_generation /\ now = today
  OBVIOUS
<1>4. PICK J, O2 : J = invoice' /\ O2 = invoice_operation'
  OBVIOUS
<1>5. /\ I \in [1 .. n -> Invoice] /\ O \in [1 .. q -> Operation]
      /\ gen \in [Registrars -> Days \cup {NoDate}]
  BY <1>1, <1>2, <1>3 DEF TypeOK
<1>6. /\ RangeAccepted(r, from, to) /\ ValidTaxDate(taxdate)
      /\ CountCustomRun(from, to, taxdate) /\ today' = now
      /\ invoice_generation' = [gen EXCEPT ![r] = to]
  BY <1>3 DEF createAccountInvoice
<1>7. PICK ops : ops = Unaccounted(r, BilledFrom(r, from), to)
  OBVIOUS
<1>8. PICK P, new, cc : InvoiceMade(I, P, J, new, cc, O, O2, ops, r, taxdate, n, q)
  BY <1>2, <1>3, <1>4, <1>7, InvoicingKeepsBooks
<1>9. ops \subseteq Open(O, r)
  BY <1>3, <1>7 DEF Unaccounted, Open
<1>10. /\ P \in [1 .. n -> Invoice] /\ Lowered(I, P, cc, n) /\ LongerBy(P, J, new, n)
       /\ Invoiced(O, O2, ops, n + 1, q) /\ new.taxdate = taxdate
  BY <1>8 DEF InvoiceMade
<1>11. DatedBy(J, O2, now)
  <2>1. DatedBy(I, O, now)
    BY <1>3 DEF CoverInv
  <2>2. \A i \in 1 .. n : P[i].taxdate <= now
    BY <1>5, <1>10, <2>1 DEF DatedBy, Lowered
  <2>3. \A i \in 1 .. n + 1 : i \in 1 .. n \/ i = n + 1
    BY <1>2
  <2>4. taxdate <= now
    BY <1>3, <1>6 DEF ValidTaxDate
  <2>5. \A i \in DOMAIN J : J[i].taxdate <= now
    BY <1>10, <2>2, <2>3, <2>4 DEF LongerBy
  <2>6. \A k \in DOMAIN O2 : O2[k].crdate <= now
    BY <1>5, <1>10, <2>1 DEF DatedBy, Invoiced
  <2>7. QED
    BY <2>5, <2>6 DEF DatedBy
<1>12. ASSUME NEW x \in Registrars, customRuns' = 0, PrepaidOnly(O2, x)
       PROVE  CoveredRegistrar(J, O2, x, invoice_generation'[x])
  <2>1. /\ customRuns = 0 /\ from = NoDate /\ taxdate = to
        /\ gen[r] \in Int /\ gen[r] < to /\ BilledFrom(r, from) = gen[r] + 1
    BY <1>1, <1>3, <1>6, <1>12, DefaultRun
  <2>2. PrepaidOnly(O, x)
    BY <1>5, <1>10, <1>12 DEF PrepaidOnly, Invoiced
  <2>3. PICK last : last = gen[x] /\ CoveredRegistrar(I, O, x, last)
    BY <1>3, <2>1, <2>2 DEF CoverInv
  <2>4. CASE x = r
    <3>1. last \in Int /\ last < to
      BY <2>1, <2>3, <2>4
    <3>2. ops = Waiting(O, r, last, to)
      BY <1>1, <1>2, <1>3, <1>5, <1>7, <2>1, <2>3, <2>4, DefaultRunTakesWaiting
    <3>3. InvoiceMade(I, P, J, new, cc, O, O2, ops, r, to, n, q)
      BY <1>8, <2>1
    <3>4. CoveredRegistrar(J, O2, r, to)
      <4>1. /\ n \in Nat /\ I \in [1 .. n -> Invoice] /\ q \in Nat
            /\ O \in [1 .. q -> Operation] /\ CoveredRegistrar(I, O, r, last)
        BY <1>2, <1>5, <2>3, <2>4
      <4>2. QED
        BY <3>1, <3>2, <3>3, <4>1, InvoicingCovers
    <3>5. QED
      BY <1>5, <1>6, <2>4, <3>4
  <2>5. CASE x # r
    <3>1. CoveredRegistrar(J, O2, x, last)
      BY <1>2, <1>5, <1>8, <1>9, <2>3, <2>5, InvoicingCoversOthers
    <3>2. QED
      BY <1>5, <1>6, <2>3, <2>5, <3>1
  <2>6. QED
    BY <2>4, <2>5
<1>13. QED
  BY <1>4, <1>6, <1>11, <1>12 DEF CoverInv

(* A run that makes no invoice forgets the operations of its range, which  *)
(* can only lower what is left to invoice.                                 *)
LEMMA EmptyRunKeepsCover ==
    ASSUME TypeOK, CoverInv, NEW r \in Registrars,
           NEW from \in Days \cup {NoDate}, NEW to \in Days, NEW taxdate \in Days,
           EmptyRun(r, from, to, taxdate)
    PROVE  CoverInv'
<1>1. PICK n, q : /\ n \in Nat /\ n = Len(invoice) /\ DOMAIN invoice = 1 .. n
                  /\ q \in Nat /\ q = Len(invoice_operation)
                  /\ DOMAIN invoice_operation = 1 .. q
  BY TablesAreNumbered
<1>2. PICK I, O, gen :
          I = invoice /\ O = invoice_operation /\ gen = invoice_generation
  OBVIOUS
<1>3. /\ RangeAccepted(r, from, to) /\ CountCustomRun(from, to, taxdate)
      /\ invoice_generation' = [gen EXCEPT ![r] = to]
      /\ today' = today /\ invoice' = I /\ invoice_operation' = O
  BY <1>2 DEF EmptyRun
<1>4. /\ I \in [1 .. n -> Invoice] /\ O \in [1 .. q -> Operation]
      /\ gen \in [Registrars -> Days \cup {NoDate}]
  BY <1>1, <1>2 DEF TypeOK
<1>5. ASSUME NEW x \in Registrars, customRuns' = 0, PrepaidOnly(O, x)
      PROVE  CoveredRegistrar(I, O, x, invoice_generation'[x])
  <2>1. customRuns = 0 /\ gen[r] \in Int /\ gen[r] < to
    BY <1>2, <1>3, <1>5, DefaultRun
  <2>2. PICK last : last = gen[x] /\ CoveredRegistrar(I, O, x, last)
    BY <1>2, <1>5, <2>1 DEF CoverInv
  <2>3. CASE x # r
    BY <1>3, <1>4, <2>2, <2>3
  <2>4. CASE x = r
    <3>1. last \in Int /\ last < to /\ to \in Int
      BY <2>1, <2>2, <2>4, YearsAreNat
    <3>2. PICK w : w = Px(O) /\ w \in [1 .. q -> Nat]
      BY <1>1, <1>4, PxAreNat
    <3>3. \A k \in 1 .. q : O[k].crdate \in Int
      BY <1>4, YearsAreNat, SMTT(30) DEF Operation
    <3>4. ASSUME NEW d \in Days PROVE CoveredAt(I, O, x, to, d)
      <4>1. PICK S, T : S = Waiting(O, x, to, d) /\ T = Waiting(O, x, last, d)
        OBVIOUS
      <4>2. S \subseteq T
        BY <1>4, <3>1, <3>3, <4>1 DEF Waiting
      <4>3. SumOn(w, S) \in Nat /\ SumOn(w, T) \in Nat /\ SumOn(w, S) <= SumOn(w, T)
        BY <1>1, <3>2, <4>2, SumOnWithin
      <4>4. PICK a \in Nat, b \in Nat, c \in Nat :
                /\ a = ToInvoice(O, x, to, d) /\ b = ToInvoice(O, x, last, d)
                /\ c = Reserve(I, x, d) /\ a <= b
        <5>1. Reserve(I, x, d) \in Nat
          BY <1>1, <1>4, SumsOfTables
        <5>2. QED
          BY <3>2, <4>1, <4>3, <5>1 DEF ToInvoice
      <4>5. b <= c
        BY <2>2, <4>4 DEF CoveredRegistrar, Covers, CoveredAt
      <4>6. a <= c
        BY <4>4, <4>5
      <4>7. QED
        BY <4>4, <4>6 DEF CoveredAt
    <3>5. CoveredRegistrar(I, O, x, to)
      BY <2>2, <3>4 DEF CoveredRegistrar, Covers
    <3>6. QED
      BY <1>3, <1>4, <2>4, <3>5
  <2>5. QED
    BY <2>3, <2>4
<1>6. QED
  BY <1>2, <1>3, <1>5 DEF CoverInv

LEMMA CoverNext ==
    AccountsInv /\ BooksInv /\ CoverInv /\ AccountsInv' /\ BooksInv' /\ [Next]_accountVars
        => CoverInv'
<1> SUFFICES ASSUME AccountsInv, BooksInv, CoverInv, AccountsInv', BooksInv', [Next]_accountVars
             PROVE  CoverInv'
  OBVIOUS
<1>1. TypeOK /\ today \in Days /\ today \in Int
  BY YearsAreNat DEF AccountsInv, TypeOK
<1>2. ASSUME NEW r \in Registrars, NEW op \in EppOperations, NEW quantity \in 1 .. 2,
             domain_bill_item(r, op, quantity)
      PROVE  CoverInv'
  <2>1. PICK crdate \in Days : crdate = today
    BY <1>1
  <2>2. /\ op \in DOMAIN PriceList /\ quantity \in Nat /\ crdate <= today
        /\ Charge(r, op, quantity, crdate, crdate)
        /\ UNCHANGED <<today, invoice, invoice_generation, customRuns>>
    BY <1>1, <1>2, <2>1 DEF domain_bill_item
  <2>3. QED
    BY <2>1, <2>2, ChargeKeepsCover
<1>3. "MonthlyFee" \notin EppOperations /\ "GeneralEppOperation" \notin EppOperations
  BY DEF EppOperations
<1>4. ASSUME NEW r \in Registrars, NEW period \in Days, NEW crdate \in Days,
             chargeRegistryAccessFee(r, period, crdate)
      PROVE  CoverInv'
  <2>1. PICK op : op = "MonthlyFee"
    OBVIOUS
  <2>2. /\ op \in DOMAIN PriceList /\ 1 \in Nat /\ op \notin EppOperations
        /\ Charge(r, op, 1, crdate, period)
        /\ UNCHANGED <<today, invoice, invoice_generation, customRuns>>
    BY <1>3, <1>4, <2>1 DEF chargeRegistryAccessFee
  <2>3. crdate <= today
    BY <1>1, <1>4 DEF chargeRegistryAccessFee
  <2>4. QED
    BY <2>2, <2>3, ChargeKeepsCover
<1>5. ASSUME NEW r \in Registrars, NEW period \in Days, chargeRequestFee(r, period)
      PROVE  CoverInv'
  <2>1. PICK op : op = "GeneralEppOperation"
    OBVIOUS
  <2>2. /\ op \in DOMAIN PriceList /\ 1 \in Nat /\ op \notin EppOperations
        /\ Charge(r, op, 1, period, period)
        /\ UNCHANGED <<today, invoice, invoice_generation, customRuns>>
    BY <1>3, <1>5, <2>1 DEF chargeRequestFee
  <2>3. period <= today
    <3>1. period \in Int /\ period < today
      BY <1>5, YearsAreNat DEF chargeRequestFee
    <3>2. QED
      BY <1>1, <3>1
  <2>4. QED
    BY <2>2, <2>3, ChargeKeepsCover
<1>6. ASSUME NEW u \in Uuids, NEW r \in Registrars, NEW price \in PaymentPrices, NEW d \in Days,
             importPayment(u, r, price, d)
      PROVE  CoverInv'
  BY <1>6, PaymentKeepsCover
<1>7. ASSUME NEW r \in Registrars, NEW from \in Days \cup {NoDate}, NEW to \in Days,
             NEW d \in Days, createAccountInvoice(r, from, to, d) \/ EmptyRun(r, from, to, d)
      PROVE  CoverInv'
  <2>1. CASE createAccountInvoice(r, from, to, d)
    BY <2>1, InvoicingKeepsCover
  <2>2. CASE EmptyRun(r, from, to, d)
    BY <1>1, <2>2, EmptyRunKeepsCover
  <2>3. QED
    BY <1>7, <2>1, <2>2
<1>8. ASSUME UNCHANGED <<today, invoice_operation, invoice, invoice_generation, customRuns>>
      PROVE  CoverInv'
  BY <1>8 DEF CoverInv
<1>9. ASSUME NEW y \in {Year(d) : d \in Days}, createInvoicePrefixes(y) PROVE CoverInv'
  BY <1>8, <1>9 DEF createInvoicePrefixes
<1>10. ASSUME NEW r \in Registrars, EndAccess(r) PROVE CoverInv'
  BY <1>8, <1>10 DEF EndAccess
<1>11. ASSUME NextDay PROVE CoverInv'
  <2>1. PICK n, q : /\ n \in Nat /\ n = Len(invoice) /\ DOMAIN invoice = 1 .. n
                    /\ q \in Nat /\ q = Len(invoice_operation)
                    /\ DOMAIN invoice_operation = 1 .. q
    BY <1>1, TablesAreNumbered
  <2>2. PICK I, O, now : /\ I = invoice /\ O = invoice_operation
                         /\ now = today /\ now \in Int
    BY <1>1
  <2>3. /\ today' = now + 1 /\ invoice' = I /\ invoice_operation' = O
        /\ UNCHANGED <<invoice_generation, customRuns>>
    BY <1>11, <2>2 DEF NextDay
  <2>4. (\A k \in 1 .. q : O[k].crdate \in Int) /\ \A i \in 1 .. n : I[i].taxdate \in Int
    <3>1. I \in [1 .. n -> Invoice] /\ O \in [1 .. q -> Operation]
      BY <1>1, <2>1, <2>2 DEF TypeOK
    <3>2. QED
      BY <3>1, YearsAreNat DEF Invoice, Operation
  <2>5. DatedBy(I, O, now)
    BY <2>2 DEF CoverInv
  <2>6. DatedBy(I, O, now + 1)
    <3>1. \A t \in Int : t <= now => t <= now + 1
      BY <2>2
    <3>2. QED
      BY <2>1, <2>2, <2>4, <2>5, <3>1 DEF DatedBy
  <2>7. QED
    BY <2>2, <2>3, <2>6 DEF CoverInv
<1>12. ASSUME UNCHANGED accountVars PROVE CoverInv'
  BY <1>8, <1>12 DEF accountVars
<1>13. QED
  BY <1>2, <1>4, <1>5, <1>6, <1>7, <1>9, <1>10, <1>11, <1>12 DEF Next

LEMMA CoverInvHolds == Spec => []CoverInv
<1>1. AccountsInv /\ BooksInv /\ CoverInv /\ AccountsInv' /\ BooksInv' /\ [Next]_accountVars
        => CoverInv'
  BY CoverNext
<1>2. QED
  BY CoverInit, AccountsInvHolds, BooksInvHolds, <1>1, PTL DEF Spec

(* A registrar that only ever did prepaid work and is billed by default    *)
(* runs never owes anything on an account invoice, for any VAT rate,       *)
(* prices, payments, calendar and order of charges, payments and runs,     *)
(* although create_account_invoice may only use the advances dated up to   *)
(* its tax date.                                                           *)
THEOREM PrepaidWorkIsCovered == Spec => []PrepaidWorkLeavesNoDebt
<1>1. CoverInv => PrepaidWorkLeavesNoDebt
  BY CoverInvIsEnough
<1>2. QED
  BY CoverInvHolds, <1>1, PTL
=============================================================================
