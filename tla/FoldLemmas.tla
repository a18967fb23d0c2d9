----------------------------- MODULE FoldLemmas -----------------------------
(***************************************************************************)
(* Facts about the folds of the community modules, which the models use    *)
(* for the sums, walks and concatenations of the code: that a fold exists, *)
(* and what it does when an element is put behind, before or in place of   *)
(* another; the smallest and largest of numbers.  Induction is over a set  *)
(* (the arguments for which a fact holds), by the well-foundedness of < on *)
(* the naturals.                                                           *)
(***************************************************************************)
EXTENDS Integers, Sequences, SequencesExt, TLAPS, WellFoundedInduction,
        FiniteSetTheorems

(* Induction: a set with 0 and successors has every natural number. *)
LEMMA NatInductionOnSet ==
    ASSUME NEW S, 0 \in S, \A n \in Nat : n \in S => n + 1 \in S
    PROVE  Nat \subseteq S
<1> DEFINE T == Nat \ S
<1> DEFINE R == {p \in Nat \X Nat : p[1] < p[2]}
<1> SUFFICES ASSUME T # {} PROVE FALSE
  OBVIOUS
<1>0. R = OpToRel(<, Nat)
  BY Zenon DEF OpToRel
<1>1. T \subseteq Nat
  OBVIOUS
<1>6. IsWellFoundedOn(R, Nat)
  BY <1>0, NatLessThanWellFounded, Zenon
<1> HIDE DEF R
<1>2. PICK m \in T : \A y \in T : ~(<<y, m>> \in R)
  BY <1>1, <1>6, WFMin, Zenon
<1>3. m \in Nat /\ m # 0
  OBVIOUS
<1>4. m - 1 \in Nat /\ (m - 1) + 1 = m
  BY <1>3
<1>7. <<m - 1, m>> \in R
  BY <1>3, <1>4 DEF R
<1>5. m - 1 \in S
  BY <1>2, <1>4, <1>7
<1>. QED
  BY <1>4, <1>5

(* Induction up to n. *)
LEMMA UpToInduction ==
    ASSUME NEW n \in Nat, NEW S, 0 \in S, \A k \in 0..n - 1 : k \in S => k + 1 \in S
    PROVE  0..n \subseteq S
<1> DEFINE T == {k \in Nat : k > n} \cup S
<1>1. \A k \in Nat : k \in T => k + 1 \in T
  OBVIOUS
<1>2. Nat \subseteq T
  <2> HIDE DEF T
  <2>1. 0 \in T
    BY DEF T
  <2>. QED  BY <2>1, <1>1, NatInductionOnSet
<1>. QED  BY <1>2

\* f is the computation of n steps from b.
Solves(f, n, X, b, step) ==
    /\ f \in [0..n -> X] /\ f[0] = b
    /\ \A k \in 1..n : f[k] = step[k][f[k - 1]]

(* A step by step computation of n steps has a result. *)
LEMMA RecursionHasSolution ==
    ASSUME NEW n \in Nat, NEW X, NEW b \in X, NEW step \in [1..n -> [X -> X]]
    PROVE  \E f : Solves(f, n, X, b, step)
<1> DEFINE P(m, f) == f[0] = b /\ \A k \in 1..m : f[k] = step[k][f[k - 1]]
<1> DEFINE S == {m \in 0..n : \E f \in [0..m -> X] : P(m, f)}
<1>1. 0 \in S
  <2> DEFINE g == [k \in 0..0 |-> b]
  <2>1. g \in [0..0 -> X] /\ P(0, g)
    OBVIOUS
  <2>2. 0 \in 0..n
    OBVIOUS
  <2> HIDE DEF g, P
  <2>. QED  BY <2>1, <2>2
<1>2. ASSUME NEW m \in 0..n - 1, m \in S PROVE m + 1 \in S
  <2>1. PICK f \in [0..m -> X] : P(m, f)
    BY <1>2
  <2> DEFINE g == [k \in 0..m + 1 |-> IF k = m + 1 THEN step[m + 1][f[m]] ELSE f[k]]
  <2>2. f[m] \in X /\ m + 1 \in 1..n
    OBVIOUS
  <2>3. step[m + 1][f[m]] \in X
    BY <2>2
  <2>4. g \in [0..m + 1 -> X]
    BY <2>3
  <2>5. g[0] = b
    BY <2>1
  <2>6. ASSUME NEW k \in 1..m + 1 PROVE g[k] = step[k][g[k - 1]]
    <3>1. CASE k = m + 1
      <4>1. g[k - 1] = f[m]
        BY <3>1
      <4>2. g[k] = step[m + 1][f[m]]
        BY <3>1
      <4> HIDE DEF g
      <4>. QED  BY <3>1, <4>1, <4>2
    <3>2. CASE k # m + 1
      <4>1. k \in 1..m /\ k - 1 \in 0..m /\ k - 1 # m + 1
        BY <3>2
      <4>2. g[k] = f[k] /\ g[k - 1] = f[k - 1]
        BY <4>1
      <4>. QED  BY <4>1, <4>2, <2>1
    <3>. QED  BY <3>1, <3>2
  <2>7. P(m + 1, g)
    BY <2>5, <2>6
  <2>8. m + 1 \in 0..n
    OBVIOUS
  <2> HIDE DEF g, P
  <2>. QED  BY <2>4, <2>7, <2>8
<1>3. \A m \in 0..n - 1 : m \in S => m + 1 \in S
  <2> HIDE DEF S
  <2>. QED  BY <1>2
<1>4. 0..n \subseteq S
  <2> HIDE DEF S
  <2>. QED  BY <1>1, <1>3, UpToInduction
<1>5. PICK f \in [0..n -> X] : f[0] = b /\ \A k \in 1..n : f[k] = step[k][f[k - 1]]
  BY <1>4
<1>. QED  BY <1>5 DEF Solves


(* The largest of a set of numbers up to L that has L. *)
LEMMA MaxOfLast ==
    ASSUME NEW m \in Nat, NEW s \in SUBSET (1..m + 1), m + 1 \in s
    PROVE  Max(s) = m + 1
<1> DEFINE IsMax(x) == x \in s /\ \A y \in s : x >= y
<1>1. IsMax(m + 1)
  OBVIOUS
<1>2. Max(s) = CHOOSE x : IsMax(x)
  BY Zenon DEF Max
<1>3. IsMax(Max(s))
  <2> HIDE DEF IsMax
  <2>. QED  BY <1>1, <1>2, Zenon
<1>4. Max(s) \in s /\ Max(s) >= m + 1
  BY <1>3
<1>5. Max(s) \in 1..m + 1
  BY <1>4, Zenon
<1>. QED  BY <1>4, <1>5

(* A set of positive numbers up to n has a largest one. *)
LEMMA MaxInSet ==
    ASSUME NEW n \in Nat, NEW s \in SUBSET (1..n), s # {}
    PROVE  Max(s) \in s /\ \A y \in s : y <= Max(s)
<1> DEFINE S == {m \in 0..n : \A t \in SUBSET (1..m) : t # {} => Max(t) \in t /\ \A y \in t : y <= Max(t)}
<1>1. 0 \in S
  <2>1. 1..0 = {} /\ 0 \in 0..n
    OBVIOUS
  <2>. QED  BY <2>1
<1>2. \A m \in 0..n - 1 : m \in S => m + 1 \in S
  <2> SUFFICES ASSUME NEW m \in 0..n - 1, m \in S,
                      NEW t \in SUBSET (1..m + 1), t # {}
               PROVE  Max(t) \in t /\ \A y \in t : y <= Max(t)
    OBVIOUS
  <2>1. CASE m + 1 \in t
    BY <2>1, MaxOfLast
  <2>2. CASE m + 1 \notin t
    <3>1. t \in SUBSET (1..m)
      BY <2>2
    <3>. QED  BY <3>1
  <2>. QED  BY <2>1, <2>2
<1>3. 0..n \subseteq S
  <2> HIDE DEF S
  <2>. QED  BY <1>1, <1>2, UpToInduction
<1>. QED  BY <1>3

(* A set of numbers from zero on has a largest one, too. *)
LEMMA MaxFromZero ==
    ASSUME NEW n \in Nat, NEW s \in SUBSET (0..n), s # {}
    PROVE  Max(s) \in s /\ \A y \in s : y <= Max(s)
<1> DEFINE IsMax(x) == x \in s /\ \A y \in s : x >= y
<1> DEFINE t == {y \in 1..n + 1 : y - 1 \in s}
<1>1. PICK m \in t : \A y \in t : y <= m
  <2>1. t \in SUBSET (1..n + 1) /\ n + 1 \in Nat
    OBVIOUS
  <2>2. t # {}
    <3>1. PICK x \in 0..n : x \in s
      OBVIOUS
    <3>2. x + 1 \in 1..n + 1 /\ (x + 1) - 1 = x
      OBVIOUS
    <3>. QED  BY <3>1, <3>2
  <2> HIDE DEF t
  <2>. QED  BY <2>1, <2>2, MaxInSet
<1>2. IsMax(m - 1)
  <2>1. m \in 1..n + 1 /\ m - 1 \in s
    OBVIOUS
  <2>2. ASSUME NEW y \in s PROVE m - 1 >= y
    <3>1. y \in 0..n /\ y + 1 \in 1..n + 1 /\ (y + 1) - 1 = y
      OBVIOUS
    <3>2. y + 1 <= m
      BY <1>1, <3>1
    <3>. QED  BY <2>1, <3>1, <3>2
  <2>. QED  BY <2>1, <2>2
<1>3. Max(s) = CHOOSE x : IsMax(x)
  BY Zenon DEF Max
<1>4. IsMax(Max(s))
  <2> HIDE DEF IsMax
  <2>. QED  BY <1>2, <1>3, Zenon
<1>5. Max(s) \in 0..n /\ \A y \in s : y \in 0..n
  BY <1>4, Zenon
<1>. QED  BY <1>4, <1>5

\* F folds every set of indices up to n, its largest index last.
FoldsTo(F, n, X, b, step) ==
    /\ F \in [SUBSET (1..n) -> X] /\ F[{}] = b
    /\ \A s \in SUBSET (1..n) : s # {} => F[s] = step[Max(s)][F[s \ {Max(s)}]]

(* The recursion behind a fold over indices, from the largest down, has a solution. *)
LEMMA FoldHasSolution ==
    ASSUME NEW n \in Nat, NEW X, NEW b \in X, NEW step \in [1..n -> [X -> X]]
    PROVE  \E F : FoldsTo(F, n, X, b, step)
<1> DEFINE S == {m \in 0..n : \E F : FoldsTo(F, m, X, b, step)}
<1>1. 0 \in S
  <2> DEFINE F == [s \in SUBSET (1..0) |-> b]
  <2>0. 1..0 = {}
    OBVIOUS
  <2>1. FoldsTo(F, 0, X, b, step)
    BY <2>0 DEF FoldsTo
  <2>2. 0 \in 0..n
    OBVIOUS
  <2> HIDE DEF F
  <2>. QED  BY <2>1, <2>2
<1>2. ASSUME NEW m \in 0..n - 1, m \in S PROVE m + 1 \in S
  <2>1. PICK F : FoldsTo(F, m, X, b, step)
    BY <1>2
  <2> DEFINE L == m + 1
  <2> DEFINE G == [s \in SUBSET (1..L) |->
                     IF L \in s THEN step[L][F[s \ {L}]] ELSE F[s]]
  <2>2. /\ F \in [SUBSET (1..m) -> X] /\ F[{}] = b
        /\ \A s \in SUBSET (1..m) : s # {} => F[s] = step[Max(s)][F[s \ {Max(s)}]]
    BY <2>1, Zenon DEF FoldsTo
  <2>3. L \in 1..n /\ L \in Nat
    OBVIOUS
  <2>4. \A s \in SUBSET (1..L) : s \ {L} \in SUBSET (1..m)
    OBVIOUS
  <2>5. \A s \in SUBSET (1..L) : L \notin s => s \in SUBSET (1..m)
    OBVIOUS
  <2>6. \A s \in SUBSET (1..L) : L \in s => Max(s) = L
    BY MaxOfLast
  <2> HIDE DEF L
  <2>7. \A s \in SUBSET (1..L) : G[s] \in X
    BY <2>2, <2>3, <2>4, <2>5
  <2>8. G \in [SUBSET (1..L) -> X]
    BY <2>7
  <2>9. G[{}] = b
    BY <2>2
  <2>10. ASSUME NEW s \in SUBSET (1..L), s # {} PROVE G[s] = step[Max(s)][G[s \ {Max(s)}]]
    <3>1. CASE L \in s
      <4>1. s \ {L} \in SUBSET (1..L) /\ L \notin s \ {L}
        OBVIOUS
      <4>2. G[s \ {L}] = F[s \ {L}]
        BY <4>1
      <4>3. G[s] = step[L][F[s \ {L}]]
        BY <3>1
      <4>. QED  BY <4>2, <4>3, <2>6, <3>1, Zenon
    <3>2. CASE L \notin s
      <4>1. s \in SUBSET (1..m) /\ G[s] = F[s]
        BY <3>2, <2>5
      <4>2. s \ {Max(s)} \in SUBSET (1..L) /\ L \notin s \ {Max(s)}
        BY <3>2
      <4>3. G[s \ {Max(s)}] = F[s \ {Max(s)}]
        BY <4>2
      <4>. QED  BY <4>1, <4>3, <2>2, <2>10, Zenon
    <3>. QED  BY <3>1, <3>2
  <2>11. FoldsTo(G, L, X, b, step)
    <3> HIDE DEF G
    <3>. QED  BY <2>8, <2>9, <2>10 DEF FoldsTo
  <2>12. L \in 0..n
    BY <2>3
  <2> HIDE DEF G
  <2>. QED  BY <2>11, <2>12 DEF L
<1>3. \A m \in 0..n - 1 : m \in S => m + 1 \in S
  <2> HIDE DEF S
  <2>. QED  BY <1>2
<1>4. 0..n \subseteq S
  <2> HIDE DEF S
  <2>. QED  BY <1>1, <1>3, UpToInduction
<1>. QED  BY <1>4

\* acc has the partial sums of q.
IsSum(acc, q) ==
    /\ acc \in [0..Len(q) -> Int] /\ acc[0] = 0
    /\ \A k \in 1..Len(q) : acc[k] = acc[k - 1] + q[k]

(* A sum is what adding element by element gives. *)
LEMMA SumIs ==
    ASSUME NEW q \in Seq(Int), NEW acc, IsSum(acc, q)
    PROVE  FoldLeft(+, 0, q) = acc[Len(q)]
<1> DEFINE n == Len(q)
<1> DEFINE Eq(F) == F = [s \in SUBSET DOMAIN q |-> IF s = {} THEN 0 ELSE F[s \ {Max(s)}] + q[Max(s)]]
<1> DEFINE it == CHOOSE F : Eq(F)
<1> DEFINE step == [k \in 1..n |-> [x \in Int |-> x + q[k]]]
<1>0. n \in Nat /\ DOMAIN q = 1..n /\ 0 \in Int
  OBVIOUS
<1>1. FoldLeft(+, 0, q) = it[DOMAIN q]
  BY Zenon DEF FoldLeft, MapThenFoldSet
<1>2. \E F : Eq(F)
  <2>1. step \in [1..n -> [Int -> Int]]
    OBVIOUS
  <2>2. PICK F : FoldsTo(F, n, Int, 0, step)
    <3> HIDE DEF step
    <3>. QED  BY <1>0, <2>1, FoldHasSolution
  <2>3. F = [s \in SUBSET (1..n) |-> F[s]]
    BY <2>2 DEF FoldsTo
  <2>4. ASSUME NEW s \in SUBSET (1..n), s # {}
        PROVE  F[s] = F[s \ {Max(s)}] + q[Max(s)]
    <3>1. Max(s) \in 1..n
      BY <2>4, <1>0, MaxInSet
    <3>2. F[s] = step[Max(s)][F[s \ {Max(s)}]]
      BY <2>2, <2>4, Zenon DEF FoldsTo
    <3>3. F[s \ {Max(s)}] \in Int
      BY <2>2 DEF FoldsTo
    <3>. QED  BY <3>1, <3>2, <3>3
  <2>5. F[{}] = 0
    BY <2>2, Zenon DEF FoldsTo
  <2>6. \A s \in SUBSET (1..n) : F[s] = IF s = {} THEN 0 ELSE F[s \ {Max(s)}] + q[Max(s)]
    BY <2>4, <2>5, Zenon
  <2>. QED  BY <2>3, <2>6, <1>0, Zenon
<1>3. Eq(it)
  <2> HIDE DEF Eq
  <2>. QED  BY <1>2, Zenon
<1> HIDE DEF it
<1>4. /\ it[{}] = 0
      /\ \A s \in SUBSET (1..n) : s # {} => it[s] = it[s \ {Max(s)}] + q[Max(s)]
  <2>1. \A s \in SUBSET (1..n) : it[s] = IF s = {} THEN 0 ELSE it[s \ {Max(s)}] + q[Max(s)]
    BY <1>3, <1>0, Zenon
  <2>2. {} \in SUBSET (1..n)
    OBVIOUS
  <2>. QED  BY <2>1, <2>2, Zenon
<1> DEFINE S == {k \in 0..n : it[1..k] = acc[k]}
<1>5. 0 \in S
  <2>1. 1..0 = {} /\ 0 \in 0..n
    BY <1>0
  <2>. QED  BY <2>1, <1>4 DEF IsSum
<1>6. \A k \in 0..n - 1 : k \in S => k + 1 \in S
  <2> SUFFICES ASSUME NEW k \in 0..n - 1, it[1..k] = acc[k]
               PROVE  it[1..k + 1] = acc[k + 1]
    BY <1>0
  <2>1. 1..k + 1 \in SUBSET (1..n) /\ 1..k + 1 # {}
    <3>1. k + 1 \in 1..k + 1 /\ k + 1 <= n
      BY <1>0
    <3>2. \A i \in 1..k + 1 : i \in 1..n
      BY <1>0, <3>1
    <3> HIDE DEF n
    <3>. QED  BY <3>1, <3>2, Zenon
  <2>2. Max(1..k + 1) = k + 1
    BY <1>0, MaxOfLast
  <2>3. (1..k + 1) \ {k + 1} = 1..k
    BY <1>0
  <2>4. it[1..k + 1] = acc[k] + q[k + 1]
    BY <1>4, <2>1, <2>2, <2>3, ZenonT(30)
  <2>5. k + 1 \in 1..n /\ (k + 1) - 1 = k
    BY <1>0
  <2>6. acc[k + 1] = acc[k] + q[k + 1]
    BY <2>5 DEF IsSum
  <2>. QED  BY <2>4, <2>6
<1>7. 0..n \subseteq S
  <2> HIDE DEF S
  <2>. QED  BY <1>0, <1>5, <1>6, UpToInduction
<1>8. it[1..n] = acc[n]
  BY <1>0, <1>7
<1>. QED  BY <1>0, <1>1, <1>8, Zenon

(* The partial sums of a sequence of integers exist. *)
LEMMA SumExists ==
    ASSUME NEW q \in Seq(Int)
    PROVE  \E acc : IsSum(acc, q)
<1> DEFINE n == Len(q)
<1> DEFINE step == [k \in 1..n |-> [x \in Int |-> x + q[k]]]
<1>0. n \in Nat /\ 0 \in Int
  OBVIOUS
<1>1. step \in [1..n -> [Int -> Int]]
  OBVIOUS
<1>2. PICK f : Solves(f, n, Int, 0, step)
  <2> HIDE DEF step, n
  <2>. QED  BY <1>0, <1>1, RecursionHasSolution
<1>3. ASSUME NEW k \in 1..n PROVE f[k] = f[k - 1] + q[k]
  <2>1. f[k - 1] \in Int
    BY <1>0, <1>2 DEF Solves
  <2>2. f[k] = step[k][f[k - 1]]
    BY <1>2, Zenon DEF Solves
  <2>. QED  BY <2>1, <2>2
<1>. QED  BY <1>2, <1>3 DEF IsSum, Solves

(* The sum of integers is an integer. *)
LEMMA SumType ==
    ASSUME NEW q \in Seq(Int)
    PROVE  FoldLeft(+, 0, q) \in Int
<1>1. PICK acc : IsSum(acc, q)
  BY SumExists
<1>2. FoldLeft(+, 0, q) = acc[Len(q)]
  BY <1>1, SumIs
<1>3. acc[Len(q)] \in Int
  <2>1. Len(q) \in 0..Len(q)
    OBVIOUS
  <2>. QED  BY <1>1, <2>1 DEF IsSum
<1>. QED  BY <1>2, <1>3, Zenon

(* The sum of nothing. *)
LEMMA SumEmpty == FoldLeft(+, 0, <<>>) = 0
<1>0. <<>> \in Seq(Int) /\ Len(<<>>) = 0
  OBVIOUS
<1>1. PICK acc : IsSum(acc, <<>>)
  BY <1>0, SumExists
<1>2. FoldLeft(+, 0, <<>>) = acc[Len(<<>>)]
  BY <1>0, <1>1, SumIs
<1>. QED  BY <1>0, <1>1, <1>2 DEF IsSum

(* The sum after an element is appended. *)
LEMMA SumAppend ==
    ASSUME NEW q \in Seq(Int), NEW x \in Int
    PROVE  FoldLeft(+, 0, Append(q, x)) = FoldLeft(+, 0, q) + x
<1> DEFINE r == Append(q, x)
<1>1. PICK acc : IsSum(acc, q)
  BY SumExists
<1> DEFINE more == [k \in 0..Len(r) |-> IF k = Len(r) THEN acc[Len(q)] + x ELSE acc[k]]
<1>2. r \in Seq(Int) /\ Len(r) = Len(q) + 1 /\ r[Len(r)] = x
      /\ \A k \in 1..Len(q) : r[k] = q[k]
  OBVIOUS
<1> HIDE DEF r
<1>3. IsSum(more, r)
  <2>1. \A k \in 1..Len(r) : more[k] = more[k - 1] + r[k]
    BY <1>1, <1>2 DEF IsSum
  <2>2. Len(q) \in Nat /\ Len(q) \in 0..Len(q)
    OBVIOUS
  <2>3. acc[Len(q)] \in Int /\ acc[0] = 0
    BY <1>1, <2>2 DEF IsSum
  <2>4. \A k \in 0..Len(r) : more[k] \in Int
    <3>1. ASSUME NEW k \in 0..Len(q) PROVE acc[k] \in Int
      BY <1>1 DEF IsSum
    <3>2. \A k \in 0..Len(r) : k # Len(r) => k \in 0..Len(q)
      BY <1>2, <2>2
    <3>. QED  BY <2>3, <3>1, <3>2
  <2>5. more \in [0..Len(r) -> Int] /\ more[0] = 0
    BY <1>2, <2>2, <2>3, <2>4
  <2> HIDE DEF more
  <2>. QED  BY <2>1, <2>5 DEF IsSum
<1>4. more[Len(r)] = acc[Len(q)] + x
  BY <1>2
<1>5. FoldLeft(+, 0, r) = more[Len(r)] /\ FoldLeft(+, 0, q) = acc[Len(q)]
  <2> HIDE DEF more
  <2>. QED  BY <1>1, <1>2, <1>3, SumIs
<1>. QED  BY <1>4, <1>5, Zenon DEF r

(* The sum after an element is put in front. *)
LEMMA SumPrepend ==
    ASSUME NEW q \in Seq(Int), NEW x \in Int
    PROVE  FoldLeft(+, 0, <<x>> \o q) = x + FoldLeft(+, 0, q)
<1> DEFINE r == <<x>> \o q
<1>1. PICK acc : IsSum(acc, q)
  BY SumExists
<1> DEFINE more == [k \in 0..Len(r) |-> IF k = 0 THEN 0 ELSE x + acc[k - 1]]
<1>2. r \in Seq(Int) /\ Len(r) = Len(q) + 1 /\ r[1] = x
      /\ \A k \in 2..Len(r) : r[k] = q[k - 1]
  OBVIOUS
<1> HIDE DEF r
<1>3. IsSum(more, r)
  <2>1. ASSUME NEW k \in 1..Len(r) PROVE more[k] = more[k - 1] + r[k]
    <3>1. CASE k = 1
      BY <1>1, <1>2, <3>1 DEF IsSum
    <3>2. CASE k # 1
      <4>1. k \in 2..Len(r) /\ k - 1 \in 1..Len(q)
        BY <1>2, <3>2
      <4>2. acc[k - 1] = acc[(k - 1) - 1] + q[k - 1]
        BY <1>1, <4>1 DEF IsSum
      <4>3. acc[(k - 1) - 1] \in Int /\ q[k - 1] \in Int
        <5>1. acc \in [0..Len(q) -> Int]
          BY <1>1, Zenon DEF IsSum
        <5>2. (k - 1) - 1 \in 0..Len(q)
          BY <4>1
        <5>. QED  BY <4>1, <5>1, <5>2
      <4>4. r[k] = q[k - 1] /\ k # 1 /\ k # 0 /\ k - 1 # 0
        BY <1>2, <4>1
      <4>5. more[k] = x + acc[k - 1] /\ more[k - 1] = x + acc[(k - 1) - 1]
        BY <1>2, <4>1, <4>4
      <4> HIDE DEF more
      <4>. QED  BY <4>2, <4>3, <4>4, <4>5
    <3>. QED  BY <3>1, <3>2
  <2>2. more \in [0..Len(r) -> Int] /\ more[0] = 0
    BY <1>1, <1>2 DEF IsSum
  <2> HIDE DEF more
  <2>. QED  BY <2>1, <2>2 DEF IsSum
<1>4. more[Len(r)] = x + acc[Len(q)]
  BY <1>2
<1>5. FoldLeft(+, 0, r) = more[Len(r)] /\ FoldLeft(+, 0, q) = acc[Len(q)]
  <2> HIDE DEF more
  <2>. QED  BY <1>1, <1>2, <1>3, SumIs
<1>. QED  BY <1>4, <1>5, Zenon DEF r

(* The sum after an element is replaced. *)
LEMMA SumUpdate ==
    ASSUME NEW q \in Seq(Int), NEW j \in 1..Len(q), NEW x \in Int
    PROVE  FoldLeft(+, 0, [q EXCEPT ![j] = x]) = FoldLeft(+, 0, q) + (x - q[j])
<1> DEFINE r == [q EXCEPT ![j] = x]
<1>1. PICK acc : IsSum(acc, q)
  BY SumExists
<1> DEFINE more == [k \in 0..Len(r) |-> IF k >= j THEN acc[k] + (x - q[j]) ELSE acc[k]]
<1>2. r \in Seq(Int) /\ Len(r) = Len(q)
      /\ \A k \in 1..Len(r) : r[k] = IF k = j THEN x ELSE q[k]
  OBVIOUS
<1>a. q[j] \in Int
  OBVIOUS
<1> HIDE DEF r
<1>3. IsSum(more, r)
  <2>1. ASSUME NEW k \in 1..Len(r) PROVE more[k] = more[k - 1] + r[k]
    <3>0. k \in 1..Len(q) /\ k - 1 \in 0..Len(q) /\ k \in 0..Len(r) /\ k - 1 \in 0..Len(r)
      BY <1>2
    <3>1. acc[k] = acc[k - 1] + q[k] /\ acc[k - 1] \in Int /\ q[k] \in Int
      BY <1>1, <3>0, SMTT(30) DEF IsSum
    <3>2. r[k] = IF k = j THEN x ELSE q[k]
      BY <1>2
    <3>3. /\ more[k] = IF k >= j THEN acc[k] + (x - q[j]) ELSE acc[k]
          /\ more[k - 1] = IF k - 1 >= j THEN acc[k - 1] + (x - q[j]) ELSE acc[k - 1]
      BY <3>0
    <3> HIDE DEF more
    <3>4. CASE k = j
      BY <3>1, <3>2, <3>3, <3>4, <1>a
    <3>5. CASE k > j
      BY <3>1, <3>2, <3>3, <3>5, <1>a
    <3>6. CASE k < j
      BY <3>1, <3>2, <3>3, <3>6, <1>a
    <3>. QED  BY <3>4, <3>5, <3>6
  <2>2. more \in [0..Len(r) -> Int] /\ more[0] = 0
    BY <1>1, <1>2, <1>a DEF IsSum
  <2> HIDE DEF more
  <2>. QED  BY <2>1, <2>2 DEF IsSum
<1>4. more[Len(r)] = acc[Len(q)] + (x - q[j])
  BY <1>2
<1>5. FoldLeft(+, 0, r) = more[Len(r)] /\ FoldLeft(+, 0, q) = acc[Len(q)]
  <2> HIDE DEF more
  <2>. QED  BY <1>1, <1>2, <1>3, SumIs
<1>. QED  BY <1>4, <1>5, Zenon DEF r

(* A sequence is its first element and the rest. *)
LEMMA SplitFirst ==
    ASSUME NEW S, NEW w \in Seq(S), w # <<>>
    PROVE  w = <<Head(w)>> \o Tail(w) /\ Head(w) \in S /\ Tail(w) \in Seq(S) /\ Head(w) = w[1]
OBVIOUS

(* A sequence is its front and its last element. *)
LEMMA SplitLast ==
    ASSUME NEW S, NEW w \in Seq(S), w # <<>>
    PROVE  w[Len(w)] \in S /\ \E front \in Seq(S) : w = Append(front, w[Len(w)])
<1> DEFINE front == [k \in 1..Len(w) - 1 |-> w[k]]
<1>1. Len(w) \in Nat \ {0} /\ w[Len(w)] \in S
  OBVIOUS
<1>2. front \in Seq(S) /\ Len(front) = Len(w) - 1
  BY <1>1
<1>3. w = Append(front, w[Len(w)])
  BY <1>1, <1>2
<1>. QED  BY <1>1, <1>2, <1>3

(* Replacing the last element of a sequence. *)
LEMMA ReplaceLast ==
    ASSUME NEW S, NEW front \in Seq(S), NEW a \in S, NEW b \in S
    PROVE  [Append(front, a) EXCEPT ![Len(front) + 1] = b] = Append(front, b)
<1> DEFINE n == Len(front) + 1
<1> DEFINE u == Append(front, a)
<1> DEFINE v == Append(front, b)
<1>0. n \in Nat /\ u \in Seq(S) /\ Len(u) = n /\ v \in Seq(S) /\ Len(v) = n
  OBVIOUS
<1>1. n \in Nat /\ DOMAIN u = 1..n /\ DOMAIN v = 1..n /\ v = [k \in 1..n |-> v[k]]
  <2> HIDE DEF n, u, v
  <2>. QED  BY <1>0
<1>2. \A k \in 1..n : v[k] = IF k = n THEN b ELSE u[k]
  OBVIOUS
<1> HIDE DEF n, u, v
<1>3. [u EXCEPT ![n] = b] = [k \in 1..n |-> IF k = n THEN b ELSE u[k]]
  BY <1>1
<1>4. [k \in 1..n |-> IF k = n THEN b ELSE u[k]] = [k \in 1..n |-> v[k]]
  BY <1>2
<1>. QED  BY <1>1, <1>3, <1>4, Zenon DEF n, u, v

(* Replacing the first element of a sequence. *)
LEMMA ReplaceFirst ==
    ASSUME NEW S, NEW rest \in Seq(S), NEW a \in S, NEW b \in S
    PROVE  [(<<a>> \o rest) EXCEPT ![1] = b] = <<b>> \o rest
<1> DEFINE n == Len(rest) + 1
<1> DEFINE u == <<a>> \o rest
<1> DEFINE v == <<b>> \o rest
<1>1. n \in Nat /\ DOMAIN u = 1..n /\ DOMAIN v = 1..n /\ v = [k \in 1..n |-> v[k]]
  OBVIOUS
<1>2. \A k \in 1..n : v[k] = IF k = 1 THEN b ELSE u[k]
  OBVIOUS
<1> HIDE DEF n, u, v
<1>3. [u EXCEPT ![1] = b] = [k \in 1..n |-> IF k = 1 THEN b ELSE u[k]]
  BY <1>1
<1>4. [k \in 1..n |-> IF k = 1 THEN b ELSE u[k]] = [k \in 1..n |-> v[k]]
  BY <1>2
<1>. QED  BY <1>1, <1>3, <1>4, Zenon DEF u, v

(* The last element of a concatenation. *)
LEMMA ConcatLast ==
    ASSUME NEW S, NEW a \in Seq(S), NEW b \in Seq(S), b # <<>>
    PROVE  a \o b # <<>> /\ a \o b \in Seq(S) /\ (a \o b)[Len(a \o b)] = b[Len(b)]
OBVIOUS

(* The tail of a concatenation. *)
LEMMA ConcatTail ==
    ASSUME NEW S, NEW a \in Seq(S), NEW b \in Seq(S), a # <<>>
    PROVE  a \o b # <<>> /\ Tail(a \o b) = Tail(a) \o b
OBVIOUS

(* The elements of a concatenation. *)
LEMMA ConcatElements ==
    ASSUME NEW S, NEW a \in Seq(S), NEW b \in Seq(S)
    PROVE  /\ a \o b \in Seq(S) /\ Len(a \o b) = Len(a) + Len(b)
           /\ \A k \in 1..Len(a) + Len(b) :
                 (a \o b)[k] = IF k <= Len(a) THEN a[k] ELSE b[k - Len(a)]
OBVIOUS

(* Concatenation is associative. *)
LEMMA ConcatAssociative ==
    ASSUME NEW X, NEW a \in Seq(X), NEW b \in Seq(X), NEW c \in Seq(X)
    PROVE  a \o (b \o c) = (a \o b) \o c
OBVIOUS

\* acc has the partial concatenations of g.
IsConcat(acc, g, X) ==
    /\ acc \in [0..Len(g) -> Seq(X)] /\ acc[0] = <<>>
    /\ \A k \in 1..Len(g) : acc[k] = acc[k - 1] \o g[k]

(* The partial concatenations of a sequence of sequences exist. *)
LEMMA ConcatExists ==
    ASSUME NEW X, NEW g \in Seq(Seq(X))
    PROVE  \E acc : IsConcat(acc, g, X)
<1> DEFINE n == Len(g)
<1> DEFINE step == [k \in 1..n |-> [x \in Seq(X) |-> x \o g[k]]]
<1>0. n \in Nat /\ <<>> \in Seq(X) /\ \A k \in 1..n : g[k] \in Seq(X)
  OBVIOUS
<1>1. step \in [1..n -> [Seq(X) -> Seq(X)]]
  BY <1>0
<1>2. PICK f : Solves(f, n, Seq(X), <<>>, step)
  <2> HIDE DEF step, n
  <2>. QED  BY <1>0, <1>1, RecursionHasSolution
<1>3. ASSUME NEW k \in 1..n PROVE f[k] = f[k - 1] \o g[k]
  <2>1. f[k - 1] \in Seq(X)
    <3>1. f \in [0..n -> Seq(X)] /\ k - 1 \in 0..n
      BY <1>0, <1>2 DEF Solves
    <3> HIDE DEF n
    <3>. QED  BY <3>1, Zenon
  <2>2. f[k] = step[k][f[k - 1]]
    BY <1>2, Zenon DEF Solves
  <2>. QED  BY <2>1, <2>2
<1>4. f \in [0..n -> Seq(X)] /\ f[0] = <<>>
  BY <1>2, Zenon DEF Solves
<1>. QED  BY <1>3, <1>4, Zenon DEF IsConcat

(* A flattened sequence is what concatenating one by one gives. *)
LEMMA FlattenIs ==
    ASSUME NEW X, NEW g \in Seq(Seq(X)), NEW acc, IsConcat(acc, g, X)
    PROVE  FlattenSeq(g) = acc[Len(g)]
<1> DEFINE n == Len(g)
<1> DEFINE Eq(f) == f = [i \in 1..n |-> IF i = 1 THEN g[i] ELSE f[i - 1] \o g[i]]
<1> DEFINE it == CHOOSE f : Eq(f)
<1>0. n \in Nat /\ \A k \in 1..n : g[k] \in Seq(X)
  OBVIOUS
<1>1. acc \in [0..n -> Seq(X)] /\ acc[0] = <<>> /\ \A k \in 1..n : acc[k] = acc[k - 1] \o g[k]
  BY Zenon DEF IsConcat
<1>2. CASE n = 0
  <2>1. FlattenSeq(g) = g
    BY <1>2, Zenon DEF FlattenSeq
  <2>2. g = <<>>
    BY <1>2
  <2>. QED  BY <1>1, <1>2, <2>1, <2>2, Zenon
<1>3. CASE n # 0
  <2>1. FlattenSeq(g) = it[n]
    BY <1>3, Zenon DEF FlattenSeq
  <2> DEFINE f == [i \in 1..n |-> acc[i]]
  <2>2. \A i \in 1..n : f[i] = IF i = 1 THEN g[i] ELSE f[i - 1] \o g[i]
    <3> SUFFICES ASSUME NEW i \in 1..n PROVE f[i] = IF i = 1 THEN g[i] ELSE f[i - 1] \o g[i]
      OBVIOUS
    <3>1. CASE i = 1
      <4>0. 1 \in 1..n /\ 1 - 1 = 0
        BY <1>0, <3>1
      <4>1. acc[1] = <<>> \o g[1]
        BY <1>1, <4>0, Zenon
      <4>2. g[1] \in Seq(X)
        BY <1>0, <4>0, Zenon
      <4>3. acc[1] = g[1]
        BY <4>1, <4>2
      <4>. QED  BY <3>1, <4>3
    <3>2. CASE i # 1
      <4>1. i - 1 \in 1..n
        BY <3>2, <1>0
      <4>2. f[i - 1] = acc[i - 1] /\ f[i] = acc[i]
        BY <4>1
      <4>. QED  BY <1>1, <3>2, <4>2, Zenon
    <3>. QED  BY <3>1, <3>2
  <2>3. Eq(f)
    <3>1. f = [i \in 1..n |-> f[i]]
      OBVIOUS
    <3> HIDE DEF f
    <3>. QED  BY <2>2, <3>1, Zenon
  <2>4. Eq(it)
    <3> HIDE DEF Eq
    <3>. QED  BY <2>3, Zenon
  <2> HIDE DEF it, f
  <2>5. \A i \in 1..n : it[i] = IF i = 1 THEN g[i] ELSE it[i - 1] \o g[i]
    BY <2>4, Zenon
  <2> DEFINE S == {k \in 0..n : k # 0 => it[k] = acc[k]}
  <2>6. 0 \in S
    BY <1>0
  <2>7. \A k \in 0..n - 1 : k \in S => k + 1 \in S
    <3> SUFFICES ASSUME NEW k \in 0..n - 1, k # 0 => it[k] = acc[k]
                 PROVE  it[k + 1] = acc[k + 1]
      BY <1>0
    <3>0. k + 1 \in 1..n /\ (k + 1) - 1 = k
      BY <1>0
    <3>1. CASE k = 0
      <4>1. it[1] = g[1]
        BY <2>5, <3>0, <3>1
      <4>0. 1 \in 1..n /\ 1 - 1 = 0
        BY <1>0, <3>0, <3>1
      <4>2. acc[1] = <<>> \o g[1] /\ g[1] \in Seq(X)
        BY <1>0, <1>1, <4>0, Zenon
      <4>3. acc[1] = g[1]
        BY <4>2
      <4>. QED  BY <3>1, <4>1, <4>3
    <3>2. CASE k # 0
      <4>1. k + 1 # 1
        BY <3>2
      <4>2. it[k + 1] = it[k] \o g[k + 1]
        BY <2>5, <3>0, <4>1, Zenon
      <4>3. acc[k + 1] = acc[k] \o g[k + 1]
        BY <1>1, <3>0, Zenon
      <4>. QED  BY <3>2, <4>2, <4>3, Zenon
    <3>. QED  BY <3>1, <3>2
  <2>8. 0..n \subseteq S
    <3> HIDE DEF S
    <3>. QED  BY <1>0, <2>6, <2>7, UpToInduction
  <2>9. it[n] = acc[n]
    BY <1>0, <1>3, <2>8
  <2>. QED  BY <2>1, <2>9, Zenon
<1>. QED  BY <1>2, <1>3

(* Flattening gives a sequence over the same set. *)
LEMMA FlattenType ==
    ASSUME NEW X, NEW g \in Seq(Seq(X))
    PROVE  FlattenSeq(g) \in Seq(X)
<1>1. PICK acc : IsConcat(acc, g, X)
  BY ConcatExists
<1>2. FlattenSeq(g) = acc[Len(g)]
  BY <1>1, FlattenIs
<1>3. acc[Len(g)] \in Seq(X)
  <2>1. Len(g) \in 0..Len(g)
    OBVIOUS
  <2>. QED  BY <1>1, <2>1 DEF IsConcat
<1>. QED  BY <1>2, <1>3, Zenon

(* Flattening after a sequence is appended. *)
LEMMA FlattenAppend ==
    ASSUME NEW X, NEW g \in Seq(Seq(X)), NEW s \in Seq(X)
    PROVE  FlattenSeq(Append(g, s)) = FlattenSeq(g) \o s
<1> DEFINE r == Append(g, s)
<1>1. PICK acc : IsConcat(acc, g, X)
  BY ConcatExists
<1> DEFINE more == [k \in 0..Len(r) |-> IF k = Len(r) THEN acc[Len(g)] \o s ELSE acc[k]]
<1>2. r \in Seq(Seq(X)) /\ Len(r) = Len(g) + 1 /\ r[Len(r)] = s
      /\ \A k \in 1..Len(g) : r[k] = g[k]
  OBVIOUS
<1>a. Len(g) \in Nat /\ Len(g) \in 0..Len(g)
  OBVIOUS
<1>b. /\ \A k \in 0..Len(g) : acc[k] \in Seq(X)
      /\ acc[0] = <<>>
      /\ \A k \in 1..Len(g) : acc[k] = acc[k - 1] \o g[k]
  BY <1>1 DEF IsConcat
<1> HIDE DEF r
<1>3. IsConcat(more, r, X)
  <2>1. ASSUME NEW k \in 1..Len(r) PROVE more[k] = more[k - 1] \o r[k]
    <3>1. CASE k = Len(r)
      <4>1. more[k] = acc[Len(g)] \o s /\ more[k - 1] = acc[Len(g)] /\ r[k] = s
        BY <1>2, <1>a, <3>1
      <4>. QED  BY <4>1, Zenon
    <3>2. CASE k # Len(r)
      <4>1. k \in 1..Len(g) /\ k - 1 # Len(r) /\ k \in 0..Len(r) /\ k - 1 \in 0..Len(r)
        BY <1>2, <1>a, <3>2
      <4>2. more[k] = acc[k] /\ more[k - 1] = acc[k - 1]
        BY <3>2, <4>1
      <4>. QED  BY <1>2, <1>b, <4>1, <4>2, Zenon
    <3>. QED  BY <3>1, <3>2
  <2>4. \A k \in 0..Len(r) : more[k] \in Seq(X)
    <3>1. acc[Len(g)] \o s \in Seq(X)
      BY <1>a, <1>b
    <3>2. \A k \in 0..Len(r) : k # Len(r) => k \in 0..Len(g)
      BY <1>2, <1>a
    <3>. QED  BY <1>b, <3>1, <3>2
  <2>5. more \in [0..Len(r) -> Seq(X)]
    BY <2>4
  <2>6. more[0] = <<>>
    BY <1>2, <1>a, <1>b
  <2> HIDE DEF more
  <2>. QED  BY <2>1, <2>5, <2>6 DEF IsConcat
<1>4. more[Len(r)] = acc[Len(g)] \o s
  BY <1>2, <1>a
<1>5. FlattenSeq(r) = more[Len(r)] /\ FlattenSeq(g) = acc[Len(g)]
  <2> HIDE DEF more
  <2>. QED  BY <1>1, <1>2, <1>3, FlattenIs
<1>. QED  BY <1>4, <1>5, Zenon DEF r

(* Flattening after a sequence is put in front. *)
LEMMA FlattenPrepend ==
    ASSUME NEW X, NEW g \in Seq(Seq(X)), NEW s \in Seq(X)
    PROVE  FlattenSeq(<<s>> \o g) = s \o FlattenSeq(g)
<1> DEFINE r == <<s>> \o g
<1>1. PICK acc : IsConcat(acc, g, X)
  BY ConcatExists
<1> DEFINE more == [k \in 0..Len(r) |-> IF k = 0 THEN <<>> ELSE s \o acc[k - 1]]
<1>2. r \in Seq(Seq(X)) /\ Len(r) = Len(g) + 1 /\ r[1] = s
      /\ \A k \in 2..Len(r) : r[k] = g[k - 1]
  OBVIOUS
<1>a. Len(g) \in Nat /\ Len(g) \in 0..Len(g) /\ \A k \in 1..Len(g) : g[k] \in Seq(X)
  OBVIOUS
<1>b. /\ \A k \in 0..Len(g) : acc[k] \in Seq(X)
      /\ acc[0] = <<>>
      /\ \A k \in 1..Len(g) : acc[k] = acc[k - 1] \o g[k]
  BY <1>1 DEF IsConcat
<1> HIDE DEF r
<1>c. \A k \in 1..Len(r) : k \in 0..Len(r) /\ k # 0 /\ more[k] = s \o acc[k - 1]
  OBVIOUS
<1>3. IsConcat(more, r, X)
  <2>0. more[0] = <<>>
    BY <1>2, <1>a
  <2>1. ASSUME NEW k \in 1..Len(r) PROVE more[k] = more[k - 1] \o r[k]
    <3>1. CASE k = 1
      <4>1. more[k] = s \o acc[0] /\ more[k - 1] = <<>> /\ r[k] = s
        BY <1>2, <1>c, <2>0, <3>1
      <4>. QED  BY <1>b, <4>1, SMTT(30)
    <3>2. CASE k # 1
      <4>1. k \in 2..Len(r) /\ k - 1 \in 1..Len(g) /\ k - 1 \in 1..Len(r)
            /\ (k - 1) - 1 \in 0..Len(g)
        BY <1>2, <1>a, <3>2
      <4>2. acc[k - 1] = acc[(k - 1) - 1] \o g[k - 1] /\ r[k] = g[k - 1]
        BY <1>2, <1>b, <4>1, Zenon
      <4>3. more[k] = s \o acc[k - 1] /\ more[k - 1] = s \o acc[(k - 1) - 1]
        BY <1>c, <4>1, Zenon
      <4>4. acc[(k - 1) - 1] \in Seq(X) /\ g[k - 1] \in Seq(X)
        BY <1>a, <1>b, <4>1
      <4>5. s \o (acc[(k - 1) - 1] \o g[k - 1]) = (s \o acc[(k - 1) - 1]) \o g[k - 1]
        <5>1. \A u, w \in Seq(X) : s \o (u \o w) = (s \o u) \o w
          OBVIOUS
        <5>. QED  BY <4>4, <5>1, Zenon
      <4>. QED  BY <4>2, <4>3, <4>5, Zenon
    <3>. QED  BY <3>1, <3>2
  <2>4. \A k \in 0..Len(r) : more[k] \in Seq(X)
    <3>1. \A k \in 0..Len(g) : s \o acc[k] \in Seq(X)
      BY <1>b
    <3>2. \A k \in 0..Len(r) : k # 0 => k - 1 \in 0..Len(g)
      BY <1>2, <1>a
    <3>3. <<>> \in Seq(X)
      OBVIOUS
    <3>. QED  BY <3>1, <3>2, <3>3
  <2>5. more \in [0..Len(r) -> Seq(X)]
    BY <2>4
  <2> HIDE DEF more
  <2>. QED  BY <2>1, <2>5, <2>0 DEF IsConcat
<1>4. more[Len(r)] = s \o acc[Len(g)]
  BY <1>2, <1>a, <1>c
<1>5. FlattenSeq(r) = more[Len(r)] /\ FlattenSeq(g) = acc[Len(g)]
  <2> HIDE DEF more
  <2>. QED  BY <1>1, <1>2, <1>3, FlattenIs
<1>. QED  BY <1>4, <1>5, Zenon DEF r

-----------------------------------------------------------------------------
(* Smallest and largest                                                    *)

(* The larger of two numbers.                                              *)
LEMMA MaxOfTwo ==
    ASSUME NEW a \in Int, NEW b \in Int
    PROVE  Max({a, b}) = IF a >= b THEN a ELSE b
<1> DEFINE IsMax(x) == x \in {a, b} /\ \A y \in {a, b} : x >= y
<1>1. Max({a, b}) = CHOOSE x : IsMax(x)
  BY Zenon DEF Max
<1>2. IsMax(IF a >= b THEN a ELSE b)
  OBVIOUS
<1>3. IsMax(Max({a, b}))
  <2> HIDE DEF IsMax
  <2>. QED  BY <1>1, <1>2, Zenon
<1>4. Max({a, b}) \in {a, b} /\ Max({a, b}) >= a /\ Max({a, b}) >= b
  BY <1>3
<1>. QED  BY <1>4

(* The smaller of two numbers.                                             *)
LEMMA MinOfTwo ==
    ASSUME NEW a \in Int, NEW b \in Int
    PROVE  Min({a, b}) = IF a <= b THEN a ELSE b
<1> DEFINE IsMin(x) == x \in {a, b} /\ \A y \in {a, b} : x <= y
<1>1. Min({a, b}) = CHOOSE x : IsMin(x)
  BY Zenon DEF Min
<1>2. IsMin(IF a <= b THEN a ELSE b)
  OBVIOUS
<1>3. IsMin(Min({a, b}))
  <2> HIDE DEF IsMin
  <2>. QED  BY <1>1, <1>2, Zenon
<1>4. Min({a, b}) \in {a, b} /\ Min({a, b}) <= a /\ Min({a, b}) <= b
  BY <1>3
<1>. QED  BY <1>4

(* The smallest of some indices.                                           *)
LEMMA MinInSet ==
    ASSUME NEW n \in Nat, NEW s \in SUBSET (1..n), s # {}
    PROVE  Min(s) \in s /\ \A y \in s : Min(s) <= y
<1> DEFINE IsMin(x) == x \in s /\ \A y \in s : x <= y
<1>1. Min(s) = CHOOSE x : IsMin(x)
  BY Zenon DEF Min
<1>2. \E x : IsMin(x)
  <2> DEFINE T == {i \in 0..n : ~\E y \in s : y <= i}
  <2> SUFFICES ASSUME \A x \in s : \E y \in s : y < x PROVE FALSE
    OBVIOUS
  <2>1. 0 \in T
    OBVIOUS
  <2>2. ASSUME NEW i \in 0..n - 1, i \in T PROVE i + 1 \in T
    <3>1. i + 1 \in 0..n
      OBVIOUS
    <3>2. ASSUME NEW x \in s, x <= i + 1 PROVE FALSE
      <4>1. PICK y \in s : y < x
        OBVIOUS
      <4>2. y <= i
        BY <3>2, <4>1
      <4>. QED  BY <2>2, <4>2
    <3>. QED  BY <3>1, <3>2
  <2>3. 0..n \subseteq T
    <3> HIDE DEF T
    <3>. QED  BY <2>1, <2>2, UpToInduction
  <2>4. n \in T
    BY <2>3
  <2>5. \A y \in s : y <= n
    OBVIOUS
  <2>. QED  BY <2>4, <2>5
<1>3. IsMin(Min(s))
  <2> HIDE DEF IsMin
  <2>. QED  BY <1>1, <1>2, Zenon
<1>. QED  BY <1>3

-----------------------------------------------------------------------------
(* Folds over a finite set                                                 *)

(* F folds the subsets of S, an element of a set being taken out first.    *)
FoldsFrom(F, S, b, step) ==
    \A s \in SUBSET S : F[s] = IF s = {} THEN b ELSE
        step[CHOOSE x \in s : TRUE][F[s \ {CHOOSE x \in s : TRUE}]]

(* A fold over a finite set, element by element, has a result.             *)
LEMMA SetFoldExists ==
    ASSUME NEW S, IsFiniteSet(S), NEW X, NEW b \in X, NEW step \in [S -> [X -> X]]
    PROVE  \E F \in [SUBSET S -> X] : FoldsFrom(F, S, b, step)
<1> DEFINE c(s) == CHOOSE x \in s : TRUE
<1> DEFINE G == [SUBSET S -> X]
<1> DEFINE more(g) == [s \in SUBSET S |-> IF s = {} THEN b ELSE step[c(s)][g[s \ {c(s)}]]]
<1> DEFINE n == Cardinality(S)
<1>0. n \in Nat
  BY FS_CardinalityType
<1>1. \A s \in SUBSET S : s # {} => c(s) \in s /\ c(s) \in S /\ s \ {c(s)} \in SUBSET S
  OBVIOUS
<1> HIDE DEF c
<1>2. \A g \in G : more(g) \in G
  BY <1>1
<1>3. \A g \in G, s \in SUBSET S : more(g)[s] = IF s = {} THEN b ELSE step[c(s)][g[s \ {c(s)}]]
  OBVIOUS
<1> HIDE DEF more
<1> DEFINE walk == [m \in 1..n + 1 |-> [g \in G |-> more(g)]]
<1> DEFINE start == [s \in SUBSET S |-> b]
<1>4. start \in G /\ walk \in [1..n + 1 -> [G -> G]] /\ n + 1 \in Nat
  <2>1. start \in G
    OBVIOUS
  <2> HIDE DEF G, n
  <2>2. [g \in G |-> more(g)] \in [G -> G]
    BY <1>2
  <2>3. walk \in [1..n + 1 -> [G -> G]]
    BY <2>2
  <2>. QED  BY <1>0, <2>1, <2>3
<1>5. PICK f : Solves(f, n + 1, G, start, walk)
  <2> HIDE DEF G, walk, start, n
  <2>. QED  BY <1>4, RecursionHasSolution
<1>6. f \in [0..n + 1 -> G] /\ \A m \in 1..n + 1 : f[m] = more(f[m - 1])
  <2>1. f \in [0..n + 1 -> G] /\ \A m \in 1..n + 1 : f[m] = walk[m][f[m - 1]]
    BY <1>5, Zenon DEF Solves
  <2>2. \A m \in 1..n + 1 : m - 1 \in 0..n + 1
    BY <1>0
  <2>3. \A m \in 1..n + 1 : f[m - 1] \in G
    <3> HIDE DEF G
    <3>. QED  BY <2>1, <2>2, Zenon
  <2>. QED  BY <2>1, <2>3, Zenon
<1> HIDE DEF G, walk, start
<1> DEFINE T == {m \in 0..n : \A s \in SUBSET S : Cardinality(s) <= m => f[m + 1][s] = f[m][s]}
<1>7. \A s \in SUBSET S : IsFiniteSet(s) /\ Cardinality(s) \in Nat /\ Cardinality(s) <= n
                          /\ (Cardinality(s) = 0 <=> s = {})
  BY FS_Subset, FS_CardinalityType, FS_EmptySet
<1>8. \A s \in SUBSET S : s # {} => Cardinality(s \ {c(s)}) = Cardinality(s) - 1
  BY <1>1, <1>7, FS_RemoveElement
<1> HIDE DEF n
<1>9. \A m \in 1..n + 1, s \in SUBSET S : f[m][s] = IF s = {} THEN b ELSE step[c(s)][f[m - 1][s \ {c(s)}]]
  <2> SUFFICES ASSUME NEW m \in 1..n + 1, NEW s \in SUBSET S
               PROVE  f[m][s] = IF s = {} THEN b ELSE step[c(s)][f[m - 1][s \ {c(s)}]]
    BY Zenon
  <2>1. m - 1 \in 0..n + 1
    BY <1>0
  <2>2. PICK g \in G : g = f[m - 1]
    BY <1>6, <2>1
  <2>3. f[m][s] = more(g)[s]
    BY <1>6, <2>2, Zenon
  <2>. QED  BY <1>3, <2>2, <2>3, Zenon
<1>10. f[0] = start /\ \A s \in SUBSET S : start[s] = b
  BY <1>5, Zenon DEF Solves, start
<1>11. 0 \in T
  <2>1. 0 \in 0..n /\ 1 \in 1..n + 1 /\ 0 + 1 = 1
    BY <1>0
  <2>2. \A s \in SUBSET S : Cardinality(s) <= 0 => s = {}
    BY <1>7
  <2>3. \A s \in SUBSET S : s = {} => f[0 + 1][s] = f[0][s]
    BY <1>9, <1>10, <2>1, Zenon
  <2>. QED  BY <2>1, <2>2, <2>3
<1>12. ASSUME NEW m \in 0..n - 1, m \in T PROVE m + 1 \in T
  <2>1. m + 1 \in 0..n /\ m + 1 \in 1..n + 1 /\ (m + 1) + 1 \in 1..n + 1 /\ (m + 1) - 1 = m
        /\ ((m + 1) + 1) - 1 = m + 1
    BY <1>0
  <2>2. ASSUME NEW s \in SUBSET S, Cardinality(s) <= m + 1 PROVE f[(m + 1) + 1][s] = f[m + 1][s]
    <3>1. CASE s = {}
      BY <1>9, <2>1, <3>1, Zenon
    <3>2. CASE s # {}
      <4> DEFINE r == s \ {c(s)}
      <4>1. r \in SUBSET S /\ Cardinality(r) <= m
        BY <1>0, <1>1, <1>7, <1>8, <2>2, <3>2
      <4>2. f[m + 1][r] = f[m][r]
        BY <1>12, <4>1
      <4>3. f[(m + 1) + 1][s] = step[c(s)][f[((m + 1) + 1) - 1][r]] /\ f[m + 1][s] = step[c(s)][f[(m + 1) - 1][r]]
        BY <1>9, <2>1, <3>2, Zenon
      <4>. QED  BY <2>1, <4>2, <4>3, Zenon
    <3>. QED  BY <3>1, <3>2
  <2>. QED  BY <2>1, <2>2
<1>13. n \in T
  <2> HIDE DEF T
  <2>1. 0..n \subseteq T
    BY <1>0, <1>11, <1>12, UpToInduction
  <2>. QED  BY <1>0, <2>1
<1>14. \A s \in SUBSET S : f[n + 1][s] = f[n][s]
  BY <1>7, <1>13
<1>15. \A s \in SUBSET S : f[n][s] = IF s = {} THEN b ELSE step[c(s)][f[n][s \ {c(s)}]]
  <2>1. n + 1 \in 1..n + 1 /\ (n + 1) - 1 = n
    BY <1>0
  <2> SUFFICES ASSUME NEW s \in SUBSET S
               PROVE  f[n][s] = IF s = {} THEN b ELSE step[c(s)][f[n][s \ {c(s)}]]
    BY Zenon
  <2>2. f[n + 1][s] = IF s = {} THEN b ELSE step[c(s)][f[(n + 1) - 1][s \ {c(s)}]]
    BY <1>9, <2>1, Zenon
  <2>. QED  BY <1>14, <2>1, <2>2, Zenon
<1>16. f[n] \in [SUBSET S -> X]
  <2>1. n \in 0..n + 1
    BY <1>0
  <2>. QED  BY <1>6, <2>1, Zenon DEF G
<1>17. FoldsFrom(f[n], S, b, step)
  BY <1>15, Zenon DEF c, FoldsFrom
<1>. QED  BY <1>16, <1>17, Zenon

(* Induction over the subsets of a finite set, as a fold goes through them. *)
LEMMA SubsetInduction ==
    ASSUME NEW S, IsFiniteSet(S), NEW P, {} \in P,
           \A s \in SUBSET S : s # {} /\ s \ {CHOOSE x \in s : TRUE} \in P => s \in P
    PROVE  S \in P
<1> DEFINE c(s) == CHOOSE x \in s : TRUE
<1> DEFINE n == Cardinality(S)
<1>0. n \in Nat
  BY FS_CardinalityType
<1>1. \A s \in SUBSET S : s # {} => c(s) \in s /\ c(s) \in S /\ s \ {c(s)} \in SUBSET S
  OBVIOUS
<1>2. \A s \in SUBSET S : s # {} /\ s \ {c(s)} \in P => s \in P
  BY Zenon
<1> HIDE DEF c
<1>3. \A s \in SUBSET S : IsFiniteSet(s) /\ Cardinality(s) \in Nat /\ Cardinality(s) <= n
                          /\ (Cardinality(s) = 0 <=> s = {})
  BY FS_Subset, FS_CardinalityType, FS_EmptySet
<1>4. \A s \in SUBSET S : s # {} => Cardinality(s \ {c(s)}) = Cardinality(s) - 1
  BY <1>1, <1>3, FS_RemoveElement
<1> HIDE DEF n
<1> DEFINE T == {m \in 0..n : \A s \in SUBSET S : Cardinality(s) <= m => s \in P}
<1>5. 0 \in T
  <2>1. 0 \in 0..n /\ \A s \in SUBSET S : Cardinality(s) <= 0 => s = {}
    BY <1>0, <1>3
  <2>. QED  BY <2>1
<1>6. ASSUME NEW m \in 0..n - 1, m \in T PROVE m + 1 \in T
  <2>1. m + 1 \in 0..n
    BY <1>0
  <2>2. ASSUME NEW s \in SUBSET S, Cardinality(s) <= m + 1, s # {} PROVE s \in P
    <3> DEFINE r == s \ {c(s)}
    <3>1. r \in SUBSET S /\ Cardinality(r) <= m
      BY <1>0, <1>1, <1>3, <1>4, <2>2
    <3>2. r \in P
      BY <1>6, <3>1
    <3>. QED  BY <1>2, <2>2, <3>2, Zenon
  <2>. QED  BY <2>1, <2>2
<1>7. n \in T
  <2> HIDE DEF T
  <2>1. 0..n \subseteq T
    BY <1>0, <1>5, <1>6, UpToInduction
  <2>. QED  BY <1>0, <2>1
<1>. QED  BY <1>3, <1>7
=============================================================================
