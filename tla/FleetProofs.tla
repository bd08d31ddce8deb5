----------------------------- MODULE FleetProofs -----------------------------
(***************************************************************************)
(* Proofs about the fleet: the plans of the control plane settle and leave *)
(* nothing to do, the server list is complete, and however cycles,         *)
(* migrations and rounds overlap, moved peers are in their place.          *)
(*                                                                         *)
(* The first part is about what the models compute with: folds over a      *)
(* sequence, sums and sorted lists exist and have the values they should.  *)
(* Its inductions are over sets of numbers and of subsets, which the       *)
(* provers can instantiate.                                                *)
(***************************************************************************)
EXTENDS ControlPlane, Rebalance, ServerList, TLAPS, FiniteSetTheorems, WellFoundedInduction

\* A set that has 0 and, with a number, the next one has them all: induction where the
\* induction hypothesis is a set.
LEMMA NatInduct ==
  ASSUME NEW P, 0 \in P, \A n \in Nat : n \in P => n + 1 \in P
  PROVE  Nat \subseteq P
  <1> DEFINE T == Nat \ P
             R == OpToRel(<, Nat)
  <1>1. IsWellFoundedOn(R, Nat)
    BY NatLessThanWellFounded
  <1>2. \A x, y \in Nat : x < y => <<x, y>> \in R
    BY DEF OpToRel
  <1> HIDE DEF R
  <1>3. SUFFICES ASSUME T # {} PROVE FALSE
    OBVIOUS
  <1>4. T \subseteq Nat
    OBVIOUS
  <1> HIDE DEF T
  <1>5. PICK m \in T : \A y \in T : ~(<<y, m>> \in R)
    BY <1>1, <1>3, <1>4, WFMin
  <1>6. \A y \in T : ~(y < m)
    BY <1>2, <1>4, <1>5
  <1> USE DEF T
  <1>7. m \in Nat /\ m # 0
    OBVIOUS
  <1>8. m - 1 \in Nat /\ m - 1 < m /\ (m - 1) + 1 = m
    BY <1>7
  <1>9. m - 1 \in P
    BY <1>6, <1>8
  <1> QED
    BY <1>7, <1>8, <1>9

\* The same for the subsets of a finite set.
LEMMA FiniteInduct ==
  ASSUME NEW S, IsFiniteSet(S), NEW P, {} \in P,
         \A s \in SUBSET S : s # {} /\ (\A x \in s : s \ {x} \in P) => s \in P
  PROVE  SUBSET S \subseteq P
  <1> DEFINE Q == {n \in Nat : \A s \in SUBSET S : Cardinality(s) = n => s \in P}
  <1>1. \A s \in SUBSET S : /\ IsFiniteSet(s) /\ Cardinality(s) \in Nat
                            /\ Cardinality(s) = 0 => s = {}
    BY FS_Subset, FS_CardinalityType, FS_EmptySet
  <1>2. 0 \in Q
    BY <1>1
  <1>3. ASSUME NEW n \in Nat, n \in Q PROVE n + 1 \in Q
    <2> SUFFICES ASSUME NEW s \in SUBSET S, Cardinality(s) = n + 1 PROVE s \in P
      OBVIOUS
    <2>1. s # {}
      <3>1. Cardinality({}) = 0
        BY FS_EmptySet
      <3>2. n + 1 # 0
        OBVIOUS
      <3> QED
        BY <3>1, <3>2
    <2>2. \A x \in s : Cardinality(s \ {x}) = n
      BY <1>1, FS_RemoveElement
    <2>3. \A x \in s : s \ {x} \in P
      BY <1>3, <2>2
    <2> QED
      BY <2>1, <2>3
  <1> HIDE DEF Q
  <1>4. Nat \subseteq Q
    BY <1>2, <1>3, NatInduct
  <1> QED
    BY <1>1, <1>4 DEF Q

\* g folds the finite set S: F says how an element changes the value, ch which element of
\* a set comes last.
Chooses(ch, S) == \A s \in SUBSET S : s # {} => ch[s] \in s
IsFold(g, S, V, base, F, ch) ==
    /\ g \in [SUBSET S -> V]
    /\ \A s \in SUBSET S : g[s] = IF s = {} THEN base ELSE F[ch[s]][g[s \ {ch[s]}]]

\* Over a finite set the fold exists and has its values in V, whichever element ch takes next.
LEMMA FoldExists ==
  ASSUME NEW S, IsFiniteSet(S), NEW V, NEW base, base \in V, NEW F, F \in [S -> [V -> V]],
         NEW ch, Chooses(ch, S)
  PROVE  \E g : IsFold(g, S, V, base, F, ch)
  <1> DEFINE D(n) == {s \in SUBSET S : Cardinality(s) <= n}
             Good(n, g) == \A s \in D(n) : g[s] = IF s = {} THEN base ELSE F[ch[s]][g[s \ {ch[s]}]]
             Q == {n \in Nat : \E g \in [D(n) -> V] : Good(n, g)}
  <1>1. \A s \in SUBSET S : /\ IsFiniteSet(s) /\ Cardinality(s) \in Nat
                            /\ Cardinality(s) <= Cardinality(S)
                            /\ Cardinality(s) = 0 <=> s = {}
    BY FS_Subset, FS_CardinalityType, FS_EmptySet
  <1>2. \A n \in Nat : \A s \in D(n+1) : s # {} => ch[s] \in S /\ s \ {ch[s]} \in D(n)
    <2> SUFFICES ASSUME NEW n \in Nat, NEW s \in D(n+1), s # {}
                 PROVE ch[s] \in S /\ s \ {ch[s]} \in D(n)
      OBVIOUS
    <2>1. ch[s] \in s
      BY DEF Chooses
    <2>2. Cardinality(s \ {ch[s]}) = Cardinality(s) - 1
      BY <1>1, <2>1, FS_RemoveElement
    <2>3. Cardinality(s) \in Nat /\ Cardinality(s) <= n + 1
      BY <1>1
    <2>4. Cardinality(s \ {ch[s]}) <= n
      BY <2>2, <2>3
    <2> QED
      BY <2>1, <2>4
  <1>3. 0 \in Q
    <2> DEFINE g == [s \in D(0) |-> base]
    <2>1. \A s \in D(0) : s = {}
      BY <1>1
    <2>2. g \in [D(0) -> V] /\ Good(0, g)
      BY <2>1
    <2> HIDE DEF g, D, Good
    <2> QED
      BY <2>2
  <1>4. ASSUME NEW n \in Nat, n \in Q PROVE n + 1 \in Q
    <2>1. PICK g \in [D(n) -> V] : Good(n, g)
      BY <1>4
    <2> DEFINE h == [s \in D(n+1) |-> IF s = {} THEN base ELSE F[ch[s]][g[s \ {ch[s]}]]]
    <2>2. h \in [D(n+1) -> V]
      BY <1>2, <2>1
    <2>3. \A s \in D(n) : s \in D(n+1) /\ h[s] = g[s]
      <3>1. \A s \in D(n) : s \in D(n+1)
        BY <1>1
      <3> QED
        BY <2>1, <3>1
    <2>4. Good(n+1, h)
      <3> SUFFICES ASSUME NEW s \in D(n+1)
                   PROVE h[s] = IF s = {} THEN base ELSE F[ch[s]][h[s \ {ch[s]}]]
        OBVIOUS
      <3>1. CASE s = {}
        BY <3>1
      <3>2. CASE s # {}
        <4>1. s \ {ch[s]} \in D(n)
          BY <1>2, <3>2
        <4>2. h[s \ {ch[s]}] = g[s \ {ch[s]}]
          BY <2>3, <4>1
        <4>3. h[s] = F[ch[s]][g[s \ {ch[s]}]]
          BY <3>2
        <4> QED
          BY <3>2, <4>2, <4>3
      <3> QED
        BY <3>1, <3>2
    <2> HIDE DEF h, D, Good
    <2> QED
      BY <2>2, <2>4
  <1> HIDE DEF Q
  <1>5. Cardinality(S) \in Q
    <2>1. Cardinality(S) \in Nat
      BY <1>1
    <2>2. Nat \subseteq Q
      BY <1>3, <1>4, NatInduct
    <2> QED
      BY <2>1, <2>2
  <1>6. PICK g \in [D(Cardinality(S)) -> V] : Good(Cardinality(S), g)
    BY <1>5 DEF Q
  <1>7. D(Cardinality(S)) = SUBSET S
    BY <1>1
  <1> QED
    BY <1>6, <1>7 DEF IsFold

\* R orders the elements of S.
Orders(R, S) ==
    /\ \A x, y \in S : x # y => <<x, y>> \in R \/ <<y, x>> \in R
    /\ \A x, y, z \in S : <<x, y>> \in R /\ <<y, z>> \in R => <<x, z>> \in R

\* A finite set that is not empty has a last element in every order.
LEMMA LastExists ==
  ASSUME NEW S, IsFiniteSet(S), NEW R, Orders(R, S), S # {}
  PROVE  \E m \in S : \A y \in S : y = m \/ <<y, m>> \in R
  <1> DEFINE P == {s \in SUBSET S : s = {} \/ \E m \in s : \A y \in s : y = m \/ <<y, m>> \in R}
  <1>1. {} \in P
    OBVIOUS
  <1>2. ASSUME NEW s \in SUBSET S, s # {}, \A x \in s : s \ {x} \in P PROVE s \in P
    <2>1. PICK x \in s : TRUE
      BY <1>2
    <2>2. CASE s \ {x} = {}
      BY <2>1, <2>2
    <2>3. CASE s \ {x} # {}
      <3>1. PICK m \in s \ {x} : \A y \in s \ {x} : y = m \/ <<y, m>> \in R
        BY <1>2, <2>3
      <3>2. CASE <<x, m>> \in R
        BY <3>1, <3>2
      <3>3. CASE <<m, x>> \in R
        <4>1. \A y \in s : y = x \/ <<y, x>> \in R
          BY <3>1, <3>3 DEF Orders
        <4> QED
          BY <4>1
      <3> QED
        BY <3>1, <3>2, <3>3 DEF Orders
    <2> QED
      BY <2>2, <2>3
  <1> HIDE DEF P
  <1>3. SUBSET S \subseteq P
    BY <1>1, <1>2, FiniteInduct
  <1> QED
    BY <1>3 DEF P

\* A finite set can be sorted.
LEMMA SortedExists ==
  ASSUME NEW S, IsFiniteSet(S), NEW R, Orders(R, S)
  PROVE  \E q \in SetToSeqs(S) : \A i, j \in DOMAIN q : i < j => <<q[i], q[j]>> \in R
  <1> DEFINE Sorted(s, q) == /\ q \in [1..Cardinality(s) -> s]
                             /\ \A i, j \in 1..Cardinality(s) : i # j => q[i] # q[j]
                             /\ \A i, j \in 1..Cardinality(s) : i < j => <<q[i], q[j]>> \in R
             P == {s \in SUBSET S : \E q : Sorted(s, q)}
  <1>1. {} \in P
    <2>1. Cardinality({}) = 0
      BY FS_EmptySet
    <2>2. Sorted({}, <<>>)
      BY <2>1
    <2> HIDE DEF Sorted
    <2> QED
      BY <2>2
  <1>2. ASSUME NEW s \in SUBSET S, s # {}, \A x \in s : s \ {x} \in P PROVE s \in P
    <2>1. IsFiniteSet(s) /\ Orders(R, s)
      BY FS_Subset DEF Orders
    <2>2. PICK m \in s : \A y \in s : y = m \/ <<y, m>> \in R
      BY <1>2, <2>1, LastExists
    <2>3. PICK q : Sorted(s \ {m}, q)
      BY <1>2, <2>2
    <2> DEFINE n == Cardinality(s \ {m})
               p == [i \in 1..(n + 1) |-> IF i = n + 1 THEN m ELSE q[i]]
    <2>4. n \in Nat /\ Cardinality(s) = n + 1
      <3>1. n \in Nat
        BY <2>1, FS_RemoveElement, FS_CardinalityType
      <3>2. n = Cardinality(s) - 1 /\ Cardinality(s) \in Nat
        BY <2>1, <2>2, FS_RemoveElement, FS_CardinalityType
      <3> QED
        BY <3>1, <3>2
    <2>5. /\ q \in [1..n -> s \ {m}]
          /\ \A i, j \in 1..n : i # j => q[i] # q[j]
          /\ \A i, j \in 1..n : i < j => <<q[i], q[j]>> \in R
      BY <2>3
    <2> HIDE DEF n
    <2>6. \A i \in 1..n : p[i] = q[i] /\ q[i] \in s /\ q[i] # m
      BY <2>4, <2>5
    <2>7. p[n + 1] = m
      BY <2>4
    <2>8. \A i \in 1..(n + 1) : i = n + 1 \/ i \in 1..n
      BY <2>4
    <2>9. p \in [1..(n + 1) -> s]
      BY <2>2, <2>4, <2>6, <2>8
    <2> HIDE DEF p
    <2>10. \A i, j \in 1..(n + 1) : i # j => p[i] # p[j]
      BY <2>5, <2>6, <2>7, <2>8
    <2>11. ASSUME NEW i \in 1..(n + 1), NEW j \in 1..(n + 1), i < j PROVE <<p[i], p[j]>> \in R
      <3>1. i \in 1..n
        BY <2>4, <2>11
      <3>2. CASE j = n + 1
        BY <2>2, <2>6, <2>7, <3>1, <3>2
      <3>3. CASE j \in 1..n
        BY <2>5, <2>6, <2>11, <3>1, <3>3
      <3> QED
        BY <2>8, <3>2, <3>3
    <2>12. Sorted(s, p)
      BY <2>4, <2>9, <2>10, <2>11
    <2> HIDE DEF Sorted
    <2> QED
      BY <2>12
  <1> HIDE DEF P
  <1>3. S \in P
    BY <1>1, <1>2, FiniteInduct
  <1>4. PICK q : Sorted(S, q)
    BY <1>3 DEF P
  <1> QED
    BY <1>4 DEF SetToSeqs


\* The largest of some positions of a sequence.
LEMMA MaxIn ==
  ASSUME NEW n \in Nat, NEW s \in SUBSET (1..n), s # {}
  PROVE  Max(s) \in s /\ \A y \in s : Max(s) >= y
  <1> DEFINE R == {p \in s \X s : p[1] < p[2]}
  <1>1. \A x, y \in s : <<x, y>> \in R <=> x < y
    OBVIOUS
  <1>2. \A x \in s : x \in Nat
    OBVIOUS
  <1> HIDE DEF R
  <1>3. Orders(R, s)
    BY <1>1, <1>2 DEF Orders
  <1>4. IsFiniteSet(s)
    <2>1. 1 \in Int /\ n \in Int
      OBVIOUS
    <2>2. IsFiniteSet(1..n)
      BY <2>1, FS_Interval
    <2> QED
      BY <2>2, FS_Subset
  <1>5. PICK m \in s : \A y \in s : y = m \/ <<y, m>> \in R
    BY <1>3, <1>4, LastExists
  <1>6. \A y \in s : m >= y
    <2> SUFFICES ASSUME NEW y \in s PROVE m >= y
      OBVIOUS
    <2>1. y = m \/ y < m
      BY <1>1, <1>5
    <2> QED
      BY <1>2, <2>1
  <1> QED
    BY <1>6 DEF Max

\* h has the values of a fold over the positions 1..n, after each of them.
IsRun(h, n, V, base, F) ==
    /\ h \in [0..n -> V] /\ h[0] = base
    /\ \A k \in 1..n : h[k] = F[k][h[k - 1]]

\* The function that FoldLeft chooses: it exists because the steps stay in V.
Follows(it, S, V, base, F, ch) ==
    /\ it[{}] = base
    /\ \A s \in SUBSET S : s # {} /\ it[s \ {ch[s]}] \in V => it[s] = F[ch[s]][it[s \ {ch[s]}]]
\* The element a fold over a sequence takes last: the one at the largest index.
LastOf(n) == [s \in SUBSET (1..n) |-> Max(s)]

\* FoldLeft over a sequence is a run: its value is the last state of the n steps.
LEMMA SeqFold ==
  ASSUME NEW n \in Nat, NEW V, NEW base, base \in V, NEW F, F \in [1..n -> [V -> V]], NEW it,
         \A g : IsFold(g, 1..n, V, base, F, LastOf(n)) => Follows(it, 1..n, V, base, F, LastOf(n))
  PROVE  \E h : IsRun(h, n, V, base, F) /\ it[1..n] = h[n]
  <1> DEFINE S == 1..n
             ch == LastOf(n)
  <1>1. IsFiniteSet(S)
    <2>1. 1 \in Int /\ n \in Int
      OBVIOUS
    <2> QED
      BY <2>1, FS_Interval
  <1>2. \A s \in SUBSET S : s # {} => ch[s] \in s /\ \A y \in s : ch[s] >= y
    BY MaxIn DEF LastOf
  <1>3. \A k \in 1..n : ch[1..k] = k /\ (1..k) \ {k} = 1..(k-1) /\ 1..k \in SUBSET S /\ 1..k # {}
    <2> SUFFICES ASSUME NEW k \in 1..n PROVE ch[1..k] = k /\ (1..k) \ {k} = 1..(k-1) /\ 1..k \in SUBSET S /\ 1..k # {}
      OBVIOUS
    <2>1. 1..k \in SUBSET S /\ k \in 1..k /\ (1..k) \ {k} = 1..(k-1)
      OBVIOUS
    <2>2. ch[1..k] \in 1..k /\ ch[1..k] >= k
      BY <1>2, <2>1
    <2>3. ch[1..k] = k
      BY <2>2
    <2> QED
      BY <2>1, <2>3
  <1> HIDE DEF ch
  <1>4. Chooses(ch, S)
    BY <1>2 DEF Chooses
  <1>5. F \in [S -> [V -> V]]
    OBVIOUS
  <1> HIDE DEF S
  <1>6. \E g : IsFold(g, S, V, base, F, ch)
    BY <1>1, <1>4, <1>5, FoldExists
  <1>7. Follows(it, S, V, base, F, ch)
    BY <1>6 DEF ch, S
  <1> DEFINE P == {k \in Nat : k <= n => it[1..k] \in V}
             h == [k \in 0..n |-> it[1..k]]
  <1>8. it[1..0] = base
    <2>1. 1..0 = {}
      OBVIOUS
    <2> QED
      BY <1>7, <2>1 DEF Follows
  <1>9. \A k \in 1..n : it[1..(k-1)] \in V => it[1..k] = F[k][it[1..(k-1)]] /\ it[1..k] \in V
    <2> SUFFICES ASSUME NEW k \in 1..n, it[1..(k-1)] \in V
                 PROVE  it[1..k] = F[k][it[1..(k-1)]] /\ it[1..k] \in V
      OBVIOUS
    <2> DEFINE s == 1..k
    <2>1. ch[s] = k /\ s \ {k} = 1..(k-1) /\ s \in SUBSET S /\ s # {}
      BY <1>3
    <2>2. it[s] = F[ch[s]][it[s \ {ch[s]}]]
      <3> HIDE DEF s
      <3> QED
        BY <1>7, <2>1 DEF Follows
    <2>3. it[1..k] = F[k][it[1..(k-1)]]
      BY <2>1, <2>2
    <2> QED
      BY <2>3
  <1>10. 0 \in P
    BY <1>8
  <1>11. \A k \in Nat : k \in P => k + 1 \in P
    <2> SUFFICES ASSUME NEW k \in Nat, k \in P, k + 1 <= n PROVE it[1..(k+1)] \in V
      OBVIOUS
    <2>1. k + 1 \in 1..n /\ (k + 1) - 1 = k /\ it[1..k] \in V
      OBVIOUS
    <2> QED
      BY <1>9, <2>1
  <1> HIDE DEF P
  <1>12. Nat \subseteq P
    BY <1>10, <1>11, NatInduct
  <1>13. \A k \in 0..n : it[1..k] \in V
    BY <1>12 DEF P
  <1>14. h \in [0..n -> V] /\ h[n] = it[1..n] /\ h[0] = base
    BY <1>8, <1>13
  <1>15. \A k \in 1..n : h[k] = F[k][h[k - 1]]
    <2> SUFFICES ASSUME NEW k \in 1..n PROVE h[k] = F[k][h[k - 1]]
      OBVIOUS
    <2>1. k \in 0..n /\ k - 1 \in 0..n
      OBVIOUS
    <2>2. h[k] = it[1..k] /\ h[k-1] = it[1..(k-1)]
      BY <2>1
    <2> QED
      BY <1>9, <1>13, <2>1, <2>2
  <1> HIDE DEF h
  <1> QED
    BY <1>14, <1>15 DEF IsRun

\* The smaller of two numbers, as FiniteSetsExt computes it.
LEMMA MinOfTwo ==
  ASSUME NEW a \in Int, NEW b \in Int
  PROVE  Min({a, b}) = IF a <= b THEN a ELSE b
  <1>1. CASE a <= b
    BY <1>1 DEF Min
  <1>2. CASE b < a
    BY <1>2 DEF Min
  <1> QED
    BY <1>1, <1>2

\* Products compare as their factors do.
LEMMA Products ==
  ASSUME NEW a \in Int, NEW b \in Int, NEW m \in Nat \ {0}
  PROVE  (a * m <= b * m) <=> (a <= b)
  OBVIOUS

\* Nodes ordered by the fraction p / m, compared by cross-multiplication, and then by number.
Above(p, m, i, j) == p[i] * m[j] > p[j] * m[i] \/ (p[i] * m[j] = p[j] * m[i] /\ i < j)

\* Comparing loads by cross-multiplication, ties by index, is a strict order of the nodes.
LEMMA RatioOrder ==
  ASSUME NEW S, NEW p, NEW m, \A x \in S : p[x] \in Nat /\ m[x] \in Nat \ {0} /\ x \in Nat,
         NEW R, \A x, y \in S : <<x, y>> \in R <=> Above(p, m, x, y)
  PROVE  Orders(R, S)
  <1>1. ASSUME NEW i \in S, NEW j \in S, i # j PROVE Above(p, m, i, j) \/ Above(p, m, j, i)
    <2>1. p[i] * m[j] \in Int /\ p[j] * m[i] \in Int
      OBVIOUS
    <2> QED
      BY <1>1, <2>1 DEF Above
  <1>2. ASSUME NEW i \in S, NEW j \in S, NEW k \in S, Above(p, m, i, j), Above(p, m, j, k)
        PROVE  Above(p, m, i, k)
    <2> DEFINE pq == p[i] * m[j]
               qp == p[j] * m[i]
               qr == p[j] * m[k]
               rq == p[k] * m[j]
               pr == p[i] * m[k]
               rp == p[k] * m[i]
    <2>1. pq \in Int /\ qp \in Int /\ qr \in Int /\ rq \in Int /\ pr \in Int /\ rp \in Int
      OBVIOUS
    <2>2. pr * m[j] = pq * m[k] /\ qp * m[k] = qr * m[i] /\ rq * m[i] = rp * m[j]
      <3>1. \A a, b, c \in Int : (a * b) * c = (a * c) * b
        OBVIOUS
      <3> QED
        BY <3>1
    <2> HIDE DEF pq, qp, qr, rq, pr, rp
    <2>3. /\ (pq <= qp <=> pq * m[k] <= qp * m[k]) /\ (qp <= pq <=> qp * m[k] <= pq * m[k])
          /\ (qr <= rq <=> qr * m[i] <= rq * m[i]) /\ (rq <= qr <=> rq * m[i] <= qr * m[i])
          /\ (pr <= rp <=> pr * m[j] <= rp * m[j]) /\ (rp <= pr <=> rp * m[j] <= pr * m[j])
      BY <2>1, Products
    <2> DEFINE x == pr * m[j]
               y == qp * m[k]
               z == rq * m[i]
    <2>4. x \in Int /\ y \in Int /\ z \in Int
      BY <2>1
    <2>5. /\ (pq <= qp <=> x <= y) /\ (qp <= pq <=> y <= x)
          /\ (qr <= rq <=> y <= z) /\ (rq <= qr <=> z <= y)
          /\ (pr <= rp <=> x <= z) /\ (rp <= pr <=> z <= x)
      BY <2>2, <2>3
    <2> HIDE DEF x, y, z
    <2>6. pq >= qp /\ qr >= rq => pr >= rp /\ (pr = rp => pq = qp /\ qr = rq)
      BY <2>1, <2>4, <2>5
    <2>7. (pq > qp \/ (pq = qp /\ i < j)) /\ (qr > rq \/ (qr = rq /\ j < k))
      BY <1>2 DEF Above, pq, qp, qr, rq
    <2>8. i \in Nat /\ j \in Nat /\ k \in Nat
      OBVIOUS
    <2>9. pr > rp \/ (pr = rp /\ i < k)
      BY <2>1, <2>6, <2>7, <2>8
    <2> QED
      BY <2>9 DEF Above, pr, rp
  <1> QED
    BY <1>1, <1>2 DEF Orders

\* A sequence of the elements of a finite set has each of them in one place.
LEMMA SeqOfSet ==
  ASSUME NEW S, IsFiniteSet(S), NEW q \in SetToSeqs(S)
  PROVE  /\ Len(q) = Cardinality(S) /\ Len(q) \in Nat /\ q \in [1..Len(q) -> S] /\ q \in Seq(S)
         /\ \A i, j \in 1..Len(q) : i # j => q[i] # q[j]
         /\ \A x \in S : \E i \in 1..Len(q) : q[i] = x
  <1> DEFINE n == Cardinality(S)
             D == 1..n
  <1>1. n \in Nat
    BY FS_CardinalityType
  <1>2. q \in [D -> S] /\ \A i, j \in D : i # j => q[i] # q[j]
    BY DEF SetToSeqs
  <1>3. IsFiniteSet(D) /\ Cardinality(D) = n
    <2>1. 1 \in Int /\ n \in Int
      BY <1>1
    <2>2. IsFiniteSet(1..n) /\ Cardinality(1..n) = IF 1 > n THEN 0 ELSE n - 1 + 1
      BY <2>1, FS_Interval
    <2> QED
      BY <1>1, <2>2
  <1> HIDE DEF n
  <1>4. q \in Seq(S) /\ Len(q) = n
    BY <1>1, <1>2
  <1>5. q \in Injection(D, S)
    BY <1>2 DEF Injection, IsInjective
  <1>6. q \in Surjection(D, S)
    BY <1>3, <1>5, FS_Injection DEF n
  <1> QED
    BY <1>1, <1>2, <1>4, <1>6 DEF Surjection, n

-----------------------------------------------------------------------------
(* Plans and placement (Rebalance).                                        *)

\* f is a function to the naturals on the finite set S, g its sums over the subsets, one
\* element at a time, as FoldSet takes them.
Summable(f, S) == IsFiniteSet(S) /\ \A x \in S : f[x] \in Nat
\* The sums over the subsets of S.
IsSum(g, f, S) ==
    /\ g \in [SUBSET S -> Nat]
    /\ \A s \in SUBSET S :
          g[s] = IF s = {} THEN 0 ELSE g[s \ {CHOOSE x \in s : TRUE}] + f[CHOOSE x \in s : TRUE]

\* Total is a fold, so its values on the subsets of S are those of a sum.
LEMMA TotalChosen ==
  ASSUME NEW S, NEW f, Summable(f, S)
  PROVE  \E g : IsSum(g, f, S) /\ Total(f, S) = g[S]
  <1> DEFINE it == CHOOSE iter : iter = [s \in SUBSET S |->
                      IF s = {} THEN 0
                      ELSE iter[s \ {CHOOSE x \in s : TRUE}] + f[CHOOSE x \in s : TRUE]]
             ch == [s \in SUBSET S |-> CHOOSE x \in s : TRUE]
             F == [x \in S |-> [v \in Nat |-> v + f[x]]]
  <1> USE DEF Summable
  <1>1. Total(f, S) = it[S]
    BY DEF Total, FoldSet, MapThenFoldSet
  <1>2. \A s \in SUBSET S : s # {} => ch[s] \in s
    OBVIOUS
  <1>3. F \in [S -> [Nat -> Nat]] /\ \A x \in S, v \in Nat : F[x][v] = v + f[x]
    OBVIOUS
  <1>4. \A s \in SUBSET S : ch[s] = CHOOSE x \in s : TRUE
    OBVIOUS
  <1> HIDE DEF F, ch
  <1>5. PICK g \in [SUBSET S -> Nat] :
            \A s \in SUBSET S : g[s] = IF s = {} THEN 0 ELSE F[ch[s]][g[s \ {ch[s]}]]
    <2> DEFINE zero == 0
               V == Nat
    <2>1. zero \in V /\ F \in [S -> [V -> V]] /\ Chooses(ch, S)
      BY <1>2, <1>3 DEF Chooses
    <2> HIDE DEF zero, V
    <2>2. PICK g : IsFold(g, S, V, zero, F, ch)
      BY <2>1, FoldExists
    <2> QED
      BY <2>2 DEF zero, V, IsFold
  <1>6. \A s \in SUBSET S : g[s] = IF s = {} THEN 0 ELSE g[s \ {ch[s]}] + f[ch[s]]
    BY <1>2, <1>3, <1>5
  <1>7. g = [s \in SUBSET S |->
               IF s = {} THEN 0 ELSE g[s \ {CHOOSE x \in s : TRUE}] + f[CHOOSE x \in s : TRUE]]
    BY <1>4, <1>5, <1>6
  <1>8. it = [s \in SUBSET S |->
               IF s = {} THEN 0 ELSE it[s \ {CHOOSE x \in s : TRUE}] + f[CHOOSE x \in s : TRUE]]
    BY <1>7
  <1> HIDE DEF it
  <1>9. \A s \in SUBSET S : it[s] = IF s = {} THEN 0 ELSE it[s \ {ch[s]}] + f[ch[s]]
    BY <1>4, <1>8
  <1> DEFINE P == {s \in SUBSET S : it[s] \in Nat}
  <1>10. {} \in P
    <2>1. {} \in SUBSET S
      OBVIOUS
    <2>2. it[{}] = 0
      BY <1>9, <2>1
    <2> QED
      BY <2>1, <2>2
  <1>11. ASSUME NEW s \in SUBSET S, s # {}, \A x \in s : s \ {x} \in P PROVE s \in P
    <2>1. it[s] = it[s \ {ch[s]}] + f[ch[s]] /\ ch[s] \in S /\ it[s \ {ch[s]}] \in Nat
      BY <1>2, <1>9, <1>11
    <2> QED
      BY <2>1
  <1> HIDE DEF P
  <1>12. \A s \in SUBSET S : it[s] \in Nat
    <2>1. SUBSET S \subseteq P
      BY <1>10, <1>11, FiniteInduct
    <2> QED
      BY <2>1 DEF P
  <1>13. it \in [SUBSET S -> Nat]
    BY <1>8, <1>12
  <1> QED
    BY <1>1, <1>4, <1>9, <1>13 DEF IsSum

\* The sums of a set are the sums of its subsets.
LEMMA TotalOfSubset ==
  ASSUME NEW S, NEW f, Summable(f, S), NEW g, IsSum(g, f, S), NEW T \in SUBSET S
  PROVE  Summable(f, T) /\ Total(f, T) = g[T]
  <1>1. Summable(f, T)
    BY FS_Subset DEF Summable
  <1>2. PICK h : IsSum(h, f, T) /\ Total(f, T) = h[T]
    BY <1>1, TotalChosen
  <1> DEFINE P == {s \in SUBSET T : h[s] = g[s]}
  <1>3. {} \in P
    BY <1>2 DEF IsSum
  <1>4. ASSUME NEW s \in SUBSET T, s # {}, \A x \in s : s \ {x} \in P PROVE s \in P
    <2> DEFINE c == CHOOSE x \in s : TRUE
    <2>1. c \in s /\ s \in SUBSET S
      BY <1>4
    <2>2. h[s \ {c}] = g[s \ {c}]
      BY <1>4, <2>1
    <2>3. h[s] = h[s \ {c}] + f[c] /\ g[s] = g[s \ {c}] + f[c]
      BY <1>2, <1>4, <2>1 DEF IsSum
    <2> QED
      BY <2>2, <2>3
  <1>5. IsFiniteSet(T)
    BY <1>1 DEF Summable
  <1> HIDE DEF P
  <1>6. SUBSET T \subseteq P
    BY <1>3, <1>4, <1>5, FiniteInduct
  <1>7. h[T] = g[T]
    BY <1>6 DEF P
  <1> QED
    BY <1>1, <1>2, <1>7

\* A sum does not depend on the order: any element can be taken out.
LEMMA TotalRemove ==
  ASSUME NEW S, NEW f, Summable(f, S), NEW x \in S
  PROVE  /\ Total(f, S) \in Nat /\ f[x] \in Nat /\ Summable(f, S \ {x})
         /\ Total(f, S) = Total(f, S \ {x}) + f[x]
  <1>1. PICK g : IsSum(g, f, S) /\ Total(f, S) = g[S]
    BY TotalChosen
  <1> DEFINE P == {s \in SUBSET S : \A y \in s : g[s] = g[s \ {y}] + f[y]}
  <1>2. {} \in P
    OBVIOUS
  <1>3. ASSUME NEW s \in SUBSET S, s # {}, \A y \in s : s \ {y} \in P PROVE s \in P
    <2> SUFFICES ASSUME NEW y \in s PROVE g[s] = g[s \ {y}] + f[y]
      OBVIOUS
    <2> DEFINE c == CHOOSE z \in s : TRUE
    <2>1. c \in s
      OBVIOUS
    <2>2. g[s] = g[s \ {c}] + f[c]
      BY <1>1, <1>3 DEF IsSum
    <2> HIDE DEF c
    <2>3. CASE y = c
      BY <2>2, <2>3
    <2>4. CASE y # c
      <3> DEFINE u == s \ {c, y}
      <3>1. (s \ {c}) \ {y} = u /\ (s \ {y}) \ {c} = u
        OBVIOUS
      <3>2. g[s \ {c}] = g[u] + f[y]
        BY <1>3, <2>1, <2>4, <3>1
      <3>3. g[s \ {y}] = g[u] + f[c]
        BY <1>3, <2>1, <2>4, <3>1
      <3>4. g[u] \in Nat /\ f[c] \in Nat /\ f[y] \in Nat
        BY <1>1, <2>1 DEF IsSum, Summable
      <3> HIDE DEF u
      <3> QED
        BY <2>2, <3>2, <3>3, <3>4
    <2> QED
      BY <2>3, <2>4
  <1>4. IsFiniteSet(S)
    BY DEF Summable
  <1> HIDE DEF P
  <1>5. SUBSET S \subseteq P
    BY <1>2, <1>3, <1>4, FiniteInduct
  <1>6. g[S] = g[S \ {x}] + f[x]
    BY <1>5 DEF P
  <1>7. Summable(f, S \ {x}) /\ Total(f, S \ {x}) = g[S \ {x}]
    <2>1. S \ {x} \in SUBSET S
      OBVIOUS
    <2> QED
      BY <1>1, <2>1, TotalOfSubset
  <1>8. g[S] \in Nat /\ f[x] \in Nat
    BY <1>1 DEF IsSum, Summable
  <1> QED
    BY <1>1, <1>6, <1>7, <1>8

\* Nothing sums to 0.
LEMMA TotalEmpty == ASSUME NEW f PROVE Total(f, {}) = 0
  <1>1. Summable(f, {})
    BY FS_EmptySet DEF Summable
  <1> QED
    BY <1>1, TotalChosen DEF IsSum

\* A sum of numbers is a number.
LEMMA TotalNat == ASSUME NEW S, NEW f, Summable(f, S) PROVE Total(f, S) \in Nat
  <1>1. PICK g : IsSum(g, f, S) /\ Total(f, S) = g[S]
    BY TotalChosen
  <1> QED
    BY <1>1 DEF IsSum

\* Sums compare as their terms do.
LEMMA TotalMonotone ==
  ASSUME NEW S, NEW f, NEW g, Summable(f, S), Summable(g, S), \A x \in S : f[x] <= g[x]
  PROVE  Total(f, S) <= Total(g, S)
  <1> DEFINE P == {s \in SUBSET S : Total(f, s) <= Total(g, s)}
  <1>1. {} \in P
    BY TotalEmpty
  <1>2. ASSUME NEW s \in SUBSET S, s # {}, \A y \in s : s \ {y} \in P PROVE s \in P
    <2>1. PICK y \in s : TRUE
      BY <1>2
    <2>2. Summable(f, s) /\ Summable(g, s)
      BY FS_Subset DEF Summable
    <2>3. /\ Total(f, s) = Total(f, s \ {y}) + f[y] /\ Summable(f, s \ {y}) /\ f[y] \in Nat
          /\ Total(g, s) = Total(g, s \ {y}) + g[y] /\ Summable(g, s \ {y}) /\ g[y] \in Nat
      BY <2>1, <2>2, TotalRemove
    <2>4. Total(f, s \ {y}) \in Nat /\ Total(g, s \ {y}) \in Nat
      BY <2>3, TotalNat
    <2>5. Total(f, s \ {y}) <= Total(g, s \ {y}) /\ f[y] <= g[y]
      BY <1>2, <2>1
    <2>6. Total(f, s) <= Total(g, s)
      BY <2>3, <2>4, <2>5
    <2> QED
      BY <2>6
  <1>3. IsFiniteSet(S)
    BY DEF Summable
  <1> HIDE DEF P
  <1>4. SUBSET S \subseteq P
    BY <1>1, <1>2, <1>3, FiniteInduct
  <1> QED
    BY <1>4 DEF P

\* Functions that agree on S have the same sum over S.
LEMMA TotalSame ==
  ASSUME NEW S, NEW f, NEW g, Summable(f, S), \A x \in S : f[x] = g[x]
  PROVE  Total(f, S) = Total(g, S)
  <1>1. Summable(g, S) /\ (\A x \in S : f[x] <= g[x]) /\ (\A x \in S : g[x] <= f[x])
    BY DEF Summable
  <1>2. Total(f, S) <= Total(g, S) /\ Total(g, S) <= Total(f, S)
    BY <1>1, TotalMonotone
  <1> QED
    BY <1>1, <1>2, TotalNat

\* Elements whose term is 0 do not count.
LEMMA TotalSupport ==
  ASSUME NEW S, NEW f, Summable(f, S), NEW T \in SUBSET S, \A x \in S \ T : f[x] = 0
  PROVE  Total(f, S) = Total(f, T)
  <1> DEFINE P == {s \in SUBSET S : Total(f, s) = Total(f, s \cap T)}
  <1>1. {} \in P
    <2>1. {} \cap T = {}
      OBVIOUS
    <2> QED
      BY <2>1
  <1>2. ASSUME NEW s \in SUBSET S, s # {}, \A y \in s : s \ {y} \in P PROVE s \in P
    <2>1. PICK y \in s : TRUE
      BY <1>2
    <2>2. Summable(f, s) /\ Summable(f, s \cap T)
      BY FS_Subset DEF Summable
    <2>3. Total(f, s) = Total(f, s \ {y}) + f[y] /\ Summable(f, s \ {y}) /\ f[y] \in Nat
      BY <2>1, <2>2, TotalRemove
    <2>4. Total(f, s \ {y}) = Total(f, (s \ {y}) \cap T) /\ Total(f, s \ {y}) \in Nat
      BY <1>2, <2>1, <2>3, TotalNat
    <2>5. CASE y \in T
      <3>1. (s \ {y}) \cap T = (s \cap T) \ {y}
        OBVIOUS
      <3>2. Total(f, s \cap T) = Total(f, (s \cap T) \ {y}) + f[y]
        BY <2>1, <2>2, <2>5, TotalRemove
      <3> QED
        BY <2>3, <2>4, <3>1, <3>2
    <2>6. CASE y \notin T
      <3>1. (s \ {y}) \cap T = s \cap T
        BY <2>6
      <3>2. f[y] = 0
        BY <2>1, <2>6
      <3>3. Total(f, s) = Total(f, s \ {y})
        BY <2>3, <2>4, <3>2
      <3> QED
        BY <2>4, <3>1, <3>3
    <2> QED
      BY <2>5, <2>6
  <1>3. IsFiniteSet(S)
    BY DEF Summable
  <1> HIDE DEF P
  <1>4. SUBSET S \subseteq P
    BY <1>1, <1>2, <1>3, FiniteInduct
  <1>5. S \cap T = T
    OBVIOUS
  <1> QED
    BY <1>4, <1>5 DEF P

\* A sum changes by what one term changes.
LEMMA TotalPoint ==
  ASSUME NEW S, NEW f, NEW g, Summable(f, S), Summable(g, S), NEW x \in S, NEW n \in Nat,
         g[x] = f[x] + n, \A y \in S : y # x => f[y] = g[y]
  PROVE  Total(g, S) = Total(f, S) + n
  <1>1. /\ Total(f, S) = Total(f, S \ {x}) + f[x] /\ Summable(f, S \ {x}) /\ f[x] \in Nat
        /\ Total(g, S) = Total(g, S \ {x}) + g[x]
    BY TotalRemove
  <1>2. Total(f, S \ {x}) = Total(g, S \ {x}) /\ Total(f, S \ {x}) \in Nat
    BY <1>1, TotalSame, TotalNat
  <1> QED
    BY <1>1, <1>2

-----------------------------------------------------------------------------
\* The snapshot of the fleet is a list of nodes.
TopoFits == topo \in Seq(NodeKinds) /\ nodeDiscovery \in {"docker", "agent"}

\* What a plan lists, and its state while plan_rebalance builds it.
PlanMove == [source : Nodes, target : Nodes, n : Nat]
PlanState == [moves : Seq(PlanMove), slots : [Nodes -> Nat], pending : Nat]

\* The nodes of a snapshot are finitely many, and their fields are numbers and flags.
LEMMA NodesFit ==
  ASSUME TopoFits
  PROVE  /\ Len(topo) \in Nat /\ Nodes = 1..Len(topo) /\ IsFiniteSet(Nodes)
         /\ Cardinality(Nodes) = Len(topo)
         /\ \A i \in Nodes : /\ i \in Nat /\ topo[i].peers \in Nat /\ topo[i].max \in Nat
                             /\ topo[i].health \in Nat /\ topo[i].latency \in Nat
                             /\ topo[i].pinned \in Nat /\ topo[i].drain \in BOOLEAN
                             /\ topo[i].silent \in BOOLEAN
  <1>1. Len(topo) \in Nat /\ Nodes = 1..Len(topo)
    BY DEF TopoFits, Nodes
  <1>2. IsFiniteSet(1..Len(topo)) /\ Cardinality(1..Len(topo)) = Len(topo)
    <2>1. 1 \in Int /\ Len(topo) \in Int
      BY <1>1
    <2>2. /\ IsFiniteSet(1..Len(topo))
          /\ Cardinality(1..Len(topo)) = IF 1 > Len(topo) THEN 0 ELSE Len(topo) - 1 + 1
      BY <2>1, FS_Interval
    <2> QED
      BY <1>1, <2>2
  <1>3. \A i \in Nodes : topo[i] \in NodeKinds /\ i \in Nat
    BY <1>1 DEF TopoFits
  <1> QED
    BY <1>1, <1>2, <1>3, RebalanceAssumption

\* What one more move adds to what the nodes give and take.
LEMMA MoveAdds ==
  ASSUME TopoFits, NEW m \in Seq(PlanMove), NEW e \in PlanMove, NEW i
  PROVE  /\ Append(m, e) \in Seq(PlanMove) /\ Gives(i, m) \in Nat /\ Takes(i, m) \in Nat
         /\ Gives(i, Append(m, e)) = Gives(i, m) + (IF e.source = i THEN e.n ELSE 0)
         /\ Takes(i, Append(m, e)) = Takes(i, m) + (IF e.target = i THEN e.n ELSE 0)
  <1> DEFINE w == Append(m, e)
             L == Len(m) + 1
             f == Sizes(m)
             g == Sizes(w)
  <1>1. /\ w \in Seq(PlanMove) /\ Len(m) \in Nat /\ DOMAIN m = 1..Len(m) /\ DOMAIN w = 1..L
        /\ w[L] = e /\ \A k \in DOMAIN m : w[k] = m[k] /\ m[k] \in PlanMove
    OBVIOUS
  <1>2. e.n \in Nat /\ \A k \in DOMAIN m : m[k].n \in Nat
    BY <1>1 DEF PlanMove
  <1>3. DOMAIN w = DOMAIN m \cup {L} /\ L \notin DOMAIN m
    BY <1>1
  <1> HIDE DEF w, L
  <1>4. /\ \A k \in DOMAIN m : f[k] = m[k].n /\ g[k] = m[k].n
        /\ g[L] = e.n
    BY <1>1, <1>3 DEF Sizes
  <1> HIDE DEF f, g
  <1>5. IsFiniteSet(DOMAIN m)
    <2>1. 1 \in Int /\ Len(m) \in Int
      BY <1>1
    <2> QED
      BY <1>1, <2>1, FS_Interval
  <1>6. ASSUME NEW K \in SUBSET DOMAIN m
        PROVE  /\ Total(f, K) \in Nat /\ Total(g, K) = Total(f, K)
               /\ Total(g, K \cup {L}) = Total(f, K) + e.n
    <2>1. IsFiniteSet(K) /\ IsFiniteSet(K \cup {L})
      BY <1>5, FS_Subset, FS_AddElement
    <2>2. Summable(f, K) /\ Summable(g, K) /\ Summable(g, K \cup {L})
      BY <1>2, <1>4, <2>1 DEF Summable
    <2>3. \A k \in K : f[k] = g[k]
      BY <1>4
    <2>4. Total(f, K) \in Nat /\ Total(g, K) = Total(f, K)
      BY <2>2, <2>3, TotalNat, TotalSame
    <2>5. Total(g, K \cup {L}) = Total(g, (K \cup {L}) \ {L}) + g[L]
      <3>1. L \in K \cup {L}
        OBVIOUS
      <3> QED
        BY <2>2, <3>1, TotalRemove
    <2>6. (K \cup {L}) \ {L} = K
      BY <1>3
    <2> QED
      BY <1>4, <2>4, <2>5, <2>6
  <1>7. /\ Gives(i, m) \in Nat
        /\ Gives(i, w) = Gives(i, m) + (IF e.source = i THEN e.n ELSE 0)
    <2> DEFINE K == {k \in DOMAIN m : m[k].source = i}
    <2>1. {k \in DOMAIN w : w[k].source = i} = IF e.source = i THEN K \cup {L} ELSE K
      BY <1>1, <1>3 DEF L
    <2>2. K \in SUBSET DOMAIN m
      OBVIOUS
    <2>3. Gives(i, m) = Total(f, K)
      BY DEF Gives, f
    <2> HIDE DEF K
    <2>4. Gives(i, w) = Total(g, IF e.source = i THEN K \cup {L} ELSE K)
      BY <2>1 DEF Gives, g
    <2>5. /\ Total(f, K) \in Nat /\ Total(g, K) = Total(f, K)
          /\ Total(g, K \cup {L}) = Total(f, K) + e.n
      BY <1>6, <2>2
    <2>6. CASE e.source = i
      BY <2>3, <2>4, <2>5, <2>6
    <2>7. CASE e.source # i
      BY <2>3, <2>4, <2>5, <2>7
    <2> QED
      BY <2>6, <2>7
  <1>8. /\ Takes(i, m) \in Nat
        /\ Takes(i, w) = Takes(i, m) + (IF e.target = i THEN e.n ELSE 0)
    <2> DEFINE K == {k \in DOMAIN m : m[k].target = i}
    <2>1. {k \in DOMAIN w : w[k].target = i} = IF e.target = i THEN K \cup {L} ELSE K
      BY <1>1, <1>3 DEF L
    <2>2. K \in SUBSET DOMAIN m
      OBVIOUS
    <2>3. Takes(i, m) = Total(f, K)
      BY DEF Takes, f
    <2> HIDE DEF K
    <2>4. Takes(i, w) = Total(g, IF e.target = i THEN K \cup {L} ELSE K)
      BY <2>1 DEF Takes, g
    <2>5. /\ Total(f, K) \in Nat /\ Total(g, K) = Total(f, K)
          /\ Total(g, K \cup {L}) = Total(f, K) + e.n
      BY <1>6, <2>2
    <2>6. CASE e.target = i
      BY <2>3, <2>4, <2>5, <2>6
    <2>7. CASE e.target # i
      BY <2>3, <2>4, <2>5, <2>7
    <2> QED
      BY <2>6, <2>7
  <1> QED
    BY <1>1, <1>7, <1>8 DEF w

\* A turn of the loop does nothing, or moves n > 0 peers to t, until nothing is pending or
\* t is full.
Moves(s, source, t, n, u) ==
    /\ t \in Nodes \ {source} /\ n \in Nat \ {0} /\ n <= s.pending /\ n <= s.slots[t]
    /\ n = s.pending \/ n = s.slots[t]
    /\ u.pending = s.pending - n
    /\ u.slots = [s.slots EXCEPT ![t] = @ - n]
    /\ u.moves = Append(s.moves, [source |-> source, target |-> t, n |-> n])

\* A turn of the receivers that finds peers left to move and a free slot elsewhere.
Open(s, source) == s.pending # 0 /\ \E i \in Nodes : s.slots[i] > 0 /\ i # source

\* If a slot is open, the receiver the planner chooses is an open one.
LEMMA ReceiverExists ==
  ASSUME TopoFits, NEW f \in [Nodes -> Nat], NEW source, \E i \in Nodes : f[i] > 0 /\ i # source
  PROVE  LET t == Receiver(f, source) IN t \in Nodes \ {source} /\ f[t] > 0
  <1> DEFINE R == {i \in Nodes : f[i] > 0 /\ i # source}
             O == {p \in R \X R : f[p[2]] > f[p[1]] \/ (f[p[1]] = f[p[2]] /\ p[2] <= p[1])}
  <1>1. \A x, y \in R : <<x, y>> \in O <=> (f[y] > f[x] \/ (f[x] = f[y] /\ y <= x))
    OBVIOUS
  <1>2. \A x \in R : f[x] \in Nat /\ x \in Nat
    BY NodesFit
  <1>3. IsFiniteSet(R)
    BY NodesFit, FS_Subset
  <1>4. R # {}
    OBVIOUS
  <1> HIDE DEF R, O
  <1>5. Orders(O, R)
    BY <1>1, <1>2 DEF Orders
  <1>6. PICK m \in R : \A y \in R : y = m \/ <<y, m>> \in O
    BY <1>3, <1>4, <1>5, LastExists
  <1>7. \A j \in R : f[m] > f[j] \/ (f[m] = f[j] /\ m <= j)
    <2> SUFFICES ASSUME NEW j \in R PROVE f[m] > f[j] \/ (f[m] = f[j] /\ m <= j)
      OBVIOUS
    <2>1. j = m \/ f[m] > f[j] \/ (f[j] = f[m] /\ m <= j)
      BY <1>1, <1>6
    <2> QED
      BY <1>2, <2>1
  <1>8. Receiver(f, source) \in R
    <2>1. Receiver(f, source) = CHOOSE i \in R : \A j \in R : f[i] > f[j] \/ (f[i] = f[j] /\ i <= j)
      BY DEF Receiver, R
    <2> QED
      BY <1>7, <2>1
  <1> QED
    BY <1>8 DEF R

\* One turn either changes nothing or moves as many peers as both sides allow.
LEMMA TurnMoves ==
  ASSUME TopoFits, NEW s \in PlanState, NEW source \in Nodes
  PROVE  /\ MoveOnce(s, source) \in PlanState
         /\ ~Open(s, source) => MoveOnce(s, source) = s
         /\ Open(s, source) => \E t, n : Moves(s, source, t, n, MoveOnce(s, source))
  <1>1. s.pending \in Nat /\ s.slots \in [Nodes -> Nat] /\ s.moves \in Seq(PlanMove)
    BY DEF PlanState
  <1>2. CASE ~Open(s, source)
    BY <1>2 DEF Open, MoveOnce
  <1>3. CASE Open(s, source)
    <2> DEFINE t == Receiver(s.slots, source)
               n == Min({s.pending, s.slots[t]})
               e == [source |-> source, target |-> t, n |-> n]
               u == [s EXCEPT !.pending = @ - n, !.slots[t] = @ - n, !.moves = Append(@, e)]
    <2>1. t \in Nodes \ {source} /\ s.slots[t] > 0 /\ s.slots[t] \in Nat
      BY <1>1, <1>3, ReceiverExists DEF Open
    <2>2. MoveOnce(s, source) = u
      BY <1>3 DEF Open, MoveOnce
    <2>3. s.pending > 0
      BY <1>1, <1>3 DEF Open
    <2> HIDE DEF t
    <2>4. n = IF s.pending <= s.slots[t] THEN s.pending ELSE s.slots[t]
      BY <1>1, <2>1, MinOfTwo
    <2> HIDE DEF n
    <2>5. /\ n \in Nat \ {0} /\ n <= s.pending /\ n <= s.slots[t]
          /\ n = s.pending \/ n = s.slots[t]
      BY <1>1, <2>1, <2>3, <2>4
    <2>6. s.pending - n \in Nat /\ [s.slots EXCEPT ![t] = @ - n] \in [Nodes -> Nat]
      BY <1>1, <2>1, <2>5
    <2>7. e \in PlanMove
      BY <2>1, <2>5 DEF PlanMove
    <2> HIDE DEF e
    <2>8. Append(s.moves, e) \in Seq(PlanMove)
      BY <1>1, <2>7
    <2>9. /\ u \in PlanState /\ u.pending = s.pending - n
          /\ u.slots = [s.slots EXCEPT ![t] = @ - n] /\ u.moves = Append(s.moves, e)
      BY <1>1, <2>6, <2>8 DEF PlanState
    <2> HIDE DEF u
    <2>10. Moves(s, source, t, n, u)
      BY <2>1, <2>5, <2>9 DEF Moves, e
    <2> QED
      BY <1>3, <2>2, <2>9, <2>10
  <1> QED
    BY <1>2, <1>3

\* The loop of a source, turn by turn.
Wanted(source, pinned) == Min({Movable(source, pinned), MaxMoves})
\* The states of one source's turns, one per node.
IsServe(h, s, source, pinned) ==
    /\ h \in [0..Len(topo) -> PlanState]
    /\ h[0] = [s EXCEPT !.pending = Wanted(source, pinned)]
    /\ \A k \in 1..Len(topo) : h[k] = MoveOnce(h[k - 1], source)

\* What a source may give: a number, never more than it has above the target, nor than MaxMoves.
LEMMA MovableFits ==
  ASSUME TopoFits, NEW i \in Nodes, NEW p \in Nat
  PROVE  /\ TargetPeers(i) \in Nat /\ Movable(i, p) \in Nat /\ Wanted(i, p) \in Nat
         /\ Wanted(i, p) <= MaxMoves
         /\ Wanted(i, p) > 0 => topo[i].peers - Wanted(i, p) >= TargetPeers(i) + p
  <1>1. topo[i].peers \in Nat /\ topo[i].max \in Nat /\ Target \in Nat /\ MaxMoves \in Nat
    BY NodesFit, RebalanceAssumption
  <1>2. TargetPeers(i) \in Nat
    <2>1. topo[i].max * Target \in Nat
      BY <1>1
    <2> QED
      BY <2>1 DEF TargetPeers
  <1>3. /\ Movable(i, p) \in Nat
        /\ Movable(i, p) > 0 => Movable(i, p) = (topo[i].peers - p) - TargetPeers(i)
    BY <1>1, <1>2 DEF Movable, NatMinus
  <1>4. Wanted(i, p) = IF Movable(i, p) <= MaxMoves THEN Movable(i, p) ELSE MaxMoves
    BY <1>1, <1>3, MinOfTwo DEF Wanted
  <1> QED
    BY <1>1, <1>2, <1>3, <1>4

\* Serve is a run of Len(topo) turns.
LEMMA ServeTurns ==
  ASSUME TopoFits, NEW s \in PlanState, NEW source \in Nodes, NEW pinned \in Nat
  PROVE  \E h : IsServe(h, s, source, pinned) /\ Serve(s, source, pinned) = h[Len(topo)]
  <1> DEFINE N == Len(topo)
             base == [s EXCEPT !.pending = Wanted(source, pinned)]
             it == CHOOSE iter : iter = [x \in SUBSET (1..N) |->
                      IF x = {} THEN base ELSE MoveOnce(iter[x \ {Max(x)}], source)]
             F == [k \in 1..N |-> [v \in PlanState |-> MoveOnce(v, source)]]
             V == PlanState
  <1>1. Serve(s, source, pinned) = it[1..N]
    BY DEF Serve, FoldLeft, MapThenFoldSet, Wanted
  <1>2. N \in Nat
    BY NodesFit
  <1>3. base \in V
    BY MovableFits DEF PlanState
  <1>4. F \in [1..N -> [V -> V]] /\ \A k \in 1..N, v \in V : F[k][v] = MoveOnce(v, source)
    BY TurnMoves
  <1> HIDE DEF F, V, base
  <1>5. ASSUME NEW g, IsFold(g, 1..N, V, base, F, LastOf(N))
        PROVE  Follows(it, 1..N, V, base, F, LastOf(N))
    <2>1. /\ g \in [SUBSET (1..N) -> V]
          /\ \A x \in SUBSET (1..N) :
               g[x] = IF x = {} THEN base ELSE F[Max(x)][g[x \ {Max(x)}]]
      BY <1>5 DEF IsFold, LastOf
    <2>2. \A x \in SUBSET (1..N) : x # {} => Max(x) \in 1..N
      BY <1>2, MaxIn
    <2>3. \A x \in SUBSET (1..N) :
               g[x] = IF x = {} THEN base ELSE MoveOnce(g[x \ {Max(x)}], source)
      BY <1>4, <2>1, <2>2
    <2>4. g = [x \in SUBSET (1..N) |-> IF x = {} THEN base ELSE MoveOnce(g[x \ {Max(x)}], source)]
      BY <2>1, <2>3
    <2>5. it = [x \in SUBSET (1..N) |-> IF x = {} THEN base ELSE MoveOnce(it[x \ {Max(x)}], source)]
      BY <2>4
    <2> HIDE DEF it
    <2>6. it[{}] = base
      BY <2>5
    <2>7. ASSUME NEW x \in SUBSET (1..N), x # {}, it[x \ {LastOf(N)[x]}] \in V
          PROVE  it[x] = F[LastOf(N)[x]][it[x \ {LastOf(N)[x]}]]
      <3>1. LastOf(N)[x] = Max(x) /\ Max(x) \in 1..N
        BY <2>2, <2>7 DEF LastOf
      <3>2. it[x] = MoveOnce(it[x \ {Max(x)}], source)
        BY <2>5, <2>7
      <3> QED
        BY <1>4, <2>7, <3>1, <3>2
    <2> QED
      BY <2>6, <2>7 DEF Follows
  <1> HIDE DEF it
  <1>6. PICK h : IsRun(h, N, V, base, F) /\ it[1..N] = h[N]
    BY <1>2, <1>3, <1>4, <1>5, SeqFold
  <1>7. \A k \in 1..N : k - 1 \in 0..N
    BY <1>2
  <1>8. \A k \in 1..N : h[k] = MoveOnce(h[k - 1], source)
    BY <1>4, <1>6, <1>7 DEF IsRun
  <1>9. IsServe(h, s, source, pinned)
    BY <1>6, <1>8 DEF IsRun, IsServe, V, base
  <1> QED
    BY <1>1, <1>6, <1>9

\* What the turns of a source have done since s: they gave what is no longer pending and
\* filled slots with it.
OpenSlots(f) == {i \in Nodes : f[i] > 0}
\* What the turns of one source add up to.
Served(s, source, w, u) ==
    /\ u.pending <= w
    /\ Gives(source, u.moves) + u.pending = Gives(source, s.moves) + w
    /\ \A i \in Nodes \ {source} : Gives(i, u.moves) = Gives(i, s.moves)
    /\ \A i \in Nodes : Takes(i, u.moves) + u.slots[i] = Takes(i, s.moves) + s.slots[i]
    /\ \A i \in Nodes : u.slots[i] <= s.slots[i]
    /\ Total(u.slots, Nodes) + w = Total(s.slots, Nodes) + u.pending

\* Each turn ends the loop or fills a receiver.
LEMMA TurnServes ==
  ASSUME TopoFits, NEW s \in PlanState, NEW source \in Nodes, NEW w \in Nat,
         NEW u \in PlanState, Served(s, source, w, u), NEW t, NEW n, NEW v \in PlanState,
         Moves(u, source, t, n, v)
  PROVE  /\ Served(s, source, w, v)
         /\ v.pending = 0 \/ OpenSlots(v.slots) = OpenSlots(u.slots) \ {t}
         /\ t \in OpenSlots(u.slots)
  <1>1. /\ u.pending \in Nat /\ u.slots \in [Nodes -> Nat] /\ u.moves \in Seq(PlanMove)
        /\ v.pending \in Nat /\ v.slots \in [Nodes -> Nat] /\ v.moves \in Seq(PlanMove)
        /\ s.pending \in Nat /\ s.slots \in [Nodes -> Nat] /\ s.moves \in Seq(PlanMove)
    BY DEF PlanState
  <1>2. /\ t \in Nodes /\ t # source /\ n \in Nat /\ n > 0 /\ n <= u.pending /\ n <= u.slots[t]
        /\ n = u.pending \/ n = u.slots[t]
        /\ v.pending = u.pending - n
        /\ v.slots = [u.slots EXCEPT ![t] = @ - n]
        /\ v.moves = Append(u.moves, [source |-> source, target |-> t, n |-> n])
    BY DEF Moves
  <1> DEFINE e == [source |-> source, target |-> t, n |-> n]
  <1>3. e \in PlanMove /\ e.source = source /\ e.target = t /\ e.n = n
    BY <1>2 DEF PlanMove
  <1>4. v.moves = Append(u.moves, e)
    BY <1>2
  <1> HIDE DEF e
  <1>5. \A i \in Nodes : /\ Gives(i, u.moves) \in Nat /\ Takes(i, u.moves) \in Nat
                         /\ Gives(i, s.moves) \in Nat /\ Takes(i, s.moves) \in Nat
                         /\ Gives(i, v.moves) = Gives(i, u.moves) + (IF e.source = i THEN e.n ELSE 0)
                         /\ Takes(i, v.moves) = Takes(i, u.moves) + (IF e.target = i THEN e.n ELSE 0)
    BY <1>1, <1>3, <1>4, MoveAdds
  <1>6. v.slots[t] = u.slots[t] - n /\ \A i \in Nodes : i # t => v.slots[i] = u.slots[i]
    BY <1>1, <1>2
  <1>7. /\ v.pending <= w
        /\ Gives(source, v.moves) + v.pending = Gives(source, s.moves) + w
    <2>1. u.pending <= w /\ Gives(source, u.moves) + u.pending = Gives(source, s.moves) + w
      BY DEF Served
    <2>2. Gives(source, v.moves) = Gives(source, u.moves) + n
      BY <1>3, <1>5
    <2>3. Gives(source, u.moves) \in Nat /\ Gives(source, s.moves) \in Nat
      BY <1>5
    <2> QED
      BY <1>1, <1>2, <2>1, <2>2, <2>3
  <1>8. ASSUME NEW i \in Nodes \ {source} PROVE Gives(i, v.moves) = Gives(i, s.moves)
    <2>1. Gives(i, u.moves) = Gives(i, s.moves)
      BY DEF Served
    <2>2. Gives(i, v.moves) = Gives(i, u.moves) + 0 /\ Gives(i, u.moves) \in Nat
      BY <1>3, <1>5
    <2> QED
      BY <2>1, <2>2
  <1>9. ASSUME NEW i \in Nodes PROVE Takes(i, v.moves) + v.slots[i] = Takes(i, s.moves) + s.slots[i]
    <2>1. /\ Takes(i, u.moves) + u.slots[i] = Takes(i, s.moves) + s.slots[i]
          /\ u.slots[i] \in Nat /\ s.slots[i] \in Nat /\ v.slots[i] \in Nat
      BY <1>1 DEF Served
    <2>2. CASE i = t
      BY <1>2, <1>3, <1>5, <1>6, <2>1, <2>2
    <2>3. CASE i # t
      BY <1>3, <1>5, <1>6, <2>1, <2>3
    <2> QED
      BY <2>2, <2>3
  <1>10. ASSUME NEW i \in Nodes PROVE v.slots[i] <= s.slots[i]
    <2>1. u.slots[i] <= s.slots[i] /\ u.slots[i] \in Nat /\ s.slots[i] \in Nat
      BY <1>1 DEF Served
    <2>2. v.slots[i] <= u.slots[i]
      BY <1>2, <1>6, <2>1
    <2> QED
      BY <1>1, <2>1, <2>2
  <1>11. Total(v.slots, Nodes) + w = Total(s.slots, Nodes) + v.pending
    <2> DEFINE f == v.slots
               g == u.slots
    <2>1. Summable(f, Nodes) /\ Summable(g, Nodes) /\ Summable(s.slots, Nodes)
      BY <1>1, NodesFit DEF Summable
    <2>2. g[t] = f[t] + n /\ \A y \in Nodes : y # t => f[y] = g[y]
      BY <1>1, <1>2, <1>6
    <2> HIDE DEF f, g
    <2>3. Total(g, Nodes) = Total(f, Nodes) + n
      BY <1>2, <2>1, <2>2, TotalPoint
    <2>4. Total(g, Nodes) \in Nat /\ Total(f, Nodes) \in Nat /\ Total(s.slots, Nodes) \in Nat
      BY <2>1, TotalNat
    <2>5. Total(g, Nodes) + w = Total(s.slots, Nodes) + u.pending
      BY DEF Served, g
    <2>6. Total(f, Nodes) + w = Total(s.slots, Nodes) + v.pending
      BY <1>1, <1>2, <2>3, <2>4, <2>5
    <2> QED
      BY <2>6 DEF f
  <1>12. Served(s, source, w, v)
    BY <1>7, <1>8, <1>9, <1>10, <1>11 DEF Served
  <1>13. t \in OpenSlots(u.slots)
    BY <1>1, <1>2 DEF OpenSlots
  <1>14. v.pending = 0 \/ OpenSlots(v.slots) = OpenSlots(u.slots) \ {t}
    <2>1. CASE n = u.pending
      BY <1>1, <1>2, <2>1
    <2>2. CASE n = u.slots[t]
      <3>1. v.slots[t] = 0
        BY <1>1, <1>2, <1>6, <2>2
      <3> QED
        BY <1>6, <3>1 DEF OpenSlots
    <2> QED
      BY <1>2, <2>1, <2>2
  <1> QED
    BY <1>12, <1>13, <1>14

\* The open slots are finitely many, and no more than the nodes.
LEMMA OpenFits ==
  ASSUME TopoFits, NEW f
  PROVE  /\ IsFiniteSet(OpenSlots(f)) /\ Cardinality(OpenSlots(f)) \in Nat
         /\ Cardinality(OpenSlots(f)) <= Len(topo)
         /\ Cardinality(OpenSlots(f)) = 0 => OpenSlots(f) = {}
         /\ \A t \in OpenSlots(f) : Cardinality(OpenSlots(f) \ {t}) = Cardinality(OpenSlots(f)) - 1
  <1>1. IsFiniteSet(Nodes) /\ Cardinality(Nodes) = Len(topo)
    BY NodesFit
  <1>2. OpenSlots(f) \subseteq Nodes
    BY DEF OpenSlots
  <1>3. IsFiniteSet(OpenSlots(f)) /\ Cardinality(OpenSlots(f)) <= Len(topo)
    BY <1>1, <1>2, FS_Subset
  <1>4. Cardinality(OpenSlots(f)) \in Nat
    BY <1>3, FS_CardinalityType
  <1>5. Cardinality(OpenSlots(f)) = 0 => OpenSlots(f) = {}
    BY <1>3, FS_EmptySet
  <1>6. \A t \in OpenSlots(f) : Cardinality(OpenSlots(f) \ {t}) = Cardinality(OpenSlots(f)) - 1
    BY <1>3, FS_RemoveElement
  <1> QED
    BY <1>3, <1>4, <1>5, <1>6

\* When the loop of a source is over, nothing is pending or all receivers are full.
LEMMA ServeDone ==
  ASSUME TopoFits, NEW s \in PlanState, NEW source \in Nodes, NEW pinned \in Nat,
         s.slots[source] = 0
  PROVE  LET u == Serve(s, source, pinned)
         IN /\ u \in PlanState /\ Served(s, source, Wanted(source, pinned), u)
            /\ u.pending = 0 \/ OpenSlots(u.slots) = {}
  <1> DEFINE w == Wanted(source, pinned)
             N == Len(topo)
  <1>1. PICK h : IsServe(h, s, source, pinned) /\ Serve(s, source, pinned) = h[N]
    BY ServeTurns
  <1>2. N \in Nat /\ w \in Nat
    BY NodesFit, MovableFits
  <1> HIDE DEF w, N
  <1>3. /\ h \in [0..N -> PlanState] /\ h[0] = [s EXCEPT !.pending = w]
        /\ \A k \in 1..N : h[k] = MoveOnce(h[k - 1], source)
    BY <1>1 DEF IsServe, w, N
  <1> DEFINE Fine(k) == /\ h[k] \in PlanState /\ Served(s, source, w, h[k])
                        /\ h[k].pending = 0 \/ Cardinality(OpenSlots(h[k].slots)) + k <= N
             P == {k \in Nat : k <= N => Fine(k)}
  <1>4. 0 \in P
    <2> DEFINE u == h[0]
    <2>1. u \in PlanState /\ u.pending = w /\ u.slots = s.slots /\ u.moves = s.moves
      BY <1>2, <1>3 DEF PlanState
    <2>2. w <= w /\ \A i \in Nodes : s.slots[i] <= s.slots[i]
      BY <1>2 DEF PlanState
    <2>3. Served(s, source, w, u)
      BY <2>1, <2>2 DEF Served
    <2>4. Cardinality(OpenSlots(u.slots)) + 0 <= N
      BY OpenFits DEF N
    <2> QED
      BY <2>1, <2>3, <2>4
  <1>5. ASSUME NEW k \in Nat, k \in P PROVE k + 1 \in P
    <2> SUFFICES ASSUME k + 1 <= N PROVE Fine(k + 1)
      OBVIOUS
    <2>1. k + 1 \in 1..N /\ (k + 1) - 1 = k /\ k <= N
      BY <1>2
    <2> DEFINE u == h[k]
               v == h[k + 1]
    <2>2. v = MoveOnce(u, source)
      BY <1>3, <2>1
    <2>3. u \in PlanState /\ Served(s, source, w, u)
      BY <1>5, <2>1
    <2>4. u.pending = 0 \/ Cardinality(OpenSlots(u.slots)) + k <= N
      BY <1>5, <2>1
    <2> HIDE DEF u, v
    <2>5. u.slots \in [Nodes -> Nat] /\ u.pending \in Nat /\ u.slots[source] = 0
      <3>1. u.slots \in [Nodes -> Nat] /\ u.pending \in Nat /\ u.slots[source] <= 0
        BY <2>3 DEF PlanState, Served
      <3> QED
        BY <3>1
    <2>6. v \in PlanState
      BY <2>2, <2>3, TurnMoves
    <2>7. Cardinality(OpenSlots(u.slots)) \in Nat
      BY OpenFits
    <2>8. CASE ~Open(u, source)
      <3>1. v = u
        BY <2>2, <2>3, <2>8, TurnMoves
      <3>2. u.pending = 0 \/ OpenSlots(u.slots) = {}
        BY <2>5, <2>8 DEF Open, OpenSlots
      <3>3. Cardinality({}) = 0
        BY FS_EmptySet
      <3>4. CASE u.pending = 0
        BY <2>3, <2>6, <3>1, <3>4 DEF v
      <3>5. CASE OpenSlots(u.slots) = {}
        <4>1. Cardinality(OpenSlots(v.slots)) = 0
          BY <3>1, <3>3, <3>5
        <4>2. Cardinality(OpenSlots(v.slots)) + (k + 1) <= N
          BY <4>1
        <4> QED
          BY <2>3, <2>6, <3>1, <4>2 DEF v
      <3> QED
        BY <3>2, <3>4, <3>5
    <2>9. CASE Open(u, source)
      <3>1. PICK t, n : Moves(u, source, t, n, v)
        BY <2>2, <2>3, <2>9, TurnMoves
      <3>2. /\ Served(s, source, w, v)
            /\ v.pending = 0 \/ OpenSlots(v.slots) = OpenSlots(u.slots) \ {t}
            /\ t \in OpenSlots(u.slots)
        BY <1>2, <2>3, <2>6, <3>1, TurnServes
      <3>3. Cardinality(OpenSlots(u.slots) \ {t}) = Cardinality(OpenSlots(u.slots)) - 1
        BY <3>2, OpenFits
      <3>4. u.pending # 0
        BY <2>9 DEF Open
      <3>5. v.pending = 0 \/ Cardinality(OpenSlots(v.slots)) + (k + 1) <= N
        <4>1. Cardinality(OpenSlots(u.slots)) + k <= N
          BY <2>4, <3>4
        <4>2. CASE OpenSlots(v.slots) = OpenSlots(u.slots) \ {t}
          <5>1. Cardinality(OpenSlots(v.slots)) = Cardinality(OpenSlots(u.slots)) - 1
            BY <3>3, <4>2
          <5> QED
            BY <1>2, <2>7, <4>1, <5>1
        <4> QED
          BY <3>2, <4>2
      <3> QED
        BY <2>6, <3>2, <3>5 DEF v
    <2> QED
      BY <2>8, <2>9
  <1> HIDE DEF P
  <1>6. N \in P
    BY <1>2, <1>4, <1>5, NatInduct
  <1>7. Fine(N)
    BY <1>2, <1>6 DEF P
  <1>8. h[N].pending = 0 \/ Cardinality(OpenSlots(h[N].slots)) = 0
    <2>1. Cardinality(OpenSlots(h[N].slots)) \in Nat
      BY OpenFits
    <2> QED
      BY <1>2, <1>7, <2>1
  <1>9. h[N].pending = 0 \/ OpenSlots(h[N].slots) = {}
    BY <1>8, OpenFits
  <1> QED
    BY <1>1, <1>7, <1>9 DEF w

\* A source is no receiver.
LEMMA SourcesDoNotReceive ==
  ASSUME TopoFits
  PROVE  /\ Overloaded \subseteq Nodes /\ Underloaded \subseteq Nodes
         /\ Overloaded \cap Underloaded = {}
         /\ ReceiverSlots \in [Nodes -> Nat]
         /\ \A i \in Nodes : ReceiverSlots[i] > 0 =>
               i \in Underloaded /\ topo[i].peers + ReceiverSlots[i] <= TargetPeers(i)
  <1>1. Overloaded \subseteq Nodes /\ Underloaded \subseteq Nodes
    BY DEF Overloaded, Underloaded
  <1>2. \A m \in Nat : Target * m <= High * m
    <2> SUFFICES ASSUME NEW m \in Nat PROVE Target * m <= High * m
      OBVIOUS
    <2>1. Target \in Nat /\ High \in Nat /\ High - Target \in Nat
      BY RebalanceAssumption
    <2>2. \A x \in Nat : x * m \in Nat
      OBVIOUS
    <2>3. (High - Target) * m \in Nat
      BY <2>1, <2>2
    <2>4. (High - Target) * m = High * m - Target * m
      BY <2>1
    <2> QED
      BY <2>1, <2>2, <2>3, <2>4
  <1>3. ASSUME NEW i \in Overloaded, i \in Underloaded PROVE FALSE
    <2>1. topo[i].peers * 100 >= High * topo[i].max /\ topo[i].peers * 100 < Target * topo[i].max
      BY <1>3 DEF Overloaded, Underloaded
    <2>2. topo[i].max \in Nat /\ topo[i].peers \in Nat
      BY <1>1, NodesFit
    <2>3. Target * topo[i].max <= High * topo[i].max
      BY <1>2, <2>2
    <2>4. Target * topo[i].max \in Int /\ High * topo[i].max \in Int /\ topo[i].peers * 100 \in Int
      BY <2>2, RebalanceAssumption
    <2> QED
      BY <2>1, <2>3, <2>4
  <1>4. \A i \in Nodes : topo[i].peers \in Nat /\ TargetPeers(i) \in Nat
    <2>1. 0 \in Nat
      OBVIOUS
    <2> QED
      BY <2>1, NodesFit, MovableFits
  <1>5. \A i \in Nodes : NatMinus(TargetPeers(i), topo[i].peers) \in Nat
    BY <1>4 DEF NatMinus
  <1>6. ReceiverSlots \in [Nodes -> Nat]
    BY <1>5 DEF ReceiverSlots
  <1>7. ASSUME NEW i \in Nodes, ReceiverSlots[i] > 0
        PROVE  i \in Underloaded /\ topo[i].peers + ReceiverSlots[i] <= TargetPeers(i)
    <2>1. i \in Underloaded
      BY <1>7 DEF ReceiverSlots
    <2>2. ReceiverSlots[i] = NatMinus(TargetPeers(i), topo[i].peers)
      BY <2>1 DEF ReceiverSlots
    <2> QED
      BY <1>4, <1>7, <2>1, <2>2 DEF NatMinus
  <1> QED
    BY <1>1, <1>3, <1>6, <1>7

\* sorted() by load exists: the sources, each once.
LEMMA ByLoadFits ==
  ASSUME TopoFits
  PROVE  /\ Len(ByLoad) \in Nat /\ ByLoad \in [1..Len(ByLoad) -> Overloaded]
         /\ \A i \in Overloaded : \E k \in 1..Len(ByLoad) : ByLoad[k] = i
         /\ \A j, k \in 1..Len(ByLoad) : j # k => ByLoad[j] # ByLoad[k]
  <1> DEFINE R == {p \in Overloaded \X Overloaded : Busier(p[1], p[2])}
             S == Overloaded
  <1>1. \A x, y \in S : <<x, y>> \in R <=> Busier(x, y)
    OBVIOUS
  <1>2. IsFiniteSet(S)
    BY NodesFit, SourcesDoNotReceive, FS_Subset
  <1>3. \A x \in S : topo[x].peers \in Nat /\ topo[x].max \in Nat \ {0} /\ x \in Nat
    BY NodesFit DEF Overloaded
  <1> HIDE DEF R, S
  <1>4. Orders(R, S)
    <2> DEFINE p == [x \in S |-> topo[x].peers]
               m == [x \in S |-> topo[x].max]
    <2>1. /\ \A x \in S : p[x] \in Nat /\ m[x] \in Nat \ {0} /\ x \in Nat
          /\ \A x, y \in S : <<x, y>> \in R <=> Above(p, m, x, y)
      BY <1>1, <1>3 DEF Busier, Above
    <2> HIDE DEF p, m
    <2> QED
      BY <2>1, RatioOrder
  <1>5. PICK q \in SetToSeqs(S) : \A i, j \in DOMAIN q : i < j => <<q[i], q[j]>> \in R
    BY <1>2, <1>4, SortedExists
  <1>6. Cardinality(S) \in Nat
    BY <1>2, FS_CardinalityType
  <1>7. \A p \in SetToSeqs(S) : /\ p \in [1..Cardinality(S) -> S]
                                /\ \A i, j \in 1..Cardinality(S) : i # j => p[i] # p[j]
    BY DEF SetToSeqs
  <1>8. \A i, j \in DOMAIN q : i < j => Busier(q[i], q[j])
    <2>1. \A i \in DOMAIN q : q[i] \in S
      BY <1>7
    <2> QED
      BY <1>1, <1>5, <2>1
  <1>9. ByLoad \in SetToSeqs(S)
    BY <1>8 DEF ByLoad, S
  <1>10. /\ ByLoad \in [1..Cardinality(S) -> S]
         /\ \A i, j \in 1..Cardinality(S) : i # j => ByLoad[i] # ByLoad[j]
    BY <1>7, <1>9
  <1>11. ByLoad \in Seq(S) /\ Len(ByLoad) = Cardinality(S)
    BY <1>6, <1>10
  <1>12. \A i \in S : \E k \in 1..Cardinality(S) : ByLoad[k] = i
    <2> DEFINE n == Cardinality(S)
               D == 1..n
               T == {ByLoad[k] : k \in D}
    <2>1. IsFiniteSet(D) /\ Cardinality(D) = n
      <3>1. 1 \in Int /\ n \in Int
        BY <1>6
      <3>2. IsFiniteSet(1..n) /\ Cardinality(1..n) = IF 1 > n THEN 0 ELSE n - 1 + 1
        BY <3>1, FS_Interval
      <3> QED
        BY <1>6, <3>2
    <2> HIDE DEF n
    <2>2. ByLoad \in Injection(D, S)
      BY <1>10 DEF Injection, IsInjective, n
    <2>3. ByLoad \in Surjection(D, S)
      BY <1>2, <2>1, <2>2, FS_Injection DEF n
    <2> QED
      BY <2>3 DEF Surjection, n
  <1> QED
    BY <1>6, <1>10, <1>11, <1>12 DEF S

\* Plan states in which no source has slots, and a plan source by source.
Idle == {s \in PlanState : \A i \in Overloaded : s.slots[i] = 0}
PlanStart == [moves |-> <<>>, slots |-> ReceiverSlots, pending |-> 0]
\* A plan as the run of its sources in the order of ByLoad.
IsPlan(h, pn) ==
    /\ h \in [0..Len(ByLoad) -> Idle]
    /\ h[0] = PlanStart
    /\ \A k \in 1..Len(ByLoad) : h[k] = Serve(h[k - 1], ByLoad[k], pn[ByLoad[k]])

\* The planner starts with every receiver's slots and no move.
LEMMA PlanStarts == ASSUME TopoFits PROVE PlanStart \in Idle
  <1>1. ReceiverSlots \in [Nodes -> Nat]
    BY SourcesDoNotReceive
  <1>2. \A i \in Overloaded : ReceiverSlots[i] = 0
    BY SourcesDoNotReceive DEF ReceiverSlots
  <1>3. <<>> \in Seq(PlanMove) /\ 0 \in Nat
    OBVIOUS
  <1>4. PlanStart \in PlanState /\ PlanStart.slots = ReceiverSlots
    BY <1>1, <1>3 DEF PlanState, PlanStart
  <1> QED
    BY <1>2, <1>4 DEF Idle

\* Serving one source opens no slot on another source.
LEMMA ServeStaysIdle ==
  ASSUME TopoFits, NEW s \in Idle, NEW source \in Overloaded, NEW pinned \in Nat
  PROVE  Serve(s, source, pinned) \in Idle
  <1> DEFINE u == Serve(s, source, pinned)
             w == Wanted(source, pinned)
  <1>1. s \in PlanState /\ source \in Nodes /\ s.slots[source] = 0
    BY SourcesDoNotReceive DEF Idle
  <1>2. u \in PlanState /\ Served(s, source, w, u)
    BY <1>1, ServeDone
  <1> HIDE DEF u, w
  <1>3. u.moves \in Seq(PlanMove) /\ s.moves \in Seq(PlanMove) /\ u.slots \in [Nodes -> Nat]
    BY <1>1, <1>2 DEF PlanState
  <1>4. ASSUME NEW i \in Overloaded PROVE u.slots[i] = 0
    <2>1. i \in Nodes /\ s.slots[i] = 0
      BY SourcesDoNotReceive DEF Idle
    <2>2. u.slots[i] \in Nat /\ u.slots[i] <= 0
      BY <1>2, <1>3, <2>1 DEF Served
    <2> QED
      BY <2>2
  <1> QED
    BY <1>2, <1>4 DEF Idle, u

\* plan_rebalance, source by source.
LEMMA PlanRuns ==
  ASSUME TopoFits
  PROVE  \E h : IsPlan(h, [i \in Nodes |-> topo[i].pinned]) /\ PlanRebalance = h[Len(ByLoad)].moves
  <1> DEFINE q == ByLoad
             N == Len(q)
             pn == [i \in Nodes |-> topo[i].pinned]
             it == CHOOSE iter : iter = [x \in SUBSET (DOMAIN q) |->
                      IF x = {} THEN PlanStart
                      ELSE Serve(iter[x \ {Max(x)}], q[Max(x)], topo[q[Max(x)]].pinned)]
             F == [k \in 1..N |-> [v \in Idle |-> Serve(v, q[k], pn[q[k]])]]
             V == Idle
  <1>1. PlanRebalance = it[DOMAIN q].moves
    BY DEF PlanRebalance, FoldLeft, MapThenFoldSet, PlanStart
  <1>2. N \in Nat /\ DOMAIN q = 1..N /\ \A k \in 1..N : q[k] \in Overloaded /\ q[k] \in Nodes
    BY ByLoadFits, SourcesDoNotReceive
  <1>3. PlanStart \in V
    BY PlanStarts
  <1>4. \A k \in 1..N : pn[q[k]] = topo[q[k]].pinned /\ pn[q[k]] \in Nat
    BY <1>2, NodesFit
  <1>5. F \in [1..N -> [V -> V]] /\ \A k \in 1..N, v \in V : F[k][v] = Serve(v, q[k], topo[q[k]].pinned)
    BY <1>2, <1>4, ServeStaysIdle
  <1> HIDE DEF F, V, q, N, pn
  <1>6. ASSUME NEW g, IsFold(g, 1..N, V, PlanStart, F, LastOf(N))
        PROVE  Follows(it, 1..N, V, PlanStart, F, LastOf(N))
    <2>1. /\ g \in [SUBSET (1..N) -> V]
          /\ \A x \in SUBSET (1..N) :
               g[x] = IF x = {} THEN PlanStart ELSE F[Max(x)][g[x \ {Max(x)}]]
      BY <1>6 DEF IsFold, LastOf
    <2>2. \A x \in SUBSET (1..N) : x # {} => Max(x) \in 1..N
      BY <1>2, MaxIn
    <2>3. \A x \in SUBSET (1..N) :
               g[x] = IF x = {} THEN PlanStart
                      ELSE Serve(g[x \ {Max(x)}], q[Max(x)], topo[q[Max(x)]].pinned)
      BY <1>5, <2>1, <2>2
    <2>4. g = [x \in SUBSET (DOMAIN q) |-> IF x = {} THEN PlanStart
                      ELSE Serve(g[x \ {Max(x)}], q[Max(x)], topo[q[Max(x)]].pinned)]
      BY <1>2, <2>1, <2>3
    <2>5. it = [x \in SUBSET (DOMAIN q) |-> IF x = {} THEN PlanStart
                      ELSE Serve(it[x \ {Max(x)}], q[Max(x)], topo[q[Max(x)]].pinned)]
      BY <2>4
    <2> HIDE DEF it
    <2>6. it[{}] = PlanStart
      BY <2>5
    <2>7. ASSUME NEW x \in SUBSET (1..N), x # {}, it[x \ {LastOf(N)[x]}] \in V
          PROVE  it[x] = F[LastOf(N)[x]][it[x \ {LastOf(N)[x]}]]
      <3>1. LastOf(N)[x] = Max(x) /\ Max(x) \in 1..N
        BY <2>2, <2>7 DEF LastOf
      <3>2. it[x] = Serve(it[x \ {Max(x)}], q[Max(x)], topo[q[Max(x)]].pinned)
        BY <1>2, <2>5, <2>7
      <3> QED
        BY <1>5, <2>7, <3>1, <3>2
    <2> QED
      BY <2>6, <2>7 DEF Follows
  <1> HIDE DEF it
  <1>7. PICK h : IsRun(h, N, V, PlanStart, F) /\ it[1..N] = h[N]
    <2>1. N \in Nat /\ PlanStart \in V /\ F \in [1..N -> [V -> V]]
      BY <1>2, <1>3, <1>5
    <2> HIDE DEF N
    <2> QED
      BY <1>6, <2>1, SeqFold
  <1>8. \A k \in 1..N : k - 1 \in 0..N
    BY <1>2
  <1>9. \A k \in 1..N : h[k] = Serve(h[k - 1], q[k], pn[q[k]])
    BY <1>4, <1>5, <1>7, <1>8 DEF IsRun
  <1>10. IsPlan(h, pn)
    BY <1>7, <1>9 DEF IsRun, IsPlan, V, N, q
  <1> QED
    BY <1>1, <1>2, <1>7, <1>10 DEF N, q, pn

\* _graph_rebalance_edges, source by source.
LEMMA GraphRuns ==
  ASSUME TopoFits
  PROVE  \E h : IsPlan(h, [i \in Nodes |-> 0]) /\ GraphEdges = h[Len(ByLoad)].moves
  <1> DEFINE q == ByLoad
             N == Len(q)
             pn == [i \in Nodes |-> 0]
             it == CHOOSE iter : iter = [x \in SUBSET (DOMAIN q) |->
                      IF x = {} THEN PlanStart
                      ELSE Serve(iter[x \ {Max(x)}], q[Max(x)], 0)]
             F == [k \in 1..N |-> [v \in Idle |-> Serve(v, q[k], pn[q[k]])]]
             V == Idle
  <1>1. GraphEdges = it[DOMAIN q].moves
    BY DEF GraphEdges, FoldLeft, MapThenFoldSet, PlanStart
  <1>2. N \in Nat /\ DOMAIN q = 1..N /\ \A k \in 1..N : q[k] \in Overloaded /\ q[k] \in Nodes
    BY ByLoadFits, SourcesDoNotReceive
  <1>3. PlanStart \in V
    BY PlanStarts
  <1>4. \A k \in 1..N : pn[q[k]] = 0 /\ pn[q[k]] \in Nat
    BY <1>2, NodesFit
  <1>5. F \in [1..N -> [V -> V]] /\ \A k \in 1..N, v \in V : F[k][v] = Serve(v, q[k], 0)
    BY <1>2, <1>4, ServeStaysIdle
  <1> HIDE DEF F, V, q, N, pn
  <1>6. ASSUME NEW g, IsFold(g, 1..N, V, PlanStart, F, LastOf(N))
        PROVE  Follows(it, 1..N, V, PlanStart, F, LastOf(N))
    <2>1. /\ g \in [SUBSET (1..N) -> V]
          /\ \A x \in SUBSET (1..N) :
               g[x] = IF x = {} THEN PlanStart ELSE F[Max(x)][g[x \ {Max(x)}]]
      BY <1>6 DEF IsFold, LastOf
    <2>2. \A x \in SUBSET (1..N) : x # {} => Max(x) \in 1..N
      BY <1>2, MaxIn
    <2>3. \A x \in SUBSET (1..N) :
               g[x] = IF x = {} THEN PlanStart
                      ELSE Serve(g[x \ {Max(x)}], q[Max(x)], 0)
      BY <1>5, <2>1, <2>2
    <2>4. g = [x \in SUBSET (DOMAIN q) |-> IF x = {} THEN PlanStart
                      ELSE Serve(g[x \ {Max(x)}], q[Max(x)], 0)]
      BY <1>2, <2>1, <2>3
    <2>5. it = [x \in SUBSET (DOMAIN q) |-> IF x = {} THEN PlanStart
                      ELSE Serve(it[x \ {Max(x)}], q[Max(x)], 0)]
      BY <2>4
    <2> HIDE DEF it
    <2>6. it[{}] = PlanStart
      BY <2>5
    <2>7. ASSUME NEW x \in SUBSET (1..N), x # {}, it[x \ {LastOf(N)[x]}] \in V
          PROVE  it[x] = F[LastOf(N)[x]][it[x \ {LastOf(N)[x]}]]
      <3>1. LastOf(N)[x] = Max(x) /\ Max(x) \in 1..N
        BY <2>2, <2>7 DEF LastOf
      <3>2. it[x] = Serve(it[x \ {Max(x)}], q[Max(x)], 0)
        BY <1>2, <2>5, <2>7
      <3> QED
        BY <1>5, <2>7, <3>1, <3>2
    <2> QED
      BY <2>6, <2>7 DEF Follows
  <1> HIDE DEF it
  <1>7. PICK h : IsRun(h, N, V, PlanStart, F) /\ it[1..N] = h[N]
    <2>1. N \in Nat /\ PlanStart \in V /\ F \in [1..N -> [V -> V]]
      BY <1>2, <1>3, <1>5
    <2> HIDE DEF N
    <2> QED
      BY <1>6, <2>1, SeqFold
  <1>8. \A k \in 1..N : k - 1 \in 0..N
    BY <1>2
  <1>9. \A k \in 1..N : h[k] = Serve(h[k - 1], q[k], pn[q[k]])
    BY <1>4, <1>5, <1>7, <1>8 DEF IsRun
  <1>10. IsPlan(h, pn)
    BY <1>7, <1>9 DEF IsRun, IsPlan, V, N, q
  <1> QED
    BY <1>1, <1>2, <1>7, <1>10 DEF N, q, pn

\* What holds of a plan after the first k sources: pn has the pinned peers of each node.
Given(moves) == [i \in Nodes |-> Gives(i, moves)]
Spare(pn) == [i \in Nodes |-> Wanted(i, pn[i])]
FirstSources(k) == {ByLoad[j] : j \in 1..k}
PlanFits(s, pn, k) ==
    /\ \A i \in Nodes : Takes(i, s.moves) + s.slots[i] = ReceiverSlots[i]
    /\ \A i \in Nodes : Gives(i, s.moves) <= Spare(pn)[i]
    /\ \A i \in Nodes \ FirstSources(k) : Gives(i, s.moves) = 0
    /\ Total(s.slots, Nodes) + Total(Given(s.moves), Nodes) = Total(ReceiverSlots, Nodes)
    /\ \/ \A i \in FirstSources(k) : Gives(i, s.moves) = Spare(pn)[i]
       \/ \A i \in Nodes : s.slots[i] = 0

\* One more source keeps what holds of the plan.
LEMMA PlanStep ==
  ASSUME TopoFits, NEW pn \in [Nodes -> Nat], NEW k \in 1..Len(ByLoad), NEW s \in Idle,
         PlanFits(s, pn, k - 1)
  PROVE  PlanFits(Serve(s, ByLoad[k], pn[ByLoad[k]]), pn, k)
  <1> DEFINE a == ByLoad[k]
             w == Wanted(a, pn[a])
             u == Serve(s, a, pn[a])
  <1>1. a \in Overloaded /\ a \in Nodes /\ s \in PlanState /\ s.slots[a] = 0
    BY ByLoadFits, SourcesDoNotReceive DEF Idle
  <1>2. pn[a] \in Nat
    BY <1>1
  <1>3. u \in PlanState /\ Served(s, a, w, u) /\ (u.pending = 0 \/ OpenSlots(u.slots) = {})
    BY <1>1, <1>2, ServeDone
  <1>4. w \in Nat /\ Spare(pn)[a] = w
    BY <1>1, <1>2, MovableFits DEF Spare
  <1>5. FirstSources(k) = FirstSources(k - 1) \cup {a} /\ a \notin FirstSources(k - 1)
    <2>1. Len(ByLoad) \in Nat /\ \A i, j \in 1..Len(ByLoad) : i # j => ByLoad[i] # ByLoad[j]
      BY ByLoadFits
    <2>2. 1..k = 1..(k-1) \cup {k} /\ k \notin 1..(k-1) /\ 1..k \subseteq 1..Len(ByLoad)
      BY <2>1
    <2> QED
      BY <2>1, <2>2 DEF FirstSources
  <1> HIDE DEF a, w, u
  <1>6. /\ u.slots \in [Nodes -> Nat] /\ u.moves \in Seq(PlanMove) /\ u.pending \in Nat
        /\ s.slots \in [Nodes -> Nat] /\ s.moves \in Seq(PlanMove)
    BY <1>1, <1>3 DEF PlanState
  <1>7. \A i \in Nodes : /\ Gives(i, u.moves) \in Nat /\ Takes(i, u.moves) \in Nat
                         /\ Gives(i, s.moves) \in Nat /\ Takes(i, s.moves) \in Nat
    <2>1. PICK e \in PlanMove : TRUE
      <3> DEFINE e == [source |-> a, target |-> a, n |-> 0]
      <3>1. e \in PlanMove
        BY <1>1 DEF PlanMove
      <3> QED
        BY <3>1
    <2> QED
      BY <1>6, <2>1, MoveAdds
  <1>8. Gives(a, s.moves) = 0
    BY <1>1, <1>5 DEF PlanFits
  <1>9. Gives(a, u.moves) + u.pending = w /\ u.pending <= w
    BY <1>1, <1>4, <1>7, <1>8, <1>3 DEF Served
  <1>10. \A i \in Nodes : i # a => Gives(i, u.moves) = Gives(i, s.moves)
    BY <1>3 DEF Served
  <1>11. \A i \in Nodes : Takes(i, u.moves) + u.slots[i] = ReceiverSlots[i]
    BY <1>3 DEF Served, PlanFits
  <1>12. \A i \in Nodes : Gives(i, u.moves) <= Spare(pn)[i]
    <2> SUFFICES ASSUME NEW i \in Nodes PROVE Gives(i, u.moves) <= Spare(pn)[i]
      OBVIOUS
    <2>1. CASE i = a
      <3>1. Gives(a, u.moves) <= w
        BY <1>1, <1>4, <1>6, <1>7, <1>9
      <3> QED
        BY <1>4, <2>1, <3>1
    <2>2. CASE i # a
      BY <1>10, <2>2 DEF PlanFits
    <2> QED
      BY <2>1, <2>2
  <1>13. \A i \in Nodes \ FirstSources(k) : Gives(i, u.moves) = 0
    BY <1>5, <1>10 DEF PlanFits
  <1>14. Total(u.slots, Nodes) + Total(Given(u.moves), Nodes) = Total(ReceiverSlots, Nodes)
    <2> DEFINE f == Given(s.moves)
               g == Given(u.moves)
               n == Gives(a, u.moves)
    <2>1. /\ f[a] = 0 /\ g[a] = n /\ n \in Nat
          /\ \A y \in Nodes : f[y] \in Nat /\ g[y] \in Nat /\ (y # a => f[y] = g[y])
      BY <1>1, <1>7, <1>8, <1>10 DEF Given
    <2> HIDE DEF f, g, n
    <2>2. Summable(f, Nodes) /\ Summable(g, Nodes) /\ Summable(u.slots, Nodes) /\ Summable(s.slots, Nodes)
      BY <1>6, <2>1, NodesFit DEF Summable
    <2>3. g[a] = f[a] + n
      BY <2>1
    <2>4. Total(g, Nodes) = Total(f, Nodes) + n
      BY <1>1, <2>1, <2>2, <2>3, TotalPoint
    <2>5. /\ Total(f, Nodes) \in Nat /\ Total(g, Nodes) \in Nat
          /\ Total(u.slots, Nodes) \in Nat /\ Total(s.slots, Nodes) \in Nat
      BY <2>2, TotalNat
    <2>6. /\ Total(u.slots, Nodes) + w = Total(s.slots, Nodes) + u.pending
          /\ Total(s.slots, Nodes) + Total(f, Nodes) = Total(ReceiverSlots, Nodes)
      BY <1>3 DEF Served, PlanFits, f
    <2>7. n + u.pending = w
      BY <1>9 DEF n
    <2>8. Total(u.slots, Nodes) + Total(g, Nodes) = Total(ReceiverSlots, Nodes)
      <3> DEFINE tu == Total(u.slots, Nodes)
                 ts == Total(s.slots, Nodes)
                 tf == Total(f, Nodes)
                 tg == Total(g, Nodes)
                 tr == Total(ReceiverSlots, Nodes)
                 left == u.pending
      <3>1. tu \in Nat /\ ts \in Nat /\ tf \in Nat /\ tg \in Nat /\ n \in Nat /\ left \in Nat /\ w \in Nat
        BY <1>4, <1>6, <2>1, <2>5
      <3>2. tg = tf + n /\ tu + w = ts + left /\ ts + tf = tr /\ n + left = w
        BY <2>4, <2>6, <2>7
      <3> HIDE DEF tu, ts, tf, tg, tr, left
      <3>3. tu + tg = tr
        BY <3>1, <3>2
      <3> QED
        BY <3>3 DEF tu, tg, tr
    <2> QED
      BY <2>8 DEF g
  <1>15. \/ \A i \in FirstSources(k) : Gives(i, u.moves) = Spare(pn)[i]
         \/ \A i \in Nodes : u.slots[i] = 0
    <2>1. CASE \A i \in Nodes : s.slots[i] = 0
      <3> SUFFICES ASSUME NEW i \in Nodes PROVE u.slots[i] = 0
        OBVIOUS
      <3>1. u.slots[i] <= 0 /\ u.slots[i] \in Nat
        BY <1>3, <1>6, <2>1 DEF Served
      <3> QED
        BY <3>1
    <2>2. CASE OpenSlots(u.slots) = {}
      <3> SUFFICES ASSUME NEW i \in Nodes PROVE u.slots[i] = 0
        OBVIOUS
      <3>1. ~(u.slots[i] > 0) /\ u.slots[i] \in Nat
        BY <1>6, <2>2 DEF OpenSlots
      <3> QED
        BY <3>1
    <2>3. CASE u.pending = 0 /\ \A i \in FirstSources(k - 1) : Gives(i, s.moves) = Spare(pn)[i]
      <3>1. Gives(a, u.moves) = w
        BY <1>1, <1>4, <1>7, <1>9, <2>3
      <3>2. \A i \in FirstSources(k - 1) : i \in Nodes
        <4>1. \A j \in 1..(k-1) : j \in 1..Len(ByLoad)
          BY ByLoadFits
        <4> QED
          BY <4>1, ByLoadFits, SourcesDoNotReceive DEF FirstSources
      <3> QED
        BY <1>4, <1>5, <1>10, <2>3, <3>1, <3>2
    <2> QED
      BY <1>3, <2>1, <2>2, <2>3 DEF PlanFits
  <1>16. PlanFits(u, pn, k)
    BY <1>11, <1>12, <1>13, <1>14, <1>15 DEF PlanFits
  <1> QED
    BY <1>16 DEF u, a

\* So it holds of the whole plan.
LEMMA PlanDone ==
  ASSUME TopoFits, NEW pn \in [Nodes -> Nat], NEW h, IsPlan(h, pn)
  PROVE  PlanFits(h[Len(ByLoad)], pn, Len(ByLoad)) /\ h[Len(ByLoad)] \in Idle
  <1> DEFINE N == Len(ByLoad)
             P == {k \in Nat : k <= N => PlanFits(h[k], pn, k)}
  <1>1. N \in Nat
    BY ByLoadFits
  <1>2. 0 \in P
    <2> DEFINE z == 0
               m == h[0].moves
    <2>1. h[0].moves = <<>> /\ h[0].slots = ReceiverSlots
      BY DEF IsPlan, PlanStart
    <2>2. \A i \in Nodes : Gives(i, <<>>) = 0 /\ Takes(i, <<>>) = 0
      <3>1. \A i \in Nodes : {k \in DOMAIN <<>> : <<>>[k].source = i} = {}
        OBVIOUS
      <3>2. \A i \in Nodes : {k \in DOMAIN <<>> : <<>>[k].target = i} = {}
        OBVIOUS
      <3> QED
        BY <3>1, <3>2, TotalEmpty DEF Gives, Takes
    <2>3. \A i \in Nodes : Spare(pn)[i] \in Nat /\ ReceiverSlots[i] \in Nat
      BY MovableFits, SourcesDoNotReceive DEF Spare
    <2>4. FirstSources(0) = {}
      BY DEF FirstSources
    <2>5. Total(ReceiverSlots, Nodes) \in Nat
      <3>1. Summable(ReceiverSlots, Nodes)
        BY NodesFit, <2>3 DEF Summable
      <3> QED
        BY <3>1, TotalNat
    <2>6. Total(Given(<<>>), Nodes) = 0
      <3> DEFINE f == Given(<<>>)
      <3>1. \A i \in Nodes : f[i] = 0
        BY <2>2 DEF Given
      <3> HIDE DEF f
      <3>2. Summable(f, Nodes) /\ {} \in SUBSET Nodes /\ \A x \in Nodes \ {} : f[x] = 0
        BY <3>1, NodesFit DEF Summable
      <3>3. Total(f, Nodes) = Total(f, {})
        BY <3>2, TotalSupport
      <3> QED
        BY <3>3, TotalEmpty DEF f
    <2>7. \A i \in Nodes : Takes(i, m) + h[0].slots[i] = ReceiverSlots[i]
      BY <2>1, <2>2, <2>3
    <2>8. \A i \in Nodes : Gives(i, m) <= Spare(pn)[i] /\ Gives(i, m) = 0
      BY <2>1, <2>2, <2>3
    <2>9. Total(h[0].slots, Nodes) + Total(Given(m), Nodes) = Total(ReceiverSlots, Nodes)
      BY <2>1, <2>5, <2>6
    <2>10. PlanFits(h[0], pn, 0)
      BY <2>4, <2>7, <2>8, <2>9 DEF PlanFits
    <2> QED
      BY <2>10
  <1>3. ASSUME NEW k \in Nat, k \in P PROVE k + 1 \in P
    <2> SUFFICES ASSUME k + 1 <= N PROVE PlanFits(h[k + 1], pn, k + 1)
      OBVIOUS
    <2> DEFINE j == k + 1
    <2>1. j \in 1..N /\ j - 1 = k /\ k \in 0..N /\ k <= N
      BY <1>1
    <2>2. h[j] = Serve(h[j - 1], ByLoad[j], pn[ByLoad[j]]) /\ h[j - 1] \in Idle
      BY <2>1 DEF IsPlan
    <2>3. PlanFits(h[j - 1], pn, j - 1)
      BY <1>3, <2>1
    <2> HIDE DEF j
    <2>4. PlanFits(h[j], pn, j)
      BY <2>1, <2>2, <2>3, PlanStep
    <2> QED
      BY <2>4 DEF j
  <1> HIDE DEF P
  <1>4. N \in P
    BY <1>1, <1>2, <1>3, NatInduct
  <1>5. N <= N /\ N \in 0..N
    BY <1>1
  <1>6. PlanFits(h[N], pn, N)
    BY <1>4, <1>5 DEF P
  <1> QED
    BY <1>5, <1>6 DEF IsPlan

\* A plan settles.
LEMMA PlanIsSettled ==
  ASSUME TopoFits, NEW pn \in [Nodes -> Nat], NEW h, IsPlan(h, pn)
  PROVE  Settled(h[Len(ByLoad)].moves, pn)
  <1> DEFINE s == h[Len(ByLoad)]
  <1>1. PlanFits(s, pn, Len(ByLoad)) /\ s \in Idle
    BY PlanDone
  <1> HIDE DEF s
  <1>2. s.slots \in [Nodes -> Nat] /\ s.moves \in Seq(PlanMove)
    BY <1>1 DEF Idle, PlanState
  <1> SUFFICES ASSUME NEW i \in Nodes
               PROVE  /\ Takes(i, s.moves) > 0 => topo[i].peers + Takes(i, s.moves) <= TargetPeers(i)
                      /\ Gives(i, s.moves) > 0 =>
                           /\ topo[i].peers - Gives(i, s.moves) >= TargetPeers(i) + pn[i]
                           /\ Gives(i, s.moves) <= MaxMoves
                           /\ Takes(i, s.moves) = 0
    BY DEF Settled, s
  <1> DEFINE G == Gives(i, s.moves)
             T == Takes(i, s.moves)
             w == Wanted(i, pn[i])
  <1>3. G \in Nat /\ T \in Nat
    <2>1. PICK e \in PlanMove : TRUE
      <3> DEFINE e == [source |-> i, target |-> i, n |-> 0]
      <3>1. e \in PlanMove
        BY DEF PlanMove
      <3> QED
        BY <3>1
    <2> QED
      BY <1>2, <2>1, MoveAdds
  <1>4. /\ T + s.slots[i] = ReceiverSlots[i] /\ s.slots[i] \in Nat
        /\ G <= w /\ (G > 0 => i \in Overloaded)
    <2>1. FirstSources(Len(ByLoad)) \subseteq Overloaded
      BY ByLoadFits DEF FirstSources
    <2>2. G > 0 => i \in FirstSources(Len(ByLoad))
      BY <1>1 DEF PlanFits
    <2> QED
      BY <1>1, <1>2, <2>1, <2>2 DEF PlanFits, Spare
  <1>5. /\ w \in Nat /\ w <= MaxMoves /\ (w > 0 => topo[i].peers - w >= TargetPeers(i) + pn[i])
        /\ TargetPeers(i) \in Nat /\ pn[i] \in Nat /\ topo[i].peers \in Nat /\ MaxMoves \in Nat
    BY MovableFits, NodesFit, RebalanceAssumption
  <1>6. ReceiverSlots[i] \in Nat /\ (ReceiverSlots[i] > 0 =>
               i \in Underloaded /\ topo[i].peers + ReceiverSlots[i] <= TargetPeers(i))
    BY SourcesDoNotReceive
  <1>7. i \in Overloaded => ReceiverSlots[i] = 0
    BY <1>6, SourcesDoNotReceive DEF ReceiverSlots
  <1> HIDE DEF G, T, w
  <1>8. T > 0 => topo[i].peers + T <= TargetPeers(i)
    BY <1>3, <1>4, <1>5, <1>6
  <1>9. G > 0 => topo[i].peers - G >= TargetPeers(i) + pn[i] /\ G <= MaxMoves /\ T = 0
    BY <1>3, <1>4, <1>5, <1>7
  <1> QED
    BY <1>8, <1>9 DEF G, T

\* The greedy plan moves the smaller of what the sources have to give and what the receivers can take.
LEMMA PlanLeavesNothing ==
  ASSUME TopoFits, NEW pn \in [Nodes -> Nat], NEW h, IsPlan(h, pn)
  PROVE  Total(Given(h[Len(ByLoad)].moves), Nodes)
            = Min({Total(Spare(pn), Overloaded), Total(ReceiverSlots, Underloaded)})
  <1> DEFINE s == h[Len(ByLoad)]
             f == Given(s.moves)
             g == Spare(pn)
             r == ReceiverSlots
  <1>1. PlanFits(s, pn, Len(ByLoad)) /\ s \in Idle
    BY PlanDone
  <1>2. FirstSources(Len(ByLoad)) = Overloaded
    BY ByLoadFits DEF FirstSources
  <1> HIDE DEF s
  <1>3. s.slots \in [Nodes -> Nat] /\ s.moves \in Seq(PlanMove)
    BY <1>1 DEF Idle, PlanState
  <1>4. Overloaded \in SUBSET Nodes /\ Underloaded \in SUBSET Nodes
    BY SourcesDoNotReceive
  <1>5. \A i \in Nodes : /\ f[i] \in Nat /\ g[i] \in Nat /\ r[i] \in Nat /\ f[i] <= g[i]
                         /\ i \notin Overloaded => f[i] = 0
                         /\ i \notin Underloaded => r[i] = 0
    <2> SUFFICES ASSUME NEW i \in Nodes
                 PROVE  /\ f[i] \in Nat /\ g[i] \in Nat /\ r[i] \in Nat /\ f[i] <= g[i]
                        /\ i \notin Overloaded => f[i] = 0
                        /\ i \notin Underloaded => r[i] = 0
      OBVIOUS
    <2>1. PICK e \in PlanMove : TRUE
      <3> DEFINE e == [source |-> i, target |-> i, n |-> 0]
      <3>1. e \in PlanMove
        BY DEF PlanMove
      <3> QED
        BY <3>1
    <2>2. f[i] = Gives(i, s.moves) /\ Gives(i, s.moves) \in Nat
      BY <1>3, <2>1, MoveAdds DEF Given
    <2>3. g[i] \in Nat /\ r[i] \in Nat /\ (i \notin Underloaded => r[i] = 0)
      BY MovableFits, SourcesDoNotReceive DEF Spare, ReceiverSlots
    <2>4. Gives(i, s.moves) <= g[i] /\ (i \notin Overloaded => Gives(i, s.moves) = 0)
      BY <1>1, <1>2 DEF PlanFits
    <2> QED
      BY <2>2, <2>3, <2>4
  <1>6. /\ Total(s.slots, Nodes) + Total(f, Nodes) = Total(r, Nodes)
        /\ (\A i \in Overloaded : f[i] = g[i]) \/ (\A i \in Nodes : s.slots[i] = 0)
    BY <1>1, <1>2, <1>4 DEF PlanFits, Given
  <1> HIDE DEF f, g, r
  <1>7. /\ Summable(f, Nodes) /\ Summable(r, Nodes) /\ Summable(s.slots, Nodes)
        /\ Summable(f, Overloaded) /\ Summable(g, Overloaded)
    BY <1>3, <1>4, <1>5, NodesFit, FS_Subset DEF Summable
  <1>8. Total(f, Nodes) = Total(f, Overloaded) /\ Total(r, Nodes) = Total(r, Underloaded)
    BY <1>4, <1>5, <1>7, TotalSupport
  <1>9. /\ Total(f, Nodes) \in Nat /\ Total(r, Nodes) \in Nat /\ Total(s.slots, Nodes) \in Nat
        /\ Total(g, Overloaded) \in Nat
    BY <1>7, TotalNat
  <1>10. Total(f, Overloaded) <= Total(g, Overloaded)
    BY <1>4, <1>5, <1>7, TotalMonotone
  <1>11. (\A i \in Overloaded : f[i] = g[i]) => Total(f, Overloaded) = Total(g, Overloaded)
    BY <1>7, TotalSame
  <1>12. (\A i \in Nodes : s.slots[i] = 0) => Total(s.slots, Nodes) = 0
    <2>1. (\A i \in Nodes : s.slots[i] = 0) => Total(s.slots, Nodes) = Total(s.slots, {})
      BY <1>7, TotalSupport
    <2> QED
      BY <2>1, TotalEmpty
  <1>13. Total(f, Nodes) = IF Total(g, Overloaded) <= Total(r, Underloaded)
                           THEN Total(g, Overloaded) ELSE Total(r, Underloaded)
    BY <1>6, <1>8, <1>9, <1>10, <1>11, <1>12
  <1>14. Min({Total(g, Overloaded), Total(r, Underloaded)})
            = IF Total(g, Overloaded) <= Total(r, Underloaded)
              THEN Total(g, Overloaded) ELSE Total(r, Underloaded)
    BY <1>8, <1>9, MinOfTwo
  <1> QED
    BY <1>13, <1>14 DEF f, g, r, s

\* PlanSettles, for every snapshot of the fleet.
LEMMA PlansSettle == ASSUME TopoFits PROVE PlanSettles
  <1> DEFINE pn == [i \in Nodes |-> topo[i].pinned]
             no == [i \in Nodes |-> 0]
  <1>1. pn \in [Nodes -> Nat] /\ no \in [Nodes -> Nat]
    BY NodesFit
  <1>2. /\ \E h : IsPlan(h, pn) /\ PlanRebalance = h[Len(ByLoad)].moves
        /\ \E h : IsPlan(h, no) /\ GraphEdges = h[Len(ByLoad)].moves
    BY PlanRuns, GraphRuns
  <1>3. Settled(PlanRebalance, pn) /\ Settled(GraphEdges, no)
    <2> HIDE DEF pn, no
    <2> QED
      BY <1>1, <1>2, PlanIsSettled
  <1> QED
    BY <1>3 DEF PlanSettles

\* PlanIsComplete, for every snapshot of the fleet.
LEMMA PlansComplete == ASSUME TopoFits PROVE PlanIsComplete
  <1> DEFINE pn == [i \in Nodes |-> topo[i].pinned]
  <1>1. pn \in [Nodes -> Nat]
    BY NodesFit
  <1>2. PICK h : IsPlan(h, pn) /\ PlanRebalance = h[Len(ByLoad)].moves
    BY PlanRuns
  <1>3. Spare(pn) = [i \in Nodes |-> Min({Movable(i, topo[i].pinned), MaxMoves})]
    BY DEF Spare, Wanted
  <1>4. Total(Given(h[Len(ByLoad)].moves), Nodes)
           = Min({Total(Spare(pn), Overloaded), Total(ReceiverSlots, Underloaded)})
    <2> HIDE DEF pn
    <2> QED
      BY <1>1, <1>2, PlanLeavesNothing
  <1> QED
    BY <1>2, <1>3, <1>4 DEF PlanIsComplete, Given

\* The score of a placement candidate is a number.
LEMMA ScoreFits ==
  ASSUME TopoFits, NEW i \in Nodes
  PROVE  Score(i) \in Int /\ FreeSlots(i) \in Nat /\ i \in Nat
  <1>1. /\ topo[i].max \in Nat /\ topo[i].peers \in Nat /\ topo[i].health \in Nat
        /\ topo[i].latency \in Nat /\ i \in Nat
    BY NodesFit
  <1>2. FreeSlots(i) \in Nat
    BY <1>1 DEF FreeSlots
  <1>3. topo[i].latency \div 5 \in Int /\ 400 * FreeSlots(i) \in Int /\ 10 * topo[i].health \in Int
    BY <1>1, <1>2
  <1> QED
    BY <1>1, <1>2, <1>3 DEF Score

\* max() of a list that is not empty.
LEMMA BestExists ==
  ASSUME TopoFits, NEW pool \in SUBSET Nodes, pool # {}
  PROVE  /\ \E i \in pool : \A j \in pool : Score(i) > Score(j) \/ (Score(i) = Score(j) /\ i >= j)
         /\ \E i \in pool : \A j \in pool : Score(i) > Score(j) \/ (Score(i) = Score(j) /\ i <= j)
         /\ \E i \in pool : \A j \in pool : \/ Score(i) > Score(j)
                                            \/ Score(i) = Score(j) /\ FreeSlots(i) > FreeSlots(j)
                                            \/ Score(i) = Score(j) /\ FreeSlots(i) = FreeSlots(j) /\ i >= j
  <1>1. IsFiniteSet(pool)
    BY NodesFit, FS_Subset
  <1>2. \A i \in pool : Score(i) \in Int /\ FreeSlots(i) \in Int /\ i \in Int
    BY ScoreFits
  <1> DEFINE Up(i, j) == Score(i) > Score(j) \/ (Score(i) = Score(j) /\ i >= j)
             Down(i, j) == Score(i) > Score(j) \/ (Score(i) = Score(j) /\ i <= j)
             Free(i, j) == \/ Score(i) > Score(j)
                           \/ Score(i) = Score(j) /\ FreeSlots(i) > FreeSlots(j)
                           \/ Score(i) = Score(j) /\ FreeSlots(i) = FreeSlots(j) /\ i >= j
             U == {p \in pool \X pool : Up(p[2], p[1])}
             D == {p \in pool \X pool : Down(p[2], p[1])}
             F == {p \in pool \X pool : Free(p[2], p[1])}
  <1>3. \A i, j \in pool : /\ <<i, j>> \in U <=> Up(j, i)
                           /\ <<i, j>> \in D <=> Down(j, i)
                           /\ <<i, j>> \in F <=> Free(j, i)
    OBVIOUS
  <1>4. \A i \in pool : Up(i, i) /\ Down(i, i) /\ Free(i, i)
    BY <1>2
  <1>5. \A i, j \in pool : /\ Up(i, j) \/ Up(j, i)
                           /\ Down(i, j) \/ Down(j, i)
                           /\ Free(i, j) \/ Free(j, i)
    BY <1>2
  <1>6. \A i, j, k \in pool : /\ Up(j, i) /\ Up(k, j) => Up(k, i)
                              /\ Down(j, i) /\ Down(k, j) => Down(k, i)
                              /\ Free(j, i) /\ Free(k, j) => Free(k, i)
    BY <1>2
  <1> HIDE DEF Up, Down, Free, U, D, F
  <1>7. Orders(U, pool) /\ Orders(D, pool) /\ Orders(F, pool)
    BY <1>3, <1>5, <1>6 DEF Orders
  <1>8. /\ \E i \in pool : \A j \in pool : j = i \/ <<j, i>> \in U
        /\ \E i \in pool : \A j \in pool : j = i \/ <<j, i>> \in D
        /\ \E i \in pool : \A j \in pool : j = i \/ <<j, i>> \in F
    BY <1>1, <1>7, LastExists
  <1>9. /\ \E i \in pool : \A j \in pool : Up(i, j)
        /\ \E i \in pool : \A j \in pool : Down(i, j)
        /\ \E i \in pool : \A j \in pool : Free(i, j)
    BY <1>3, <1>4, <1>8
  <1> QED
    BY <1>9 DEF Up, Down, Free

\* PlacementAgrees, for every snapshot of the fleet.
LEMMA PlacementsAgree == ASSUME TopoFits PROVE PlacementAgrees
  <1> SUFFICES ASSUME NEW r
               PROVE  /\ (Simulate(r) = {}) = (SelectNode = {})
                      /\ \A i \in Simulate(r) : Usable(i) /\ topo[i].peers < topo[i].max
    BY DEF PlacementAgrees
  <1> DEFINE all == {i \in Nodes : Eligible(i)}
             regional == {i \in all : topo[i].region = r}
             here == IF regional # {} THEN regional ELSE all
             healthy == {i \in all : topo[i].health >= 90}
             pool == IF healthy # {} THEN healthy ELSE all
  <1>1. all = {i \in Nodes : /\ Usable(i) /\ topo[i].health >= 50 /\ topo[i].peers < topo[i].max}
    BY DEF Eligible
  <1>2. SelectNode = {i \in pool : \A j \in pool : Score(i) > Score(j) \/ (Score(i) = Score(j) /\ i >= j)}
    BY <1>1 DEF SelectNode
  <1>3. Simulate(r) = {i \in here : \A j \in here :
             \/ Score(i) > Score(j)
             \/ Score(i) = Score(j) /\ FreeSlots(i) > FreeSlots(j)
             \/ Score(i) = Score(j) /\ FreeSlots(i) = FreeSlots(j) /\ i >= j}
    BY DEF Simulate
  <1>4. here \in SUBSET Nodes /\ pool \in SUBSET Nodes /\ here \subseteq all
    OBVIOUS
  <1>5. (here = {} <=> all = {}) /\ (pool = {} <=> all = {})
    OBVIOUS
  <1>6. \A i \in all : Usable(i) /\ topo[i].peers < topo[i].max
    BY <1>1
  <1> HIDE DEF all, here, pool
  <1>7. SelectNode = {} <=> all = {}
    <2>1. pool # {} => SelectNode # {}
      BY <1>2, <1>4, BestExists
    <2> QED
      BY <1>2, <1>5, <2>1
  <1>8. Simulate(r) = {} <=> all = {}
    <2>1. here # {} => Simulate(r) # {}
      BY <1>3, <1>4, BestExists
    <2> QED
      BY <1>3, <1>5, <2>1
  <1>9. \A i \in Simulate(r) : Usable(i) /\ topo[i].peers < topo[i].max
    BY <1>3, <1>4, <1>6
  <1> QED
    BY <1>7, <1>8, <1>9

\* FallbackWorks, for every snapshot of the fleet: a node that answers is a fallback exactly when
\* the load balancer would take it, between the thresholds apart.
LEMMA FallbacksWork == ASSUME TopoFits PROVE FallbackWorks
  <1>1. ASSUME NEW j \in Fallbacks PROVE Eligible(j) \/ Between(j)
    <2>1. /\ j \in Nodes /\ StatusOf(topo[j]) \in {"healthy", "degraded"} /\ topo[j].health \in Nat
          /\ ~topo[j].drain /\ topo[j].peers < topo[j].max
      BY NodesFit DEF Fallbacks
    <2>2. topo[j].health >= 50 => Eligible(j)
      BY <2>1 DEF Eligible, Usable, InService
    <2>3. CASE nodeDiscovery = "docker"
      <3>1. StatusOf(topo[j]) = DockerStatus(topo[j].health)
        BY <2>1, <2>3 DEF StatusOf
      <3> QED
        BY <2>1, <2>2, <3>1 DEF DockerStatus
    <2>4. CASE nodeDiscovery = "agent"
      <3>1. StatusOf(topo[j]) = AgentStatus(topo[j].health)
        BY <2>1, <2>4 DEF StatusOf
      <3>2. topo[j].health >= 45
        BY <2>1, <3>1 DEF AgentStatus
      <3>3. topo[j].health >= 50 \/ topo[j].health \in 45..49
        BY <2>1, <3>2
      <3> QED
        BY <2>2, <2>4, <3>3 DEF Between
    <2> QED
      BY <2>3, <2>4 DEF TopoFits
  <1>2. ASSUME NEW j \in Nodes, Eligible(j), ~topo[j].silent PROVE j \in Fallbacks
    <2>1. topo[j].health \in Nat /\ topo[j].health >= 50 /\ ~topo[j].drain /\ topo[j].peers < topo[j].max
      BY <1>2, NodesFit DEF Eligible, Usable
    <2>2. StatusOf(topo[j]) \in {"healthy", "degraded"}
      BY <1>2, <2>1 DEF StatusOf, DockerStatus, AgentStatus
    <2> QED
      BY <2>1, <2>2 DEF Fallbacks
  <1>3. ASSUME NEW i \in Failed
        PROVE  Fallback(i) \subseteq Fallbacks /\ (Fallbacks # {} => Fallback(i) # {})
    <2> DEFINE regional == {j \in Fallbacks : topo[j].region = topo[i].region}
               pool == IF regional # {} THEN regional ELSE Fallbacks
               best == CHOOSE j \in pool : \A k \in pool :
                          Score(j) > Score(k) \/ (Score(j) = Score(k) /\ j <= k)
    <2>1. Fallback(i) = IF pool = {} THEN {} ELSE {best}
      BY DEF Fallback
    <2>2. pool \subseteq Fallbacks /\ pool \in SUBSET Nodes /\ (Fallbacks # {} => pool # {})
      BY DEF Fallbacks
    <2> HIDE DEF pool
    <2>3. pool # {} => best \in pool
      BY <2>2, BestExists
    <2> HIDE DEF best
    <2> QED
      BY <2>1, <2>2, <2>3
  <1> QED
    BY <1>1, <1>2, <1>3 DEF FallbackWorks

\* Every snapshot the specification reaches is a list of nodes.
LEMMA TopologyFits == RebSpec => []TopoFits
  <1>1. RebInit => TopoFits
    BY DEF RebInit, TopoFits
  <1>2. TopoFits /\ [RebNext]_rebVars => TopoFits'
    BY DEF TopoFits, RebNext, DiscoverNode, rebVars
  <1> QED
    BY <1>1, <1>2, PTL DEF RebSpec

\* For every fleet, under both ways of discovery, whatever the watermarks and the limit of moves: a
\* plan of plan_rebalance and the edges of the topology graph settle (they fill no receiver above the
\* target and take from no source the peers below the target or the pinned ones), the greedy loop
\* moves as many peers as the sources have to give and the receivers can take, simulate_placement
\* finds a node when select_node does, and evaluate_failover names a node that the load balancer
\* would take when there is one that answers, scores between the two thresholds apart.
THEOREM PlansAlwaysHold == RebSpec => []PlansHold
  <1>1. TopoFits => PlansHold
    BY PlansSettle, PlansComplete, PlacementsAgree, FallbacksWork DEF PlansHold
  <1> QED
    BY <1>1, TopologyFits, PTL

-----------------------------------------------------------------------------
(* The server list (ServerList).                                           *)

\* A row of the servers table.
Row == [name : ServerNames, active : BOOLEAN, health : 0..1, region : 0..1, created : Nat]
\* Rows are numbered as they are added.
ListFits ==
    /\ table \in Seq(Row) /\ Len(table) <= MaxRows
    /\ \A i \in 1..Len(table) : table[i].created = i

\* Only RowAdded changes the table: a list of at most MaxRows rows.
LEMMA TableFits == ListSpec => []ListFits
  <1>1. ListInit => ListFits
    <2>1. 0 <= MaxRows
      BY ServerListAssumption
    <2> QED
      BY <2>1 DEF ListInit, ListFits
  <1>2. ListFits /\ [RowAdded]_table => ListFits'
    <2> SUFFICES ASSUME ListFits, [RowAdded]_table PROVE ListFits'
      OBVIOUS
    <2>1. CASE RowAdded
      <3>1. PICK n \in ServerNames, a \in BOOLEAN, h \in 0..1, g \in 0..1 :
              table' = Append(table, [name |-> n, active |-> a, health |-> h, region |-> g,
                                      created |-> Len(table) + 1])
        BY <2>1 DEF RowAdded
      <3> DEFINE r == [name |-> n, active |-> a, health |-> h, region |-> g, created |-> Len(table) + 1]
      <3>2. Len(table) \in Nat /\ MaxRows \in Nat /\ Len(table) < MaxRows
        BY <2>1, ServerListAssumption DEF RowAdded, ListFits
      <3>3. r \in Row /\ r.created = Len(table) + 1
        BY <3>2 DEF Row
      <3> HIDE DEF r
      <3>4. table' = Append(table, r)
        BY <3>1 DEF r
      <3>5. table' \in Seq(Row) /\ Len(table') = Len(table) + 1
        BY <3>3, <3>4 DEF ListFits
      <3>6. \A i \in 1..(Len(table) + 1) : table'[i] = IF i <= Len(table) THEN table[i] ELSE r
        BY <3>2, <3>4 DEF ListFits
      <3>7. ASSUME NEW i \in 1..(Len(table) + 1) PROVE table'[i].created = i
        <4>1. CASE i <= Len(table)
          <5>1. i \in 1..Len(table)
            BY <3>2, <4>1
          <5> QED
            BY <3>6, <4>1, <5>1 DEF ListFits
        <4>2. CASE ~(i <= Len(table))
          <5>1. i = Len(table) + 1
            BY <3>2, <4>2
          <5> QED
            BY <3>3, <3>6, <4>2, <5>1
        <4> QED
          BY <4>1, <4>2
      <3> QED
        BY <3>2, <3>5, <3>7 DEF ListFits
    <2>2. CASE UNCHANGED table
      BY <2>2 DEF ListFits
    <2> QED
      BY <2>1, <2>2
  <1> QED
    BY <1>1, <1>2, PTL DEF ListSpec

\* The rows a query matches are finitely many rows with creation times of their own.
LEMMA MatchingFits ==
  ASSUME ListFits, NEW b
  PROVE  /\ IsFiniteSet(Matching(b)) /\ Cardinality(Matching(b)) <= MaxRows
         /\ Cardinality(Matching(b)) \in Nat
         /\ Matching(b) \subseteq Row
         /\ \A r, s \in Matching(b) : r.created = s.created => r = s
  <1>1. Len(table) \in Nat /\ DOMAIN table = 1..Len(table) /\ Len(table) <= MaxRows /\ MaxRows \in Nat
    BY ServerListAssumption DEF ListFits
  <1>2. \A r \in Range(table) : \E i \in 1..Len(table) : r = table[i] /\ r.created = i /\ r \in Row
    BY <1>1 DEF Range, ListFits
  <1>3. \A r, s \in Range(table) : r.created = s.created => r = s
    BY <1>2
  <1>4. Matching(b) \subseteq Range(table)
    BY DEF Matching
  <1>5. IsFiniteSet(1..Len(table)) /\ Cardinality(1..Len(table)) = Len(table)
    <2>1. 1 \in Int /\ Len(table) \in Int
      BY <1>1
    <2>2. /\ IsFiniteSet(1..Len(table))
          /\ Cardinality(1..Len(table)) = IF 1 > Len(table) THEN 0 ELSE Len(table) - 1 + 1
      BY <2>1, FS_Interval
    <2> QED
      BY <1>1, <2>2
  <1>6. IsFiniteSet(Range(table)) /\ Cardinality(Range(table)) <= Len(table)
    <2> DEFINE D == 1..Len(table)
    <2>1. table \in Surjection(D, Range(table))
      BY <1>1 DEF Surjection, Range, ListFits
    <2> HIDE DEF D
    <2>2. IsFiniteSet(D) /\ Cardinality(D) = Len(table)
      BY <1>5 DEF D
    <2>3. IsFiniteSet(Range(table)) /\ Cardinality(Range(table)) <= Cardinality(D)
      BY <2>1, <2>2, FS_Surjection
    <2> QED
      BY <2>2, <2>3
  <1>7. /\ IsFiniteSet(Matching(b)) /\ Cardinality(Matching(b)) <= Cardinality(Range(table))
        /\ Cardinality(Matching(b)) \in Nat /\ Cardinality(Range(table)) \in Nat
    BY <1>4, <1>6, FS_Subset, FS_CardinalityType
  <1>8. Cardinality(Matching(b)) <= MaxRows
    BY <1>1, <1>6, <1>7
  <1> QED
    BY <1>2, <1>3, <1>4, <1>7, <1>8

\* The fields of a row.
LEMMA RowFits ==
  ASSUME NEW r \in Row
  PROVE  /\ r.name \in Nat /\ r.created \in Nat /\ r.health \in Int /\ r.active \in BOOLEAN
         /\ r.region \in Int /\ GroupOf(r) \in Int /\ FirstLetter(r) \in Int
  <1>1. r.name \in Nat /\ r.created \in Nat /\ r.health \in Int /\ r.region \in Int /\ r.active \in BOOLEAN
    <2>1. r.name \in ServerNames
      BY DEF Row
    <2>2. r.created \in Nat /\ r.health \in Int /\ r.region \in Int
      BY DEF Row
    <2>3. r.active \in BOOLEAN
      BY DEF Row
    <2>4. ServerNames \subseteq 100..999 /\ 100..999 \subseteq Nat
      BY ServerListAssumption
    <2>5. r.name \in Nat
      BY <2>1, <2>4, Zenon
    <2> QED
      BY <2>2, <2>3, <2>5
  <1> QED
    BY <1>1 DEF GroupOf, FirstLetter

\* ORDER BY sorts the rows.
LEMMA RowsOrdered ==
  ASSUME ListFits, NEW b, NEW sort \in Sorts
  PROVE  OrderedRows(b, sort) \in SetToSeqs(Matching(b))
  <1> DEFINE S == Matching(b)
             R == {p \in S \X S : Before(sort, p[1], p[2])}
  <1>1. \A x, y \in S : <<x, y>> \in R <=> Before(sort, x, y)
    OBVIOUS
  <1>2. IsFiniteSet(S) /\ \A x, y \in S : x # y => x.created # y.created
    BY MatchingFits
  <1>3. \A x \in S : x.name \in Nat /\ x.created \in Nat /\ x.region \in Int
    BY MatchingFits, RowFits
  <1> HIDE DEF R, S
  <1>4. Orders(R, S)
    <2>1. CASE sort = "created_at_desc"
      <3>1. \A x, y \in S : <<x, y>> \in R <=> x.created > y.created
        BY <1>1, <2>1 DEF Before
      <3> QED
        BY <1>2, <1>3, <3>1 DEF Orders
    <2>2. CASE sort = "created_at_asc"
      <3>1. \A x, y \in S : <<x, y>> \in R <=> x.created < y.created
        BY <1>1, <2>2 DEF Before
      <3> QED
        BY <1>2, <1>3, <3>1 DEF Orders
    <2>3. CASE sort = "name_asc"
      <3>1. \A x, y \in S : <<x, y>> \in R <=>
                x.name < y.name \/ (x.name = y.name /\ x.created < y.created)
        BY <1>1, <2>3 DEF Before
      <3> QED
        BY <1>2, <1>3, <3>1 DEF Orders
    <2>4. CASE sort = "name_desc"
      <3>1. \A x, y \in S : <<x, y>> \in R <=>
                x.name > y.name \/ (x.name = y.name /\ x.created < y.created)
        BY <1>1, <2>4 DEF Before
      <3> QED
        BY <1>2, <1>3, <3>1 DEF Orders
    <2>5. CASE sort = "region_asc"
      <3>1. \A x, y \in S : <<x, y>> \in R <=>
                x.region < y.region \/ (x.region = y.region /\ x.created < y.created)
        BY <1>1, <2>5 DEF Before
      <3> QED
        BY <1>2, <1>3, <3>1 DEF Orders
    <2> QED
      BY <2>1, <2>2, <2>3, <2>4, <2>5 DEF Sorts
  <1>5. PICK q \in SetToSeqs(S) : \A i, j \in DOMAIN q : i < j => <<q[i], q[j]>> \in R
    BY <1>2, <1>4, SortedExists
  <1>6. \A i \in DOMAIN q : q[i] \in S
    BY <1>2, SeqOfSet
  <1>7. \A i, j \in DOMAIN q : i < j => Before(sort, q[i], q[j])
    BY <1>1, <1>5, <1>6
  <1> QED
    BY <1>7 DEF OrderedRows, S

\* What is kept of the rows p so far: a row for each group, the best one.
Kept(kept, p) ==
    /\ kept \subseteq p
    /\ \A s, t \in kept : GroupOf(s) = GroupOf(t) => s = t
    /\ \A r \in p : \E s \in kept : GroupOf(s) = GroupOf(r) /\ AtLeast(s, r)

\* One turn of the by_name loop keeps the best row of each name seen so far.
LEMMA KeepKeeps ==
  ASSUME NEW p \in SUBSET Row, NEW kept, Kept(kept, p), NEW r \in Row
  PROVE  Kept(Keep(kept, r), p \cup {r})
  <1> DEFINE same == {s \in kept : GroupOf(s) = GroupOf(r)}
             new == Keep(kept, r)
  <1>1. \A x \in Row : x.active \in BOOLEAN /\ x.health \in Int
    BY RowFits
  <1>2. \A x \in Row : AtLeast(x, x)
    BY <1>1 DEF AtLeast
  <1>3. \A x, y \in Row : AtLeast(x, y) \/ AtLeast(y, x)
    BY <1>1 DEF AtLeast
  <1>4. \A x, y, z \in Row : AtLeast(x, y) /\ AtLeast(y, z) => AtLeast(x, z)
    BY <1>1 DEF AtLeast
  <1>5. kept \subseteq p
    BY DEF Kept
  <1>6. CASE \A s \in same : AtLeast(r, s)
    <2>1. new = (kept \ same) \cup {r}
      BY <1>6 DEF Keep
    <2>2. new \subseteq p \cup {r}
      BY <1>5, <2>1
    <2>3. \A s, t \in new : GroupOf(s) = GroupOf(t) => s = t
      BY <2>1 DEF Kept
    <2>4. ASSUME NEW x \in p \cup {r}
          PROVE  \E s \in new : GroupOf(s) = GroupOf(x) /\ AtLeast(s, x)
      <3>1. CASE x = r
        BY <1>2, <2>1, <3>1
      <3>2. CASE x # r
        <4>1. PICK s \in kept : GroupOf(s) = GroupOf(x) /\ AtLeast(s, x)
          BY <3>2 DEF Kept
        <4>2. CASE s \in same
          <5>1. AtLeast(r, s) /\ GroupOf(r) = GroupOf(x)
            BY <1>6, <4>1, <4>2
          <5>2. AtLeast(r, x)
            BY <1>4, <1>5, <3>2, <4>1, <5>1
          <5> QED
            BY <2>1, <5>1, <5>2
        <4>3. CASE s \notin same
          BY <2>1, <4>1, <4>3
        <4> QED
          BY <4>2, <4>3
      <3> QED
        BY <3>1, <3>2
    <2> HIDE DEF new
    <2>5. Kept(new, p \cup {r})
      BY <2>2, <2>3, <2>4 DEF Kept
    <2> QED
      BY <2>5 DEF new
  <1>7. CASE \E s \in same : ~AtLeast(r, s)
    <2>1. new = kept
      BY <1>7 DEF Keep
    <2>2. PICK s \in same : ~AtLeast(r, s)
      BY <1>7
    <2>3. s \in kept /\ GroupOf(s) = GroupOf(r) /\ AtLeast(s, r)
      BY <1>3, <1>5, <2>2
    <2>4. \A x \in p \cup {r} : \E t \in kept : GroupOf(t) = GroupOf(x) /\ AtLeast(t, x)
      BY <2>3 DEF Kept
    <2>5. Kept(kept, p \cup {r})
      BY <1>5, <2>4 DEF Kept
    <2> QED
      BY <2>1, <2>5
  <1> QED
    BY <1>6, <1>7

\* So the loop keeps exactly one row for each name, the best one.
LEMMA ByNameKeeps ==
  ASSUME ListFits, NEW b, NEW sort \in Sorts
  PROVE  Kept(ByName(b, sort), Matching(b))
  <1> DEFINE q == OrderedRows(b, sort)
             M == Matching(b)
             N == Len(q)
             none == {}
             it == CHOOSE iter : iter = [x \in SUBSET (DOMAIN q) |->
                      IF x = {} THEN {} ELSE Keep(iter[x \ {Max(x)}], q[Max(x)])]
             V == SUBSET M
             F == [k \in 1..N |-> [v \in V |-> Keep(v, q[k])]]
  <1>1. ByName(b, sort) = it[DOMAIN q]
    BY DEF ByName, FoldLeft, MapThenFoldSet
  <1>2. /\ N \in Nat /\ DOMAIN q = 1..N /\ \A k \in 1..N : q[k] \in M
        /\ \A x \in M : \E k \in 1..N : q[k] = x
    BY RowsOrdered, MatchingFits, SeqOfSet
  <1>3. none \in V /\ M \subseteq Row
    BY MatchingFits
  <1>4. F \in [1..N -> [V -> V]] /\ \A k \in 1..N, v \in V : F[k][v] = Keep(v, q[k])
    <2>1. \A k \in 1..N, v \in V : Keep(v, q[k]) \in V
      BY <1>2 DEF Keep
    <2> QED
      BY <2>1
  <1> HIDE DEF F, V, q, N, M, none
  <1>5. ASSUME NEW g, IsFold(g, 1..N, V, none, F, LastOf(N))
        PROVE  Follows(it, 1..N, V, none, F, LastOf(N))
    <2>1. /\ g \in [SUBSET (1..N) -> V]
          /\ \A x \in SUBSET (1..N) :
               g[x] = IF x = {} THEN none ELSE F[Max(x)][g[x \ {Max(x)}]]
      BY <1>5 DEF IsFold, LastOf
    <2>2. \A x \in SUBSET (1..N) : x # {} => Max(x) \in 1..N
      BY <1>2, MaxIn
    <2>3. \A x \in SUBSET (1..N) :
               g[x] = IF x = {} THEN none ELSE Keep(g[x \ {Max(x)}], q[Max(x)])
      BY <1>4, <2>1, <2>2
    <2>4. g = [x \in SUBSET (DOMAIN q) |-> IF x = {} THEN {} ELSE Keep(g[x \ {Max(x)}], q[Max(x)])]
      BY <1>2, <2>1, <2>3 DEF none
    <2>5. it = [x \in SUBSET (DOMAIN q) |-> IF x = {} THEN {} ELSE Keep(it[x \ {Max(x)}], q[Max(x)])]
      BY <2>4
    <2> HIDE DEF it
    <2>6. it[{}] = none
      BY <2>5 DEF none
    <2>7. ASSUME NEW x \in SUBSET (1..N), x # {}, it[x \ {LastOf(N)[x]}] \in V
          PROVE  it[x] = F[LastOf(N)[x]][it[x \ {LastOf(N)[x]}]]
      <3>1. LastOf(N)[x] = Max(x) /\ Max(x) \in 1..N
        BY <2>2, <2>7 DEF LastOf
      <3>2. it[x] = Keep(it[x \ {Max(x)}], q[Max(x)])
        BY <1>2, <2>5, <2>7
      <3> QED
        BY <1>4, <2>7, <3>1, <3>2
    <2> QED
      BY <2>6, <2>7 DEF Follows
  <1> HIDE DEF it
  <1>6. PICK h : IsRun(h, N, V, none, F) /\ it[1..N] = h[N]
    <2>1. N \in Nat /\ F \in [1..N -> [V -> V]] /\ none \in V
      BY <1>2, <1>3, <1>4
    <2> QED
      BY <1>5, <2>1, SeqFold
  <1> DEFINE Prior(k) == {q[j] : j \in 1..k}
             P == {k \in Nat : k <= N => Kept(h[k], Prior(k))}
  <1>7. 0 \in P
    <2>1. h[0] = {} /\ Prior(0) = {}
      BY <1>6 DEF IsRun, none
    <2>2. Kept({}, {})
      BY DEF Kept
    <2> QED
      BY <2>1, <2>2
  <1>8. ASSUME NEW k \in Nat, k \in P PROVE k + 1 \in P
    <2> SUFFICES ASSUME k + 1 <= N PROVE Kept(h[k + 1], Prior(k + 1))
      OBVIOUS
    <2> DEFINE j == k + 1
    <2>1. j \in 1..N /\ j - 1 = k /\ k \in 0..N /\ k <= N
      BY <1>2
    <2>2. h[j] = Keep(h[k], q[j])
      BY <1>4, <1>6, <2>1 DEF IsRun
    <2>3. Prior(j) = Prior(k) \cup {q[j]}
      <3>1. 1..j = 1..k \cup {j}
        BY <2>1
      <3> QED
        BY <3>1
    <2>4. Prior(k) \in SUBSET Row /\ q[j] \in Row
      <3>1. 1..k \subseteq 1..N
        BY <1>2, <2>1
      <3> QED
        BY <1>2, <1>3, <2>1, <3>1
    <2>5. Kept(h[k], Prior(k))
      BY <1>8, <2>1
    <2> HIDE DEF j, Prior
    <2>6. Kept(h[j], Prior(j))
      BY <2>2, <2>3, <2>4, <2>5, KeepKeeps
    <2> QED
      BY <2>6 DEF j
  <1> HIDE DEF P
  <1>9. N \in P
    BY <1>2, <1>7, <1>8, NatInduct
  <1>10. N <= N
    BY <1>2
  <1>11. Kept(h[N], Prior(N))
    BY <1>9, <1>10 DEF P
  <1>12. Prior(N) = M
    BY <1>2
  <1> QED
    BY <1>1, <1>2, <1>6, <1>11, <1>12 DEF M

\* BestIsShown, for every table.
LEMMA BestIsKept == ASSUME ListFits PROVE BestIsShown
  <1> SUFFICES ASSUME NEW sort \in Sorts, NEW r \in Matching(FALSE)
               PROVE  \E s \in ByName(FALSE, sort) :
                         /\ GroupOf(s) = GroupOf(r) /\ (r.active => s.active)
                         /\ r.active = s.active => s.health >= r.health
    BY DEF BestIsShown
  <1>1. Kept(ByName(FALSE, sort), Matching(FALSE))
    BY ByNameKeeps
  <1>2. PICK s \in ByName(FALSE, sort) : GroupOf(s) = GroupOf(r) /\ AtLeast(s, r)
    BY <1>1 DEF Kept
  <1>3. r \in Row /\ s \in Row
    BY <1>1, MatchingFits DEF Kept
  <1>4. (r.active => s.active) /\ (r.active = s.active => s.health >= r.health)
    BY <1>2, <1>3, RowFits DEF AtLeast
  <1> QED
    BY <1>2, <1>4

\* The list before it is cut into pages: one row for each group.
LEMMA ListIsSorted ==
  ASSUME ListFits, NEW b, NEW sort \in Sorts
  PROVE  LET rows == SortedRows(b, sort)
             groups == {GroupOf(r) : r \in Matching(b)}
         IN  /\ Len(rows) \in Nat /\ Len(rows) <= MaxRows /\ rows \in Seq(Row)
             /\ \A i \in 1..Len(rows) : GroupOf(rows[i]) \in groups
             /\ \A g \in groups : \E i \in 1..Len(rows) : GroupOf(rows[i]) = g
             /\ \A i, j \in 1..Len(rows) : i # j => GroupOf(rows[i]) # GroupOf(rows[j])
  <1> DEFINE S == ByName(b, sort)
             M == Matching(b)
             R == {p \in S \X S : RowSort(sort, p[1], p[2])}
             rows == SortedRows(b, sort)
             groups == {GroupOf(r) : r \in M}
  <1>1. \A x, y \in S : <<x, y>> \in R <=> RowSort(sort, x, y)
    OBVIOUS
  <1>2. Kept(S, M)
    BY ByNameKeeps
  <1>3. /\ S \subseteq M /\ \A s, t \in S : GroupOf(s) = GroupOf(t) => s = t
        /\ \A r \in M : \E s \in S : GroupOf(s) = GroupOf(r)
    BY <1>2 DEF Kept
  <1>4. /\ IsFiniteSet(M) /\ Cardinality(M) <= MaxRows /\ Cardinality(M) \in Nat /\ M \subseteq Row
        /\ \A x, y \in M : x.created = y.created => x = y
    BY MatchingFits
  <1>5. IsFiniteSet(S) /\ Cardinality(S) <= MaxRows /\ Cardinality(S) \in Nat
    <2>1. IsFiniteSet(S) /\ Cardinality(S) <= Cardinality(M)
      BY <1>3, <1>4, FS_Subset
    <2>2. Cardinality(S) \in Nat /\ MaxRows \in Nat
      BY <2>1, FS_CardinalityType, ServerListAssumption
    <2> QED
      BY <1>4, <2>1, <2>2
  <1>6. \A x \in S : x.name \in Int /\ x.created \in Int /\ x.region \in Int /\ FirstLetter(x) \in Int
    BY <1>3, <1>4, RowFits
  <1>7. \A x, y \in S : x # y => x.name # y.name /\ x.created # y.created
    BY <1>3, <1>4 DEF GroupOf
  <1> HIDE DEF R, S, M
  <1>8. Orders(R, S)
    <2>1. CASE sort = "created_at_desc"
      <3>1. \A x, y \in S : <<x, y>> \in R <=> -x.created > -y.created
        BY <1>1, <2>1 DEF RowSort
      <3> QED
        BY <1>6, <1>7, <3>1 DEF Orders
    <2>2. CASE sort = "created_at_asc"
      <3>1. \A x, y \in S : <<x, y>> \in R <=> x.created < y.created
        BY <1>1, <2>2 DEF RowSort
      <3> QED
        BY <1>6, <1>7, <3>1 DEF Orders
    <2>3. CASE sort = "name_asc"
      <3>1. \A x, y \in S : <<x, y>> \in R <=> x.name < y.name
        BY <1>1, <2>3 DEF RowSort
      <3> QED
        BY <1>6, <1>7, <3>1 DEF Orders
    <2>4. CASE sort = "name_desc"
      <3>1. \A x, y \in S : <<x, y>> \in R <=>
               \/ -FirstLetter(x) > -FirstLetter(y)
               \/ FirstLetter(x) = FirstLetter(y) /\ x.name > y.name
        BY <1>1, <2>4 DEF RowSort
      <3> QED
        BY <1>6, <1>7, <3>1 DEF Orders
    <2>5. CASE sort = "region_asc"
      <3>1. \A x, y \in S : <<x, y>> \in R <=>
               x.region < y.region \/ (x.region = y.region /\ x.name < y.name)
        BY <1>1, <2>5 DEF RowSort
      <3> QED
        BY <1>6, <1>7, <3>1 DEF Orders
    <2> QED
      BY <2>1, <2>2, <2>3, <2>4, <2>5 DEF Sorts
  <1>9. PICK q \in SetToSeqs(S) : \A i, j \in DOMAIN q : i < j => <<q[i], q[j]>> \in R
    BY <1>5, <1>8, SortedExists
  <1>10. \A i \in DOMAIN q : q[i] \in S
    BY <1>5, SeqOfSet
  <1>11. \A i, j \in DOMAIN q : i < j => RowSort(sort, q[i], q[j])
    BY <1>1, <1>9, <1>10
  <1>12. rows \in SetToSeqs(S)
    BY <1>11 DEF SortedRows, S
  <1> HIDE DEF rows
  <1>13. /\ Len(rows) = Cardinality(S) /\ Len(rows) \in Nat /\ rows \in [1..Len(rows) -> S]
         /\ rows \in Seq(S)
         /\ \A i, j \in 1..Len(rows) : i # j => rows[i] # rows[j]
         /\ \A x \in S : \E i \in 1..Len(rows) : rows[i] = x
    BY <1>5, <1>12, SeqOfSet
  <1>14. rows \in Seq(Row)
    BY <1>3, <1>4, <1>13
  <1>15. \A i \in 1..Len(rows) : GroupOf(rows[i]) \in groups
    BY <1>3, <1>13
  <1>16. \A g \in groups : \E i \in 1..Len(rows) : GroupOf(rows[i]) = g
    <2> SUFFICES ASSUME NEW r \in M PROVE \E i \in 1..Len(rows) : GroupOf(rows[i]) = GroupOf(r)
      OBVIOUS
    <2>1. PICK s \in S : GroupOf(s) = GroupOf(r)
      BY <1>3
    <2>2. PICK i \in 1..Len(rows) : rows[i] = s
      BY <1>13
    <2> QED
      BY <2>1, <2>2
  <1>17. \A i, j \in 1..Len(rows) : i # j => GroupOf(rows[i]) # GroupOf(rows[j])
    BY <1>3, <1>13
  <1> QED
    BY <1>5, <1>13, <1>14, <1>15, <1>16, <1>17 DEF rows, M

\* Each position of a list is one place of the pages.
LEMMA PlaceOf ==
  ASSUME NEW limit \in Nat \ {0}, NEW i \in Nat \ {0}
  PROVE  /\ ((i - 1) \div limit) \in Nat /\ ((i - 1) % limit) \in 0..(limit - 1)
         /\ i = ((i - 1) \div limit) * limit + ((i - 1) % limit) + 1
         /\ ((i - 1) \div limit) <= i - 1
  <1> DEFINE n == i - 1
  <1>1. n \in Nat
    OBVIOUS
  <1> HIDE DEF n
  <1>2. n \div limit \in Nat /\ n % limit \in 0..(limit - 1) /\ n = limit * (n \div limit) + (n % limit)
    BY <1>1
  <1>3. n \div limit <= limit * (n \div limit)
    <2>1. \A a \in Nat : a <= limit * a
      <3> SUFFICES ASSUME NEW a \in Nat PROVE a <= limit * a
        OBVIOUS
      <3>1. limit - 1 \in Nat
        OBVIOUS
      <3>2. (limit - 1) * a \in Nat
        BY <3>1
      <3>3. limit * a = (limit - 1) * a + a
        OBVIOUS
      <3> QED
        BY <3>2, <3>3
    <2> QED
      BY <1>2, <2>1
  <1>4. limit * (n \div limit) = (n \div limit) * limit
    BY <1>2
  <1>5. n \div limit <= n /\ n + 1 = (n \div limit) * limit + (n % limit) + 1
    BY <1>1, <1>2, <1>3, <1>4
  <1>6. n + 1 = i
    BY DEF n
  <1> QED
    BY <1>2, <1>5, <1>6 DEF n

\* A place of the list is on one page, and in one row of it.
LEMMA OnePlace ==
  ASSUME NEW limit \in Nat \ {0}, NEW a \in Nat, NEW c \in Nat, NEW k \in 1..limit, NEW m \in 1..limit,
         a * limit + k = c * limit + m
  PROVE  a = c /\ k = m
  <1>1. \A x, y \in Nat : x < y => x * limit + limit <= y * limit
    <2> SUFFICES ASSUME NEW x \in Nat, NEW y \in Nat, x < y PROVE x * limit + limit <= y * limit
      OBVIOUS
    <2>1. (x + 1) * limit <= y * limit
      BY Products
    <2>2. (x + 1) * limit = x * limit + limit
      OBVIOUS
    <2> QED
      BY <2>1, <2>2
  <1>2. a * limit \in Nat /\ c * limit \in Nat
    OBVIOUS
  <1>3. ~(a < c)
    <2> SUFFICES ASSUME a < c PROVE FALSE
      OBVIOUS
    <2>1. a * limit + limit <= c * limit
      BY <1>1
    <2> QED
      BY <1>2, <2>1
  <1>4. ~(c < a)
    <2> SUFFICES ASSUME c < a PROVE FALSE
      OBVIOUS
    <2>1. c * limit + limit <= a * limit
      BY <1>1
    <2> QED
      BY <1>2, <2>1
  <1>5. a = c
    BY <1>3, <1>4
  <1> QED
    BY <1>2, <1>5

\* A page has the rows of its places.
PageHas(page, rows, from, limit) ==
    /\ DOMAIN page = {k \in 1..limit : from + k <= Len(rows)}
    /\ \A k \in DOMAIN page : page[k] = rows[from + k]

\* A page shows the rows between its offset and its limit.
LEMMA PageFits ==
  ASSUME ListFits, NEW b, NEW sort \in Sorts, NEW limit \in Nat \ {0}, NEW p \in Nat \ {0}
  PROVE  PageHas(ListPage(b, sort, p, limit), SortedRows(b, sort), (p - 1) * limit, limit)
  <1> DEFINE rows == SortedRows(b, sort)
             from == (p - 1) * limit
             to == IF from + limit < Len(rows) THEN from + limit ELSE Len(rows)
             page == ListPage(b, sort, p, limit)
  <1>1. Len(rows) \in Nat /\ rows \in Seq(Row)
    BY ListIsSorted
  <1>2. from \in Nat
    <2>1. p - 1 \in Nat
      OBVIOUS
    <2> QED
      BY <2>1
  <1>3. page = SubSeq(rows, from + 1, to)
    BY DEF ListPage, EffectiveOffset
  <1> HIDE DEF rows, from, page
  <1>4. to \in Nat /\ to <= from + limit /\ to <= Len(rows)
    BY <1>1, <1>2
  <1>5. page = [k \in 1..(1 + to - (from + 1)) |-> rows[k + (from + 1) - 1]]
    BY <1>1, <1>2, <1>3, <1>4
  <1>6. DOMAIN page = 1..(1 + to - (from + 1))
    BY <1>5
  <1>7. 1..(1 + to - (from + 1)) = {k \in 1..limit : from + k <= Len(rows)}
    BY <1>1, <1>2
  <1>8. ASSUME NEW k \in DOMAIN page PROVE page[k] = rows[from + k]
    <2>1. k \in Int /\ k + (from + 1) - 1 = from + k
      BY <1>2, <1>6
    <2> QED
      BY <1>5, <1>6, <2>1
  <1> QED
    BY <1>6, <1>7, <1>8 DEF PageHas, rows, from, page

\* PagesShowEveryGroup, for every table.
LEMMA PagesAreComplete == ASSUME ListFits PROVE PagesShowEveryGroup
  <1> SUFFICES ASSUME NEW b \in BOOLEAN, NEW sort \in Sorts, NEW limit \in 1..Len(table)
               PROVE  LET places == Places(b, sort, limit)
                          Shown(x) == GroupOf(ListPage(b, sort, x[1], limit)[x[2]])
                          groups == {GroupOf(r) : r \in Matching(b)}
                      IN  /\ \A x \in places : Shown(x) \in groups
                          /\ \A g \in groups : \E x \in places : \A y \in places :
                                Shown(y) = g <=> y = x
    BY DEF PagesShowEveryGroup
  <1> DEFINE rows == SortedRows(b, sort)
             Page(p) == ListPage(b, sort, p, limit)
             places == Places(b, sort, limit)
             Shown(x) == GroupOf(Page(x[1])[x[2]])
             groups == {GroupOf(r) : r \in Matching(b)}
             At(x) == (x[1] - 1) * limit + x[2]
  <1>1. limit \in Nat \ {0} /\ MaxRows \in Nat
    <2>1. Len(table) \in Nat
      BY DEF ListFits
    <2> QED
      BY <2>1, ServerListAssumption
  <1>2. /\ Len(rows) \in Nat /\ Len(rows) <= MaxRows /\ rows \in Seq(Row)
        /\ \A i \in 1..Len(rows) : GroupOf(rows[i]) \in groups
        /\ \A g \in groups : \E i \in 1..Len(rows) : GroupOf(rows[i]) = g
        /\ \A i, j \in 1..Len(rows) : i # j => GroupOf(rows[i]) # GroupOf(rows[j])
    BY ListIsSorted
  <1>3. \A p \in 1..(MaxRows + 1) :
           /\ DOMAIN Page(p) = {k \in 1..limit : (p - 1) * limit + k <= Len(rows)}
           /\ \A k \in DOMAIN Page(p) : Page(p)[k] = rows[(p - 1) * limit + k]
    <2> SUFFICES ASSUME NEW p \in 1..(MaxRows + 1)
                 PROVE  /\ DOMAIN Page(p) = {k \in 1..limit : (p - 1) * limit + k <= Len(rows)}
                        /\ \A k \in DOMAIN Page(p) : Page(p)[k] = rows[(p - 1) * limit + k]
      OBVIOUS
    <2>1. p \in Nat \ {0}
      BY <1>1
    <2>2. PageHas(Page(p), rows, (p - 1) * limit, limit)
      BY <1>1, <2>1, PageFits
    <2> HIDE DEF Page, rows
    <2> QED
      BY <2>2 DEF PageHas
  <1> HIDE DEF rows, groups, Page
  <1>4. \A x \in places : /\ x[1] \in 1..(MaxRows + 1) /\ x[2] \in DOMAIN Page(x[1])
                          /\ x = <<x[1], x[2]>>
    BY DEF Places, Page
  <1>5. ASSUME NEW x \in places PROVE At(x) \in 1..Len(rows) /\ Shown(x) = GroupOf(rows[At(x)])
    <2> DEFINE p == x[1]
               k == x[2]
    <2>1. p \in 1..(MaxRows + 1) /\ k \in DOMAIN Page(p)
      BY <1>4
    <2> HIDE DEF p, k
    <2>2. k \in 1..limit /\ (p - 1) * limit + k <= Len(rows)
      BY <1>3, <2>1
    <2>3. Page(p)[k] = rows[(p - 1) * limit + k]
      BY <1>3, <2>1
    <2>4. (p - 1) * limit \in Nat
      <3>1. p - 1 \in Nat
        BY <1>1, <2>1
      <3> QED
        BY <1>1, <3>1
    <2>5. (p - 1) * limit + k \in 1..Len(rows)
      BY <1>1, <1>2, <2>2, <2>4
    <2> QED
      BY <2>3, <2>5 DEF p, k
  <1>6. \A x, y \in places : At(x) = At(y) => x = y
    <2> SUFFICES ASSUME NEW x \in places, NEW y \in places, At(x) = At(y) PROVE x = y
      OBVIOUS
    <2> DEFINE a == x[1] - 1
               c == y[1] - 1
               k == x[2]
               m == y[2]
    <2>1. /\ x[1] \in 1..(MaxRows + 1) /\ y[1] \in 1..(MaxRows + 1)
          /\ k \in 1..limit /\ m \in 1..limit
      BY <1>3, <1>4
    <2>2. a \in Nat /\ c \in Nat
      BY <1>1, <2>1
    <2>3. a * limit + k = c * limit + m
      OBVIOUS
    <2>4. a = c /\ k = m
      <3> HIDE DEF a, c, k, m
      <3> QED
        BY <1>1, <2>1, <2>2, <2>3, OnePlace
    <2>5. x[1] = y[1] /\ x[2] = y[2]
      BY <1>1, <2>1, <2>4
    <2> QED
      BY <1>4, <2>5
  <1>7. \A i \in 1..Len(rows) : \E x \in places : At(x) = i
    <2> SUFFICES ASSUME NEW i \in 1..Len(rows) PROVE \E x \in places : At(x) = i
      OBVIOUS
    <2> DEFINE a == (i - 1) \div limit
               k == ((i - 1) % limit) + 1
               p == a + 1
    <2>1. i \in Nat \ {0} /\ i <= MaxRows
      BY <1>1, <1>2
    <2>2. a \in Nat /\ k \in 1..limit /\ i = a * limit + k /\ a <= i - 1
      BY <1>1, <2>1, PlaceOf
    <2> HIDE DEF a, k
    <2>3. p \in 1..(MaxRows + 1) /\ p - 1 = a
      BY <1>1, <2>1, <2>2
    <2>4. (p - 1) * limit + k <= Len(rows)
      BY <1>2, <2>2, <2>3
    <2>5. k \in DOMAIN Page(p)
      BY <1>3, <2>2, <2>3, <2>4
    <2> HIDE DEF p
    <2>6. <<p, k>> \in places
      BY <2>3, <2>5 DEF Places, Page
    <2>7. At(<<p, k>>) = i
      BY <2>2, <2>3
    <2> QED
      BY <2>6, <2>7
  <1> HIDE DEF places, At, Shown
  <1>8. \A x \in places : Shown(x) \in groups
    BY <1>2, <1>5
  <1>9. \A g \in groups : \E x \in places : \A y \in places : Shown(y) = g <=> y = x
    <2> SUFFICES ASSUME NEW g \in groups
                 PROVE \E x \in places : \A y \in places : Shown(y) = g <=> y = x
      OBVIOUS
    <2>1. PICK i \in 1..Len(rows) : GroupOf(rows[i]) = g
      BY <1>2
    <2>2. PICK x \in places : At(x) = i
      BY <1>7
    <2>3. \A y \in places : Shown(y) = g <=> y = x
      BY <1>2, <1>5, <1>6, <2>1, <2>2
    <2> QED
      BY <2>3
  <1> QED
    BY <1>8, <1>9 DEF places, Shown, groups, Page

\* For every table of at most MaxRows rows, every filter, sort and page size: turning the pages of
\* list_servers shows each group of names in one place, and by its best row, although the handler
\* removes the duplicates of a sorted query and then sorts and cuts what is left.
THEOREM ListsAreComplete == ListSpec => []ListIsComplete
  <1>1. ListFits => ListIsComplete
    BY PagesAreComplete, BestIsKept DEF ListIsComplete
  <1> QED
    BY <1>1, TableFits, PTL

-----------------------------------------------------------------------------
(* Moves between nodes (ControlPlane).                                     *)

\* A move of a plan.
Move == [source : Node, target : Node, n : Nat]
\* What a session has of server_id: a value for each device it has loaded.
Loaded == UNION {[S -> Node] : S \in SUBSET Devs}
\* The state of a run: where it is, its session's view and what it has still to do.
RunState == [pc : {"idle", "move", "remove", "add", "restore", "next", "commit", "abort", "end"},
             kind : {"cycle", "peer"}, moves : Seq(Move),
             queue : Seq(Devs), done : Seq(Devs), back : Seq(Devs), budget : Int,
             base : Loaded, view : Loaded, saw : SUBSET Node, failed : BOOLEAN]

\* Every variable has its type.
CpTypeOK ==
    /\ srv \in [Devs -> Node] /\ on \in [Node -> SUBSET Devs]
    /\ active \subseteq Node /\ sick \subseteq Node
    /\ runs \in [Run -> RunState] /\ troubled \subseteq Devs

\* The devices of the move that a run x is executing or rolling back.
Listed(x) == Range(x.queue) \cup Range(x.done) \cup Range(x.back)

\* What a run remembers, by its place in the code.
RunFits(x) ==
    /\ DOMAIN x.base = DOMAIN x.view
    /\ Listed(x) \subseteq DOMAIN x.view
    /\ x.pc \in {"remove", "add", "restore"} => x.moves # <<>> /\ (x.back = <<>> => x.queue # <<>>)
    /\ x.pc = "next" => x.moves # <<>>
    /\ x.kind = "peer" /\ x.pc \notin {"commit", "end"} => x.view = x.base
    /\ x.kind = "peer" => x.back = <<>> /\ (x.pc \in {"remove", "add", "restore"} => ~x.failed)
    /\ x.kind = "cycle" => x.pc # "abort" /\ DOMAIN x.view \cap Enterprise = {}

\* A run between its start and its commit or its rollback.
Running(x) == x.pc \notin {"idle", "end"}
\* The devices a run answers for: those it has moved and those it is about to move.
Mine(x) == {d \in DOMAIN x.view : Running(x) /\ (x.view[d] # x.base[d] \/ d \in Listed(x))}
\* The device that is on no node, between the calls of migrate_peer.
Out(x) == IF x.pc \in {"add", "restore"}
          THEN {IF x.back # <<>> THEN Head(x.back) ELSE Head(x.queue)} ELSE {}
\* The nodes that have a peer of the device.
Loc(d) == {n \in Node : d \in on[n]}

\* Where the peer of an undisturbed device is: with the run that is moving it, or on the node of its row.
Placed(d) ==
    /\ \A r \in Run : d \in Mine(runs[r]) =>
          /\ runs[r].base[d] = srv[d]
          /\ Loc(d) = IF d \in Out(runs[r]) THEN {} ELSE {runs[r].view[d]}
    /\ \A r, s \in Run : d \in Mine(runs[r]) /\ d \in Mine(runs[s]) => r = s
    /\ (\A r \in Run : d \notin Mine(runs[r])) => Loc(d) = {srv[d]}

\* The inductive invariant.
CpIInv == CpTypeOK /\ (\A r \in Run : RunFits(runs[r])) /\ (\A d \in Devs \ troubled : Placed(d))

-----------------------------------------------------------------------------
\* A step leaves run r as y and keeps its devices in their place: the devices that the
\* run does not answer for stay as they are, those it begins to answer for are nobody
\* else's and where their row says, and those it is done with too.
KeepsPlace(r, y) ==
    \A d \in Devs \ troubled' :
       /\ d \notin Mine(runs[r]) => srv'[d] = srv[d] /\ Loc(d)' = Loc(d)
       /\ d \notin Mine(runs[r]) /\ d \in Mine(y) =>
             /\ \A s \in Run \ {r} : d \notin Mine(runs[s])
             /\ y.base[d] = srv[d] /\ y.view[d] = srv[d] /\ d \notin Out(y)
       /\ d \in Mine(runs[r]) /\ d \in Mine(y) =>
             y.base[d] = srv'[d] /\ Loc(d)' = IF d \in Out(y) THEN {} ELSE {y.view[d]}
       /\ d \in Mine(runs[r]) /\ d \notin Mine(y) => Loc(d)' = {srv'[d]}

\* A step of one run keeps the invariant if it keeps the place of every undisturbed device.
LEMMA RunLocal ==
  ASSUME CpIInv, NEW r \in Run, NEW y \in RunState, RunFits(y), runs' = [runs EXCEPT ![r] = y],
         srv' \in [Devs -> Node], on' \in [Node -> SUBSET Devs], active' \subseteq Node,
         sick' \subseteq Node, troubled \subseteq troubled', troubled' \subseteq Devs,
         KeepsPlace(r, y)
  PROVE  CpIInv'
  <1>1. CpTypeOK'
    BY DEF CpIInv, CpTypeOK
  <1>2. runs'[r] = y /\ \A s \in Run \ {r} : runs'[s] = runs[s]
    BY DEF CpIInv, CpTypeOK
  <1>3. \A s \in Run : RunFits(runs'[s])
    BY <1>2 DEF CpIInv
  <1>4. ASSUME NEW d \in Devs \ troubled' PROVE Placed(d)'
    <2>1. Placed(d)
      BY DEF CpIInv
    <2>2. /\ \A s \in Run : d \in Mine(runs[s]) =>
               /\ runs[s].base[d] = srv[d]
               /\ Loc(d) = IF d \in Out(runs[s]) THEN {} ELSE {runs[s].view[d]}
          /\ \A q, s \in Run : d \in Mine(runs[q]) /\ d \in Mine(runs[s]) => q = s
          /\ (\A s \in Run : d \notin Mine(runs[s])) => Loc(d) = {srv[d]}
      BY <2>1 DEF Placed
    <2>3. /\ \A s \in Run : d \in Mine(runs'[s]) =>
               /\ runs'[s].base[d] = srv'[d]
               /\ Loc(d)' = IF d \in Out(runs'[s]) THEN {} ELSE {runs'[s].view[d]}
          /\ \A q, s \in Run : d \in Mine(runs'[q]) /\ d \in Mine(runs'[s]) => q = s
          /\ (\A s \in Run : d \notin Mine(runs'[s])) => Loc(d)' = {srv'[d]}
      <3>1. CASE d \in Mine(runs[r])
        BY <1>2, <2>2, <3>1 DEF KeepsPlace
      <3>2. CASE d \notin Mine(runs[r]) /\ d \in Mine(y)
        BY <1>2, <2>2, <3>2 DEF KeepsPlace
      <3>3. CASE d \notin Mine(runs[r]) /\ d \notin Mine(y)
        BY <1>2, <2>2, <3>3 DEF KeepsPlace
      <3> QED
        BY <3>1, <3>2, <3>3
    <2> QED
      BY <2>3 DEF Placed, Mine, Out, Listed, Running, Range
  <1> QED
    BY <1>1, <1>3, <1>4 DEF CpIInv, RunFits, Listed, Range

\* A run in the middle of the move of one device.
Moving(r) == Pc(r) \in {"remove", "add", "restore"}

\* A run that is moving a device answers for it and knows where it comes from and goes.
LEMMA MovingFacts ==
  ASSUME CpIInv, NEW r \in Run, Moving(r)
  PROVE  /\ runs[r] \in RunState /\ RunFits(runs[r])
         /\ Cur(r) \in Devs /\ Cur(r) \in DOMAIN runs[r].view
         /\ Cur(r) \in Listed(runs[r]) /\ Cur(r) \in Mine(runs[r])
         /\ From(r) \in Node /\ To(r) \in Node
  <1>1. runs[r] \in RunState /\ RunFits(runs[r])
    BY DEF CpIInv, CpTypeOK
  <1> DEFINE x == runs[r]
  <1>2. /\ x.queue \in Seq(Devs) /\ x.back \in Seq(Devs) /\ x.view \in Loaded
        /\ x.moves \in Seq(Move)
    BY <1>1 DEF RunState
  <1>3. x.moves # <<>> /\ (x.back = <<>> => x.queue # <<>>)
    BY <1>1 DEF RunFits, Moving, Pc
  <1>4. Cur(r) \in Devs /\ Cur(r) \in Listed(x)
    <2>1. \A q \in Seq(Devs) : q # <<>> => Head(q) \in Devs /\ Head(q) \in Range(q)
      BY DEF Range
    <2> QED
      BY <1>2, <1>3, <2>1 DEF Cur, Listed
  <1>5. Cur(r) \in DOMAIN x.view
    BY <1>1, <1>4 DEF RunFits
  <1>6. Cur(r) \in Mine(x)
    BY <1>4, <1>5 DEF Mine, Running, Moving, Pc
  <1>7. From(r) \in Node
    BY <1>2, <1>5 DEF From, Loaded
  <1>8. To(r) \in Node
    <2>1. Head(x.moves) \in Move
      <3>1. \A q \in Seq(Move) : q # <<>> => Head(q) \in Move
        OBVIOUS
      <3> QED
        BY <1>2, <1>3, <3>1
    <2> QED
      BY <2>1 DEF To, Move
  <1> QED
    BY <1>1, <1>4, <1>5, <1>6, <1>7, <1>8

\* What is left of a sequence, or its reverse, has no other elements.
LEMMA TailRange ==
  ASSUME NEW S, NEW q \in Seq(S), q # <<>>
  PROVE  Tail(q) \in Seq(S) /\ Range(Tail(q)) \subseteq Range(q)
  <1>1. Tail(q) \in Seq(S)
    OBVIOUS
  <1>2. ASSUME NEW i \in DOMAIN Tail(q) PROVE Tail(q)[i] \in Range(q)
    <2>1. i + 1 \in DOMAIN q /\ Tail(q)[i] = q[i + 1]
      OBVIOUS
    <2> QED
      BY <2>1 DEF Range
  <1> QED
    BY <1>1, <1>2 DEF Range

\* Reverse has the same elements.
LEMMA ReverseRange ==
  ASSUME NEW S, NEW q \in Seq(S)
  PROVE  Reverse(q) \in Seq(S) /\ Range(Reverse(q)) \subseteq Range(q)
  <1>1. \A i \in 1..Len(q) : (Len(q) - i) + 1 \in 1..Len(q)
    OBVIOUS
  <1>2. Reverse(q) \in Seq(S)
    BY <1>1 DEF Reverse
  <1> QED
    BY <1>1, <1>2 DEF Reverse, Range

\* Append adds one element.
LEMMA AppendRange ==
  ASSUME NEW S, NEW q \in Seq(S), NEW e \in S
  PROVE  Append(q, e) \in Seq(S) /\ Range(Append(q, e)) = Range(q) \cup {e}
  <1>1. Append(q, e) \in Seq(S)
    OBVIOUS
  <1>2. /\ \A i \in DOMAIN q : i \in DOMAIN Append(q, e) /\ Append(q, e)[i] = q[i]
        /\ Len(q) + 1 \in DOMAIN Append(q, e) /\ Append(q, e)[Len(q) + 1] = e
        /\ \A i \in DOMAIN Append(q, e) : i \in DOMAIN q \/ i = Len(q) + 1
    OBVIOUS
  <1> QED
    BY <1>1, <1>2 DEF Range

\* What is left of the run when migrate_peer is done.
LEMMA MigratedFits ==
  ASSUME CpIInv, NEW r \in Run, Moving(r), NEW ok \in BOOLEAN, Migrated(r, ok)
  PROVE  \E y \in RunState :
            /\ RunFits(y) /\ runs' = [runs EXCEPT ![r] = y]
            /\ y.base = runs[r].base
            /\ y.view = IF ok THEN [runs[r].view EXCEPT ![Cur(r)] = To(r)] ELSE runs[r].view
            /\ y.pc \in {"remove", "next", "commit", "abort"}
            /\ Listed(y) \subseteq Listed(runs[r])
  <1> DEFINE x == runs[r]
             d == Cur(r)
             rolling == x.back # <<>>
             v == IF ok THEN [x.view EXCEPT ![d] = To(r)] ELSE x.view
             b == IF ok \/ ~RollbackOnError \/ x.kind = "peer" THEN <<>> ELSE Reverse(x.done)
             queue == IF rolling THEN x.queue ELSE Tail(x.queue)
             back == IF rolling THEN Tail(x.back) ELSE IF ok THEN x.back ELSE b
             done == IF rolling THEN x.done ELSE IF ok THEN Append(x.done, d)
                     ELSE IF b = <<>> THEN x.done ELSE <<>>
             failed == IF rolling \/ ok THEN x.failed ELSE TRUE
             budget == IF rolling \/ ~ok THEN x.budget ELSE x.budget - 1
             pc == IF back # <<>> THEN "remove"
                   ELSE IF x.kind = "peer" THEN (IF failed THEN "abort" ELSE "commit")
                   ELSE IF failed /\ (StopOnError \/ x.kind = "peer") THEN "commit"
                   ELSE IF queue = <<>> THEN "next" ELSE "remove"
             y == [pc |-> pc, kind |-> x.kind, moves |-> x.moves, queue |-> queue, done |-> done,
                   back |-> back, budget |-> budget, base |-> x.base, view |-> v, saw |-> x.saw,
                   failed |-> failed]
  <1>1. /\ x \in RunState /\ RunFits(x) /\ d \in Devs /\ d \in DOMAIN x.view /\ d \in Listed(x)
        /\ To(r) \in Node
    BY MovingFacts
  <1>2. /\ x.queue \in Seq(Devs) /\ x.back \in Seq(Devs) /\ x.done \in Seq(Devs) /\ x.view \in Loaded
        /\ x.budget \in Int /\ x.failed \in BOOLEAN /\ x.moves # <<>> /\ (~rolling => x.queue # <<>>)
        /\ x.kind \in {"cycle", "peer"} /\ (x.kind = "peer" => ~rolling /\ ~x.failed)
        /\ (x.kind = "peer" => x.view = x.base)
    BY <1>1 DEF RunState, RunFits, Moving, Pc
  <1>3. runs' = [runs EXCEPT ![r] = y]
    <2> DEFINE x0 == IF ok THEN [x EXCEPT !.view[d] = To(r)] ELSE x
               x1 == [pc |-> x.pc, kind |-> x.kind, moves |-> x.moves, queue |-> x.queue,
                      done |-> x.done, back |-> x.back, budget |-> x.budget, base |-> x.base,
                      view |-> v, saw |-> x.saw, failed |-> x.failed]
               Rest(w) == IF w.back # <<>> THEN w ELSE [w EXCEPT !.queue = Tail(@)]
               Back(w) == IF ok \/ ~RollbackOnError \/ Rest(w).kind = "peer" THEN <<>>
                          ELSE Reverse(Rest(w).done)
               Z(w) == IF w.back # <<>> THEN [Rest(w) EXCEPT !.back = Tail(@)]
                       ELSE IF ok THEN [Rest(w) EXCEPT !.done = Append(@, d), !.budget = @ - 1]
                       ELSE [Rest(w) EXCEPT !.failed = TRUE, !.back = Back(w),
                                            !.done = IF Back(w) = <<>> THEN @ ELSE <<>>]
               Pc1(w) == IF w.back # <<>> THEN "remove"
                         ELSE IF w.kind = "peer" THEN (IF w.failed THEN "abort" ELSE "commit")
                         ELSE IF w.failed /\ (StopOnError \/ w.kind = "peer") THEN "commit"
                         ELSE IF w.queue = <<>> THEN "next" ELSE "remove"
               z == [pc |-> x.pc, kind |-> x.kind, moves |-> x.moves, queue |-> queue, done |-> done,
                     back |-> back, budget |-> budget, base |-> x.base, view |-> v, saw |-> x.saw,
                     failed |-> failed]
    <2>1. runs' = [runs EXCEPT ![r] = [Z(x0) EXCEPT !.pc = Pc1(Z(x0))]]
      BY DEF Migrated
    <2>2. x0 = x1
      <3>1. x = [pc |-> x.pc, kind |-> x.kind, moves |-> x.moves, queue |-> x.queue,
                 done |-> x.done, back |-> x.back, budget |-> x.budget, base |-> x.base,
                 view |-> x.view, saw |-> x.saw, failed |-> x.failed]
        BY <1>1 DEF RunState
      <3> QED
        BY <3>1
    <2>3. Z(x1) = z
      <3>1. /\ x1.back = x.back /\ Rest(x1).kind = x.kind /\ Rest(x1).done = x.done
            /\ x1.queue = x.queue /\ Back(x1) = b
        OBVIOUS
      <3> HIDE DEF v, b, Back
      <3>2. CASE rolling
        BY <3>1, <3>2
      <3>3. CASE ~rolling /\ ok
        BY <3>1, <3>3
      <3>4. CASE ~rolling /\ ~ok
        BY <3>1, <3>4
      <3> QED
        BY <3>2, <3>3, <3>4
    <2> HIDE DEF Z, x0, x1, queue, done, back, budget, failed, v
    <2>4. z.back = back /\ z.kind = x.kind /\ z.failed = failed /\ z.queue = queue
      OBVIOUS
    <2>5. Pc1(z) = pc
      BY <2>4
    <2> HIDE DEF pc, Pc1
    <2>6. [z EXCEPT !.pc = pc] = y
      OBVIOUS
    <2> HIDE DEF z, y
    <2>7. Z(x0) = z
      BY <2>2, <2>3
    <2> QED
      BY <2>1, <2>5, <2>6, <2>7
  <1>4. v \in Loaded /\ DOMAIN v = DOMAIN x.view
    BY <1>1, <1>2 DEF Loaded
  <1>5. b \in Seq(Devs) /\ Range(b) \subseteq Range(x.done)
    <2>1. Reverse(x.done) \in Seq(Devs) /\ Range(Reverse(x.done)) \subseteq Range(x.done)
      BY <1>2, ReverseRange
    <2>2. <<>> \in Seq(Devs) /\ Range(<<>>) = {}
      BY DEF Range
    <2> QED
      BY <2>1, <2>2
  <1>6. queue \in Seq(Devs) /\ Range(queue) \subseteq Listed(x)
    BY <1>2, TailRange DEF Listed
  <1>7. back \in Seq(Devs) /\ Range(back) \subseteq Listed(x)
    BY <1>2, <1>5, TailRange DEF Listed
  <1>8. done \in Seq(Devs) /\ Range(done) \subseteq Listed(x)
    <2>1. Append(x.done, d) \in Seq(Devs) /\ Range(Append(x.done, d)) = Range(x.done) \cup {d}
      BY <1>1, <1>2, AppendRange
    <2>2. <<>> \in Seq(Devs) /\ Range(<<>>) = {}
      BY DEF Range
    <2> QED
      BY <1>1, <1>2, <2>1, <2>2 DEF Listed
  <1>9. failed \in BOOLEAN /\ budget \in Int /\ pc \in {"remove", "next", "commit", "abort"}
    <2>1. x.budget - 1 \in Int
      BY <1>2
    <2>2. pc \in {"remove", "next", "commit", "abort"}
      OBVIOUS
    <2> QED
      BY <1>2, <2>1, <2>2
  <1>10. y \in RunState
    BY <1>1, <1>4, <1>6, <1>7, <1>8, <1>9 DEF RunState
  <1>11. Listed(y) \subseteq Listed(x)
    BY <1>6, <1>7, <1>8 DEF Listed
  <1>12. x.kind = "peer" => back = <<>> /\ pc \in {"abort", "commit"} /\ (pc = "abort" => v = x.base)
    BY <1>2
  <1>13. pc = "remove" => (back = <<>> => queue # <<>>)
    OBVIOUS
  <1>14. x.kind = "cycle" => pc # "abort"
    OBVIOUS
  <1>15. RunFits(y)
    <2> HIDE DEF queue, back, done, failed, budget, pc, v
    <2>1. /\ y.base = x.base /\ y.view = v /\ y.moves = x.moves /\ y.pc = pc /\ y.kind = x.kind
          /\ y.back = back /\ y.queue = queue
      OBVIOUS
    <2> HIDE DEF y
    <2> QED
      BY <1>1, <1>2, <1>4, <1>9, <1>11, <1>12, <1>13, <1>14, <2>1 DEF RunFits
  <1> QED
    BY <1>3, <1>9, <1>10, <1>11, <1>15
-----------------------------------------------------------------------------
\* The facts about a run that does not move a device.
LEMMA RunTyped ==
  ASSUME CpIInv, NEW r \in Run
  PROVE  /\ runs[r] \in RunState /\ RunFits(runs[r])
         /\ srv \in [Devs -> Node] /\ on \in [Node -> SUBSET Devs] /\ active \subseteq Node
         /\ sick \subseteq Node /\ troubled \subseteq Devs
  BY DEF CpIInv, CpTypeOK

\* For a device that a run answers for, as long as nothing interfered with it.
LEMMA MineFacts ==
  ASSUME CpIInv, NEW r \in Run, NEW d \in Devs \ troubled, d \in Mine(runs[r])
  PROVE  /\ runs[r].base[d] = srv[d]
         /\ Loc(d) = IF d \in Out(runs[r]) THEN {} ELSE {runs[r].view[d]}
  BY DEF CpIInv, Placed

\* An idle run answers for nothing.
LEMMA IdleMine ==
  ASSUME NEW x, ~Running(x)
  PROVE  Mine(x) = {}
  BY DEF Mine

\* A step that changes nothing but how far a run is, from one statement to another of the
\* same transaction.
LEMMA PcStep ==
  ASSUME CpIInv, NEW r \in Run, NEW p \in {"move", "commit", "next", "remove", "add", "restore"},
         runs' = [runs EXCEPT ![r].pc = p], Pc(r) \notin {"idle", "end"},
         RunFits([runs[r] EXCEPT !.pc = p]), Out([runs[r] EXCEPT !.pc = p]) = Out(runs[r]),
         UNCHANGED <<srv, on, active, sick>>, troubled' = troubled
  PROVE  CpIInv'
  <1> DEFINE x == runs[r]
             y == [x EXCEPT !.pc = p]
  <1>1. /\ x \in RunState /\ RunFits(x) /\ srv \in [Devs -> Node] /\ on \in [Node -> SUBSET Devs]
        /\ active \subseteq Node /\ sick \subseteq Node /\ troubled \subseteq Devs
    BY RunTyped
  <1>2. y \in RunState /\ runs' = [runs EXCEPT ![r] = y]
    BY <1>1 DEF RunState
  <1>3. /\ y.base = x.base /\ y.view = x.view /\ y.queue = x.queue /\ y.done = x.done
        /\ y.back = x.back /\ y.pc = p
    BY <1>1 DEF RunState
  <1>4. Out(y) = Out(x) /\ RunFits(y)
    OBVIOUS
  <1> HIDE DEF y
  <1>5. Mine(y) = Mine(x)
    BY <1>3 DEF Mine, Running, Pc, Listed
  <1>6. \A d \in Devs : Loc(d)' = Loc(d)
    BY DEF Loc
  <1>7. \A d \in Devs \ troubled : d \in Mine(x) =>
           x.base[d] = srv[d] /\ Loc(d) = IF d \in Out(x) THEN {} ELSE {x.view[d]}
    BY MineFacts
  <1>8. KeepsPlace(r, y)
    BY <1>3, <1>4, <1>5, <1>6, <1>7 DEF KeepsPlace
  <1> QED
    BY <1>1, <1>2, <1>4, <1>8, RunLocal

\* migrate_peer is done with a device: it is on the node that the run has for it.
LEMMA MigratedStep ==
  ASSUME CpIInv, NEW r \in Run, Moving(r), NEW ok \in BOOLEAN, Migrated(r, ok),
         UNCHANGED <<srv, active, sick>>, on' \in [Node -> SUBSET Devs],
         troubled \subseteq troubled', troubled' \subseteq Devs,
         \A d \in Devs : d # Cur(r) => Loc(d)' = Loc(d),
         \A d \in Devs \ troubled' : d = Cur(r) => Loc(d)' = {IF ok THEN To(r) ELSE From(r)}
  PROVE  CpIInv'
  <1> DEFINE x == runs[r]
             c == Cur(r)
  <1>1. PICK y \in RunState :
            /\ RunFits(y) /\ runs' = [runs EXCEPT ![r] = y]
            /\ y.base = x.base
            /\ y.view = IF ok THEN [x.view EXCEPT ![c] = To(r)] ELSE x.view
            /\ y.pc \in {"remove", "next", "commit", "abort"}
            /\ Listed(y) \subseteq Listed(x)
    BY MigratedFits
  <1>2. /\ x \in RunState /\ RunFits(x) /\ c \in Devs /\ c \in DOMAIN x.view /\ c \in Mine(x)
        /\ From(r) = x.view[c]
    BY MovingFacts DEF From
  <1>3. srv \in [Devs -> Node] /\ active \subseteq Node /\ sick \subseteq Node
    BY RunTyped
  <1>4. Out(y) = {} /\ Running(y) /\ Running(x)
    BY <1>1 DEF Out, Running, Moving, Pc
  <1>5. Out(x) \subseteq {c}
    BY DEF Out, Cur
  <1>6. DOMAIN x.view = DOMAIN x.base /\ DOMAIN y.view = DOMAIN x.view
    BY <1>1, <1>2 DEF RunFits
  <1>7. \A d \in DOMAIN x.view : d # c => y.view[d] = x.view[d]
    BY <1>1
  <1>8. y.view[c] = IF ok THEN To(r) ELSE From(r)
    BY <1>1, <1>2
  <1>9. Mine(y) \subseteq Mine(x)
    BY <1>1, <1>2, <1>4, <1>6, <1>7 DEF Mine
  <1>10. \A d \in Mine(x) : d \in DOMAIN x.view /\ (d \notin Mine(y) => y.view[d] = y.base[d])
    BY <1>4, <1>6 DEF Mine
  <1>11. \A d \in Devs \ troubled : d \in Mine(x) =>
           x.base[d] = srv[d] /\ Loc(d) = IF d \in Out(x) THEN {} ELSE {x.view[d]}
    BY MineFacts
  <1>12. ASSUME NEW d \in Devs \ troubled', d \in Mine(x)
         PROVE  y.base[d] = srv[d] /\ Loc(d)' = {y.view[d]}
    <2>1. CASE d = c
      BY <1>1, <1>8, <1>11, <1>12, <2>1
    <2>2. CASE d # c
      BY <1>1, <1>5, <1>7, <1>10, <1>11, <1>12, <2>2
    <2> QED
      BY <2>1, <2>2
  <1>13. KeepsPlace(r, y)
    BY <1>2, <1>4, <1>9, <1>10, <1>12 DEF KeepsPlace
  <1> QED
    BY <1>1, <1>3, <1>13, RunLocal

\* The peer is removed from the old node.
LEMMA RemoveInv == ASSUME CpIInv, NEW r \in Run, RemoveFromOld(r) PROVE CpIInv'
  <1> DEFINE x == runs[r]
             c == Cur(r)
             y == [x EXCEPT !.pc = "add"]
  <1>1. Moving(r) /\ Pc(r) = "remove"
    BY DEF RemoveFromOld, Moving
  <1>2. /\ x \in RunState /\ RunFits(x) /\ c \in Devs /\ c \in DOMAIN x.view /\ c \in Mine(x)
        /\ From(r) = x.view[c] /\ From(r) \in Node /\ To(r) \in Node
    BY <1>1, MovingFacts DEF From
  <1>3. /\ srv \in [Devs -> Node] /\ on \in [Node -> SUBSET Devs] /\ active \subseteq Node
        /\ sick \subseteq Node /\ troubled \subseteq Devs /\ UNCHANGED <<srv, active, sick>>
    BY RunTyped DEF RemoveFromOld, UnchangedWorld
  <1>4. Out(x) = {}
    BY <1>1 DEF Out, Pc
  <1>5. \A d \in Devs \ troubled : d \in Mine(x) => x.base[d] = srv[d] /\ Loc(d) = {x.view[d]}
    BY <1>4, MineFacts
  <1>6. CASE From(r) = To(r)
    <2>1. Migrated(r, TRUE) /\ UNCHANGED <<on, troubled>>
      BY <1>6 DEF RemoveFromOld
    <2>2. \A d \in Devs : Loc(d)' = Loc(d)
      BY <2>1 DEF Loc
    <2>3. \A d \in Devs \ troubled' : d = c => Loc(d)' = {To(r)}
      BY <1>2, <1>5, <1>6, <2>1, <2>2
    <2> QED
      BY <1>1, <1>3, <2>1, <2>2, <2>3, MigratedStep
  <1>7. CASE From(r) # To(r)
    <2>1. runs' = [runs EXCEPT ![r] = y] /\ y \in RunState
      BY <1>2, <1>7 DEF RemoveFromOld, RunState
    <2>2. /\ y.base = x.base /\ y.view = x.view /\ y.queue = x.queue /\ y.done = x.done
          /\ y.back = x.back /\ y.pc = "add" /\ y.moves = x.moves /\ y.kind = x.kind
          /\ y.failed = x.failed
      BY <1>2 DEF RunState
    <2> HIDE DEF y
    <2>3. RunFits(y)
      BY <1>1, <1>2, <2>2 DEF RunFits, Listed, Pc
    <2>4. Mine(y) = Mine(x) /\ Out(y) = {c}
      BY <1>1, <2>2 DEF Mine, Out, Listed, Running, Pc, Cur
    <2>5. /\ on' \in [Node -> SUBSET Devs] /\ troubled \subseteq troubled' /\ troubled' \subseteq Devs
          /\ \A d \in Devs : d # c => Loc(d)' = Loc(d)
          /\ c \notin troubled' => on' = [on EXCEPT ![From(r)] = @ \ {c}]
      BY <1>2, <1>3, <1>7 DEF RemoveFromOld, Loc
    <2>6. \A d \in Devs \ troubled' : d = c => Loc(d)' = {}
      <3>1. SUFFICES ASSUME NEW d \in Devs \ troubled', d = c PROVE Loc(d)' = {}
        OBVIOUS
      <3>2. Loc(d) = {From(r)}
        BY <1>2, <1>5, <2>5, <3>1
      <3> QED
        BY <1>2, <1>3, <2>5, <3>1, <3>2 DEF Loc
    <2>7. KeepsPlace(r, y)
      BY <1>2, <1>3, <1>5, <2>2, <2>4, <2>5, <2>6 DEF KeepsPlace
    <2> QED
      BY <1>3, <2>1, <2>3, <2>5, <2>7, RunLocal
  <1> QED
    BY <1>6, <1>7

\* The peer is added to the new node.
LEMMA AddInv == ASSUME CpIInv, NEW r \in Run, AddToTarget(r) PROVE CpIInv'
  <1> DEFINE x == runs[r]
             c == Cur(r)
  <1>1. Moving(r) /\ Pc(r) = "add"
    BY DEF AddToTarget, Moving
  <1>2. c \in Devs /\ c \in Mine(x) /\ To(r) \in Node
    BY <1>1, MovingFacts
  <1>3. /\ on \in [Node -> SUBSET Devs] /\ troubled \subseteq Devs
        /\ UNCHANGED <<srv, active, sick>> /\ troubled' = troubled
        /\ Migrated(r, TRUE) /\ on' = [on EXCEPT ![To(r)] = @ \cup {c}]
    BY RunTyped DEF AddToTarget, UnchangedWorld
  <1>4. Out(x) = {c}
    BY <1>1 DEF Out, Pc, Cur
  <1>5. on' \in [Node -> SUBSET Devs] /\ \A d \in Devs : d # c => Loc(d)' = Loc(d)
    BY <1>2, <1>3 DEF Loc
  <1>6. ASSUME NEW d \in Devs \ troubled', d = c PROVE Loc(d)' = {To(r)}
    <2>1. Loc(d) = {}
      BY <1>2, <1>3, <1>4, <1>6, MineFacts
    <2> QED
      BY <1>2, <1>3, <1>6, <2>1 DEF Loc
  <1> QED
    BY <1>1, <1>3, <1>5, <1>6, MigratedStep

\* The peer is put back on the old node after a failed add.
LEMMA RestoreInv == ASSUME CpIInv, NEW r \in Run, RestoreOnOld(r) PROVE CpIInv'
  <1> DEFINE x == runs[r]
             c == Cur(r)
  <1>1. Moving(r) /\ Pc(r) = "restore"
    BY DEF RestoreOnOld, Moving
  <1>2. c \in Devs /\ c \in Mine(x) /\ From(r) \in Node
    BY <1>1, MovingFacts
  <1>3. /\ on \in [Node -> SUBSET Devs] /\ troubled \subseteq Devs
        /\ UNCHANGED <<srv, active, sick>> /\ Migrated(r, FALSE)
        /\ \/ on' = [on EXCEPT ![From(r)] = @ \cup {c}] /\ troubled' = troubled
           \/ troubled' = troubled \cup {c} /\ on' = on
    BY RunTyped DEF RestoreOnOld, UnchangedWorld
  <1>4. Out(x) = {c}
    BY <1>1 DEF Out, Pc, Cur
  <1>5. /\ on' \in [Node -> SUBSET Devs] /\ \A d \in Devs : d # c => Loc(d)' = Loc(d)
        /\ troubled \subseteq troubled' /\ troubled' \subseteq Devs
    BY <1>2, <1>3 DEF Loc
  <1>6. ASSUME NEW d \in Devs \ troubled', d = c PROVE Loc(d)' = {From(r)}
    <2>1. Loc(d) = {}
      BY <1>2, <1>4, <1>5, <1>6, MineFacts
    <2> QED
      BY <1>2, <1>3, <1>6, <2>1 DEF Loc
  <1> QED
    BY <1>1, <1>3, <1>5, <1>6, MigratedStep

\* The new node refuses the peer.
LEMMA AddFailsInv == ASSUME CpIInv, NEW r \in Run, AddFails(r) PROVE CpIInv'
  <1> DEFINE x == runs[r]
             y == [x EXCEPT !.pc = "restore"]
  <1>1. x \in RunState /\ RunFits(x) /\ x.pc = "add"
    BY RunTyped DEF AddFails, Pc
  <1>2. /\ y.base = x.base /\ y.view = x.view /\ y.queue = x.queue /\ y.done = x.done
        /\ y.back = x.back /\ y.pc = "restore" /\ y.moves = x.moves /\ y.kind = x.kind
        /\ y.failed = x.failed
    BY <1>1 DEF RunState
  <1>3. RunFits(y)
    <2> HIDE DEF y
    <2> QED
      BY <1>1, <1>2 DEF RunFits, Listed
  <1>4. Out(y) = Out(x)
    <2> HIDE DEF y
    <2> QED
      BY <1>1, <1>2 DEF Out
  <1>5. /\ runs' = [runs EXCEPT ![r].pc = "restore"] /\ UNCHANGED <<srv, on, active, sick>>
        /\ troubled' = troubled /\ Pc(r) \notin {"idle", "end"}
    BY <1>1 DEF AddFails, UnchangedWorld, Pc
  <1> QED
    BY <1>3, <1>4, <1>5, PcStep

\* The list of moves is empty.
LEMMA NoMoreInv == ASSUME CpIInv, NEW r \in Run, NoMoreMoves(r) PROVE CpIInv'
  <1> DEFINE x == runs[r]
             y == [x EXCEPT !.pc = "commit"]
  <1>1. x \in RunState /\ RunFits(x) /\ x.pc = "move"
    BY RunTyped DEF NoMoreMoves, Pc
  <1>2. /\ y.base = x.base /\ y.view = x.view /\ y.queue = x.queue /\ y.done = x.done
        /\ y.back = x.back /\ y.pc = "commit" /\ y.moves = x.moves /\ y.kind = x.kind
        /\ y.failed = x.failed
    BY <1>1 DEF RunState
  <1>3. RunFits(y)
    <2> HIDE DEF y
    <2> QED
      BY <1>1, <1>2 DEF RunFits, Listed
  <1>4. Out(y) = Out(x)
    <2> HIDE DEF y
    <2> QED
      BY <1>1, <1>2 DEF Out
  <1>5. /\ runs' = [runs EXCEPT ![r].pc = "commit"] /\ UNCHANGED <<srv, on, active, sick>>
        /\ troubled' = troubled /\ Pc(r) \notin {"idle", "end"}
    BY <1>1 DEF NoMoreMoves, UnchangedWorld, Pc
  <1> QED
    BY <1>3, <1>4, <1>5, PcStep

\* The next move of the list begins.
LEMMA NextMoveInv == ASSUME CpIInv, NEW r \in Run, NextMove(r) PROVE CpIInv'
  <1> DEFINE x == runs[r]
             y == [x EXCEPT !.pc = "move", !.moves = Tail(@), !.done = <<>>]
  <1>1. /\ x \in RunState /\ RunFits(x) /\ x.pc = "next"
        /\ srv \in [Devs -> Node] /\ on \in [Node -> SUBSET Devs] /\ active \subseteq Node
        /\ sick \subseteq Node /\ troubled \subseteq Devs
    BY RunTyped DEF NextMove, Pc
  <1>2. /\ runs' = [runs EXCEPT ![r] = y] /\ UNCHANGED <<srv, on, active, sick>>
        /\ troubled' = troubled
    BY <1>1 DEF NextMove, UnchangedWorld, RunState
  <1>3. /\ y.base = x.base /\ y.view = x.view /\ y.queue = x.queue /\ y.done = <<>>
        /\ y.back = x.back /\ y.pc = "move" /\ y.moves = Tail(x.moves) /\ y.kind = x.kind
        /\ y.failed = x.failed
    BY <1>1 DEF RunState
  <1>4. y \in RunState
    <2>1. x.moves # <<>> /\ x.moves \in Seq(Move)
      BY <1>1 DEF RunFits, RunState
    <2>2. Tail(x.moves) \in Seq(Move)
      <3> QED
        BY <2>1
    <2>3. <<>> \in Seq(Devs)
      OBVIOUS
    <2> QED
      BY <1>1, <2>2, <2>3 DEF RunState
  <1> HIDE DEF y
  <1>5. Range(<<>>) = {}
    BY DEF Range
  <1>6. Listed(y) \subseteq Listed(x)
    BY <1>3, <1>5 DEF Listed
  <1>7. RunFits(y)
    BY <1>1, <1>3, <1>6 DEF RunFits
  <1>8. /\ Mine(y) \subseteq Mine(x) /\ Out(y) = {} /\ Out(x) = {}
        /\ \A d \in Mine(x) : d \notin Mine(y) => y.view[d] = y.base[d]
    BY <1>1, <1>3, <1>6 DEF Mine, Out, Running
  <1>9. \A d \in Devs : Loc(d)' = Loc(d)
    BY <1>2 DEF Loc
  <1>10. \A d \in Devs \ troubled : d \in Mine(x) => x.base[d] = srv[d] /\ Loc(d) = {x.view[d]}
    BY <1>8, MineFacts
  <1>11. KeepsPlace(r, y)
    BY <1>2, <1>3, <1>8, <1>9, <1>10 DEF KeepsPlace
  <1> QED
    BY <1>1, <1>2, <1>4, <1>7, <1>11, RunLocal

\* A run ends: what it answered for must be where the row says.
LEMMA RunEnds ==
  ASSUME CpIInv, NEW r \in Run, runs' = [runs EXCEPT ![r].pc = "end"],
         srv' \in [Devs -> Node], on' = on, active' \subseteq Node, sick' \subseteq Node,
         troubled \subseteq troubled', troubled' \subseteq Devs,
         \A d \in Devs \ troubled' :
            /\ d \notin Mine(runs[r]) => srv'[d] = srv[d]
            /\ d \in Mine(runs[r]) => Loc(d) = {srv'[d]}
  PROVE  CpIInv'
  <1> DEFINE x == runs[r]
             y == [x EXCEPT !.pc = "end"]
  <1>1. x \in RunState /\ RunFits(x) /\ on \in [Node -> SUBSET Devs]
    BY RunTyped
  <1>2. runs' = [runs EXCEPT ![r] = y] /\ y \in RunState
    BY <1>1 DEF RunState
  <1>3. /\ y.base = x.base /\ y.view = x.view /\ y.queue = x.queue /\ y.done = x.done
        /\ y.back = x.back /\ y.pc = "end" /\ y.moves = x.moves /\ y.kind = x.kind
        /\ y.failed = x.failed
    BY <1>1 DEF RunState
  <1> HIDE DEF y
  <1>4. RunFits(y) /\ Mine(y) = {}
    BY <1>1, <1>3 DEF RunFits, Mine, Listed, Running
  <1>5. \A d \in Devs : Loc(d)' = Loc(d)
    BY DEF Loc
  <1>6. KeepsPlace(r, y)
    BY <1>4, <1>5 DEF KeepsPlace
  <1> QED
    BY <1>1, <1>2, <1>4, <1>6, RunLocal

\* The session commits.
LEMMA CommitInv == ASSUME CpIInv, NEW r \in Run, CommitRun(r) PROVE CpIInv'
  <1> DEFINE x == runs[r]
  <1>1. /\ x \in RunState /\ RunFits(x) /\ x.pc = "commit"
        /\ srv \in [Devs -> Node] /\ active \subseteq Node
        /\ sick \subseteq Node /\ troubled \subseteq Devs
    BY RunTyped DEF CommitRun, Pc
  <1>2. /\ runs' = [runs EXCEPT ![r].pc = "end"] /\ on' = on /\ sick' = sick /\ troubled' = troubled
        /\ srv' = [d \in Devs |-> IF d \in Changed(r) THEN x.view[d] ELSE srv[d]]
        /\ active' \subseteq Node
    BY <1>1 DEF CommitRun
  <1>3. x.view \in Loaded /\ x.base \in Loaded /\ DOMAIN x.view = DOMAIN x.base
    BY <1>1 DEF RunState, RunFits
  <1>4. \A d \in DOMAIN x.view : x.view[d] \in Node
    BY <1>3 DEF Loaded
  <1>5. srv' \in [Devs -> Node]
    BY <1>1, <1>2, <1>4 DEF Changed, Touched
  <1>6. Out(x) = {} /\ Running(x)
    BY <1>1 DEF Out, Running
  <1>7. \A d \in Devs \ troubled : d \in Mine(x) => x.base[d] = srv[d] /\ Loc(d) = {x.view[d]}
    BY <1>6, MineFacts
  <1>8. Changed(r) \subseteq Mine(x) /\ \A d \in Mine(x) \ Changed(r) : x.view[d] = x.base[d]
    BY <1>6 DEF Changed, Touched, Mine
  <1>9. \A d \in Devs \ troubled' :
            /\ d \notin Mine(x) => srv'[d] = srv[d]
            /\ d \in Mine(x) => Loc(d) = {srv'[d]}
    BY <1>2, <1>7, <1>8
  <1> QED
    BY <1>1, <1>2, <1>5, <1>9, RunEnds

\* The migration is rolled back.
LEMMA AbortInv == ASSUME CpIInv, NEW r \in Run, AbortMigration(r) PROVE CpIInv'
  <1> DEFINE x == runs[r]
  <1>1. /\ x \in RunState /\ RunFits(x) /\ x.pc = "abort"
        /\ srv \in [Devs -> Node] /\ active \subseteq Node
        /\ sick \subseteq Node /\ troubled \subseteq Devs
    BY RunTyped DEF AbortMigration, Pc
  <1>2. /\ runs' = [runs EXCEPT ![r].pc = "end"] /\ UNCHANGED <<srv, on, active, sick>>
        /\ troubled' = troubled
    BY DEF AbortMigration, UnchangedWorld
  <1>3. x.view = x.base
    BY <1>1 DEF RunFits, RunState
  <1>4. Out(x) = {}
    BY <1>1 DEF Out
  <1>5. \A d \in Devs \ troubled : d \in Mine(x) => Loc(d) = {srv[d]}
    BY <1>3, <1>4, MineFacts
  <1> QED
    BY <1>1, <1>2, <1>5, RunEnds

\* The process stops in the middle of a run.
LEMMA CrashInv == ASSUME CpIInv, NEW r \in Run, CrashRun(r) PROVE CpIInv'
  <1> DEFINE x == runs[r]
  <1>1. /\ x \in RunState
        /\ srv \in [Devs -> Node] /\ active \subseteq Node
        /\ sick \subseteq Node /\ troubled \subseteq Devs
    BY RunTyped
  <1>2. /\ runs' = [runs EXCEPT ![r].pc = "end"] /\ UNCHANGED <<srv, on, active, sick>>
        /\ troubled' = troubled \cup Touched(r)
    BY DEF CrashRun, UnchangedWorld
  <1>3. Touched(r) \subseteq Devs
    BY <1>1 DEF Touched, RunState, Loaded
  <1>4. Mine(x) \subseteq Touched(r)
    BY DEF Mine, Touched
  <1> QED
    BY <1>1, <1>2, <1>3, <1>4, RunEnds

\* Devices that no other run has loaded are not another run's.
LEMMA NotElsewhere ==
  ASSUME NEW r \in Run, NEW d, d \notin Elsewhere(r)
  PROVE  \A s \in Run \ {r} : d \notin Mine(runs[s])
  BY DEF Elsewhere, Mine, Touched, Busy, Running, Pc

\* A run that has not started.
LEMMA IdleFits ==
  /\ IdleRun \in RunState /\ RunFits(IdleRun) /\ Mine(IdleRun) = {}
  /\ IdleRun.kind = "cycle" /\ IdleRun.queue = <<>> /\ IdleRun.done = <<>> /\ IdleRun.back = <<>>
  /\ IdleRun.base = IdleRun.view /\ DOMAIN IdleRun.view = {} /\ IdleRun.saw = {} /\ ~IdleRun.failed
  <1> DEFINE none == [d \in {} |-> 1]
  <1>1. {} \in SUBSET Devs /\ none \in [{} -> Node] /\ DOMAIN none = {}
    OBVIOUS
  <1>2. none \in Loaded
    BY <1>1 DEF Loaded
  <1>3. <<>> \in Seq(Devs) /\ <<>> \in Seq(Move) /\ Range(<<>>) = {}
    BY DEF Range
  <1>4. IdleRun = [pc |-> "idle", kind |-> "cycle", moves |-> <<>>, queue |-> <<>>, done |-> <<>>,
                   back |-> <<>>, budget |-> 0, base |-> none, view |-> none, saw |-> {},
                   failed |-> FALSE]
    BY DEF IdleRun
  <1> HIDE DEF none
  <1>5. IdleRun \in RunState
    BY <1>2, <1>3, <1>4 DEF RunState
  <1>6. /\ IdleRun.kind = "cycle" /\ IdleRun.queue = <<>> /\ IdleRun.done = <<>> /\ IdleRun.back = <<>>
        /\ IdleRun.base = none /\ IdleRun.view = none /\ IdleRun.saw = {} /\ ~IdleRun.failed
        /\ IdleRun.pc = "idle"
    BY <1>4
  <1>7. RunFits(IdleRun) /\ Mine(IdleRun) = {}
    BY <1>1, <1>3, <1>6 DEF RunFits, Mine, Listed
  <1> QED
    BY <1>1, <1>5, <1>6, <1>7

\* A cycle of the rebalancer starts.
LEMMA StartCycleInv ==
  ASSUME CpIInv, NEW r \in Run, StartCycle(r),
         Planning!PlanRebalance \in Seq(Move)
  PROVE  CpIInv'
  <1> DEFINE y == [IdleRun EXCEPT !.pc = "move", !.moves = Planning!PlanRebalance,
                                  !.budget = MaxExec, !.saw = sick]
  <1>1. /\ runs[r].pc = "idle" /\ srv \in [Devs -> Node] /\ on \in [Node -> SUBSET Devs]
        /\ active \subseteq Node /\ sick \subseteq Node /\ troubled \subseteq Devs
    BY RunTyped DEF StartCycle, Pc
  <1>2. /\ runs' = [runs EXCEPT ![r] = y] /\ UNCHANGED <<srv, on, active, sick>>
        /\ troubled' = troubled
    BY DEF StartCycle, UnchangedWorld
  <1>3. MaxExec \in Int
    BY ControlPlaneAssumption
  <1>4. y \in RunState
    BY <1>1, <1>3, IdleFits DEF RunState
  <1>5. /\ y.base = IdleRun.base /\ y.view = IdleRun.view /\ y.queue = <<>> /\ y.done = <<>>
        /\ y.back = <<>> /\ y.pc = "move" /\ y.kind = "cycle"
    BY IdleFits DEF RunState
  <1> HIDE DEF y
  <1>6. Range(<<>>) = {}
    BY DEF Range
  <1>7. /\ y.base = y.view /\ DOMAIN y.view = {} /\ Listed(y) = {} /\ y.pc = "move" /\ y.kind = "cycle"
        /\ y.back = <<>>
    BY <1>5, <1>6, IdleFits DEF Listed
  <1>8. RunFits(y) /\ Mine(y) = {}
    BY <1>7 DEF RunFits, Mine
  <1>9. Mine(runs[r]) = {}
    BY <1>1 DEF Mine, Running
  <1>10. \A d \in Devs : Loc(d)' = Loc(d)
    BY <1>2 DEF Loc
  <1>11. KeepsPlace(r, y)
    BY <1>2, <1>8, <1>9, <1>10 DEF KeepsPlace
  <1> QED
    BY <1>1, <1>2, <1>4, <1>8, <1>11, RunLocal

\* The target of a migration is a node.
LEMMA SelectsNodes == Planning!SelectNode \subseteq Node
  BY DEF Planning!SelectNode, Planning!Nodes, Seen

\* A migration of a node's devices starts.
LEMMA StartMigrationInv == ASSUME CpIInv, NEW r \in Run, StartMigration(r) PROVE CpIInv'
  <1>1. /\ runs[r].pc = "idle" /\ srv \in [Devs -> Node] /\ on \in [Node -> SUBSET Devs]
        /\ active \subseteq Node /\ sick \subseteq Node /\ troubled \subseteq Devs
    BY RunTyped DEF StartMigration, Pc
  <1>2. PICK d \in Devs, n \in active \cup Planning!SelectNode :
          /\ runs' = [runs EXCEPT ![r] = [IdleRun EXCEPT
                !.pc = "remove", !.kind = "peer", !.queue = <<d>>, !.budget = 1,
                !.moves = <<[source |-> srv[d], target |-> n, n |-> 1]>>,
                !.base = [x \in {d} |-> srv[d]], !.view = [x \in {d} |-> srv[d]]]]
          /\ troubled' = troubled \cup (Elsewhere(r) \cap {d})
    BY DEF StartMigration
  <1> DEFINE v == [x \in {d} |-> srv[d]]
             m == <<[source |-> srv[d], target |-> n, n |-> 1]>>
             y == [IdleRun EXCEPT !.pc = "remove", !.kind = "peer", !.queue = <<d>>, !.budget = 1,
                                  !.moves = m, !.base = v, !.view = v]
  <1>3. runs' = [runs EXCEPT ![r] = y]
    BY <1>2
  <1>4. /\ UNCHANGED <<srv, on, active, sick>>
        /\ troubled \subseteq troubled' /\ troubled' \subseteq Devs
    BY <1>1, <1>2 DEF StartMigration, UnchangedWorld
  <1>5. v \in Loaded /\ DOMAIN v = {d} /\ v[d] = srv[d]
    <2>1. {d} \in SUBSET Devs /\ v \in [{d} -> Node]
      BY <1>1
    <2> QED
      BY <2>1 DEF Loaded
  <1>6. n \in Node
    BY <1>1, SelectsNodes
  <1>7. m \in Seq(Move) /\ m # <<>>
    <2>1. [source |-> srv[d], target |-> n, n |-> 1] \in Move
      BY <1>1, <1>6 DEF Move
    <2> QED
      BY <2>1
  <1>8. /\ <<d>> \in Seq(Devs) /\ <<>> \in Seq(Devs) /\ <<d>> # <<>>
        /\ Range(<<>>) = {} /\ Range(<<d>>) = {d}
    BY DEF Range
  <1> HIDE DEF v, m
  <1>9. y \in RunState
    <2> DEFINE one == <<d>>
               k == 1
    <2>1. one \in Seq(Devs) /\ k \in Int
      BY <1>8
    <2> HIDE DEF one, k
    <2>2. [IdleRun EXCEPT !.pc = "remove", !.kind = "peer", !.queue = one, !.budget = k,
                          !.moves = m, !.base = v, !.view = v] \in RunState
      BY <1>5, <1>7, <2>1, IdleFits DEF RunState
    <2> QED
      BY <2>2 DEF one, k
  <1>10. /\ y.pc = "remove" /\ y.kind = "peer" /\ y.base = v /\ y.view = v /\ y.back = <<>>
         /\ y.queue = <<d>> /\ y.moves = m /\ ~y.failed /\ y.done = <<>>
    BY IdleFits DEF RunState
  <1> HIDE DEF y
  <1>11. Listed(y) = {d}
    BY <1>8, <1>10 DEF Listed
  <1>12. RunFits(y)
    BY <1>5, <1>7, <1>8, <1>10, <1>11 DEF RunFits
  <1>13. Mine(y) = {d} /\ Out(y) = {}
    BY <1>5, <1>10, <1>11 DEF Mine, Out, Running
  <1>14. Mine(runs[r]) = {}
    BY <1>1 DEF Mine, Running
  <1>15. \A x \in Devs : Loc(x)' = Loc(x)
    BY <1>4 DEF Loc
  <1>16. d \notin troubled' => \A s \in Run \ {r} : d \notin Mine(runs[s])
    BY <1>2, NotElsewhere
  <1>17. KeepsPlace(r, y)
    BY <1>4, <1>5, <1>10, <1>13, <1>14, <1>15, <1>16 DEF KeepsPlace
  <1> QED
    BY <1>1, <1>3, <1>4, <1>9, <1>12, <1>17, RunLocal

\* The devices of the next move are picked.
LEMMA PickInv == ASSUME CpIInv, NEW r \in Run, PickDevices(r) PROVE CpIInv'
  <1> DEFINE x == runs[r]
             S == OnSource(r)
             base == [d \in Touched(r) \cup S |-> IF d \in Touched(r) THEN x.base[d] ELSE srv[d]]
             view == [d \in Touched(r) \cup S |-> IF d \in Touched(r) THEN x.view[d] ELSE srv[d]]
  <1>1. /\ x \in RunState /\ RunFits(x) /\ x.pc = "move" /\ x.moves # <<>>
        /\ srv \in [Devs -> Node] /\ on \in [Node -> SUBSET Devs] /\ active \subseteq Node
        /\ sick \subseteq Node /\ troubled \subseteq Devs /\ UNCHANGED <<srv, on, active, sick>>
    BY RunTyped DEF PickDevices, Pc, UnchangedWorld
  <1>2. PICK q \in SetToAllKPermutations(S) :
          /\ runs' = [runs EXCEPT ![r].queue = q, ![r].done = <<>>, ![r].failed = FALSE,
                      ![r].pc = IF q = <<>> THEN "next" ELSE "remove",
                      ![r].base = base, ![r].view = view]
          /\ troubled' = troubled \cup (Range(q) \cap (Elsewhere(r) \cup Stale(r)))
    BY DEF PickDevices, Range
  <1> DEFINE p == IF q = <<>> THEN "next" ELSE "remove"
             y == [x EXCEPT !.queue = q, !.done = <<>>, !.failed = FALSE, !.pc = p, !.base = base,
                            !.view = view]
  <1>3. S \subseteq Devs \ Enterprise
    BY DEF OnSource
  <1>4. q \in Seq(Devs) /\ Range(q) \subseteq S
    <2>1. PICK s \in SUBSET S : q \in SetToSeqs(s)
      BY DEF SetToAllKPermutations
    <2>2. Cardinality(s) \in Nat
      BY <1>3, FS_Subset, FS_CardinalityType, ControlPlaneAssumption
    <2>3. q \in [1..Cardinality(s) -> s]
      BY <2>1 DEF SetToSeqs
    <2>4. q \in Seq(s)
      BY <2>2, <2>3
    <2>5. Range(q) \subseteq s
      BY <2>3 DEF Range
    <2> QED
      BY <1>3, <2>4, <2>5
  <1>5. /\ x.view \in Loaded /\ x.base \in Loaded /\ DOMAIN x.base = Touched(r)
        /\ DOMAIN x.view = Touched(r) /\ Touched(r) \subseteq Devs /\ x.back \in Seq(Devs)
        /\ \A d \in Touched(r) : x.view[d] \in Node /\ x.base[d] \in Node
    BY <1>1 DEF RunState, RunFits, Loaded, Touched
  <1>6. base \in Loaded /\ view \in Loaded
    <2>1. /\ Touched(r) \cup S \in SUBSET Devs
          /\ base \in [Touched(r) \cup S -> Node] /\ view \in [Touched(r) \cup S -> Node]
      BY <1>1, <1>3, <1>5
    <2> QED
      BY <2>1 DEF Loaded
  <1>7. /\ DOMAIN base = Touched(r) \cup S /\ DOMAIN view = Touched(r) \cup S
        /\ \A d \in Touched(r) : base[d] = x.base[d] /\ view[d] = x.view[d]
        /\ \A d \in S \ Touched(r) : base[d] = srv[d] /\ view[d] = srv[d]
    OBVIOUS
  <1> HIDE DEF base, view
  <1>8. runs' = [runs EXCEPT ![r] = y]
    <2>1. runs \in [Run -> RunState]
      BY DEF CpIInv, CpTypeOK
    <2>2. runs' = [runs EXCEPT ![r].queue = q, ![r].done = <<>>, ![r].failed = FALSE, ![r].pc = p,
                               ![r].base = base, ![r].view = view]
      BY <1>2
    <2> HIDE DEF p
    <2> QED
      BY <2>1, <2>2
  <1>9. <<>> \in Seq(Devs) /\ Range(<<>>) = {} /\ p \in {"next", "remove"} /\ (p = "next" <=> q = <<>>)
    BY DEF Range
  <1> HIDE DEF p
  <1>10. y \in RunState
    BY <1>1, <1>4, <1>6, <1>9 DEF RunState
  <1>11. /\ y.base = base /\ y.view = view /\ y.queue = q /\ y.done = <<>> /\ y.back = x.back
         /\ y.pc = p /\ y.moves = x.moves /\ y.kind = x.kind
         /\ ~y.failed
    BY <1>1 DEF RunState
  <1> HIDE DEF y
  <1>12. Listed(y) = Range(q) \cup Range(x.back) /\ Range(x.back) \subseteq Listed(x)
    BY <1>9, <1>11 DEF Listed
  <1>13. x.kind = "peer" => x.view = x.base
    BY <1>1 DEF RunFits
  <1>14. x.kind = "peer" => base = view
    BY <1>7, <1>13 DEF base, view
  <1>15. RunFits(y)
    <2>1. DOMAIN y.base = DOMAIN y.view /\ Listed(y) \subseteq DOMAIN y.view
      BY <1>1, <1>4, <1>5, <1>7, <1>11, <1>12 DEF RunFits
    <2>2. x.kind = "cycle" => DOMAIN y.view \cap Enterprise = {}
      BY <1>1, <1>3, <1>5, <1>7, <1>11 DEF RunFits
    <2> QED
      BY <1>1, <1>9, <1>11, <1>14, <2>1, <2>2 DEF RunFits
  <1>16. Out(x) = {} /\ Out(y) = {} /\ Running(x) /\ Running(y)
    BY <1>1, <1>9, <1>11 DEF Out, Running
  <1>17. \A d \in Devs \ troubled : d \in Mine(x) => x.base[d] = srv[d] /\ Loc(d) = {x.view[d]}
    BY <1>16, MineFacts
  <1>18. \A d \in Devs : Loc(d)' = Loc(d)
    BY <1>1 DEF Loc
  <1>19. ASSUME NEW d \in Devs \ troubled', d \in Mine(x)
         PROVE  /\ d \in Mine(y) => y.base[d] = srv[d] /\ Loc(d) = {y.view[d]}
                /\ d \notin Mine(y) => Loc(d) = {srv[d]}
    <2>1. d \in Touched(r) /\ d \in Devs \ troubled
      BY <1>2, <1>19 DEF Mine, Touched
    <2>2. y.base[d] = srv[d] /\ Loc(d) = {y.view[d]}
      BY <1>7, <1>11, <1>17, <1>19, <2>1
    <2>3. d \notin Mine(y) => y.view[d] = y.base[d]
      BY <1>7, <1>11, <1>16, <2>1 DEF Mine
    <2> QED
      BY <2>2, <2>3
  <1>20. ASSUME NEW d \in Devs \ troubled', d \notin Mine(x), d \in Mine(y)
         PROVE  /\ \A s \in Run \ {r} : d \notin Mine(runs[s])
                /\ y.base[d] = srv[d] /\ y.view[d] = srv[d]
    <2>1. d \in Range(q)
      <3>1. d \in Touched(r) => x.view[d] = x.base[d] /\ d \notin Listed(x)
        BY <1>5, <1>16, <1>20 DEF Mine
      <3>2. d \in Touched(r) \cup S /\ (y.view[d] # y.base[d] \/ d \in Listed(y))
        BY <1>7, <1>11, <1>20 DEF Mine
      <3>3. d \notin Listed(x)
        BY <1>1, <1>5, <3>1 DEF RunFits
      <3>4. y.view[d] = y.base[d]
        BY <1>7, <1>11, <3>1, <3>2
      <3> QED
        BY <1>12, <3>2, <3>3, <3>4
    <2>2. d \notin Elsewhere(r) /\ d \notin Stale(r)
      BY <1>2, <2>1
    <2>3. CASE d \in Touched(r)
      BY <1>5, <1>7, <1>11, <1>16, <1>20, <2>2, <2>3, NotElsewhere DEF Stale, Mine
    <2>4. CASE d \notin Touched(r)
      BY <1>4, <1>7, <1>11, <2>1, <2>2, <2>4, NotElsewhere
    <2> QED
      BY <2>3, <2>4
  <1>21. KeepsPlace(r, y)
    BY <1>1, <1>16, <1>18, <1>19, <1>20 DEF KeepsPlace
  <1>22. troubled \subseteq troubled' /\ troubled' \subseteq Devs
    BY <1>1, <1>2, <1>3, <1>4
  <1> QED
    BY <1>1, <1>8, <1>10, <1>15, <1>21, <1>22, RunLocal

-----------------------------------------------------------------------------
\* A step of a loop of the worker leaves the rows and the runs as they are.
LEMMA WorldStep ==
  ASSUME CpIInv, UNCHANGED <<srv, runs>>, on' \in [Node -> SUBSET Devs], active' \subseteq Node,
         sick' \subseteq Node, troubled \subseteq troubled', troubled' \subseteq Devs,
         \A d \in Devs \ troubled' : Loc(d)' = Loc(d)
  PROVE  CpIInv'
  <1>1. CpTypeOK' /\ \A r \in Run : RunFits(runs[r])'
    BY DEF CpIInv, CpTypeOK, RunFits, Listed, Range
  <1>2. ASSUME NEW d \in Devs \ troubled' PROVE Placed(d)'
    <2>1. Placed(d) /\ Loc(d)' = Loc(d)
      BY DEF CpIInv
    <2> QED
      BY <2>1 DEF Placed, Mine, Out, Listed, Running, Range
  <1> QED
    BY <1>1, <1>2 DEF CpIInv

\* A reconciliation round of a node.
LEMMA ReconcileInv == ASSUME CpIInv, NEW n \in Node, ReconcileNode(n) PROVE CpIInv'
  <1> DEFINE missing == {d \in Devs : srv[d] = n /\ d \notin on[n]}
             T == {d \in missing : \E r \in Run : Busy(r) /\ d \in Touched(r)}
  <1>1. /\ on' = [on EXCEPT ![n] = @ \cup missing] /\ troubled' = troubled \cup T
        /\ UNCHANGED <<srv, active, sick, runs>>
    BY DEF ReconcileNode, UnchangedWorld
  <1>2. /\ on \in [Node -> SUBSET Devs] /\ active \subseteq Node /\ sick \subseteq Node
        /\ troubled \subseteq Devs
    BY DEF CpIInv, CpTypeOK
  <1>3. on' \in [Node -> SUBSET Devs]
    BY <1>1, <1>2
  <1>4. ASSUME NEW d \in Devs \ troubled' PROVE Loc(d)' = Loc(d)
    <2>1. d \notin missing
      <3>1. SUFFICES ASSUME d \in missing PROVE FALSE
        OBVIOUS
      <3>2. \A r \in Run : d \notin Mine(runs[r])
        BY <1>1, <3>1 DEF Mine, Touched, Busy, Running, Pc
      <3>3. Placed(d)
        BY <1>1 DEF CpIInv
      <3>4. Loc(d) = {srv[d]}
        BY <3>2, <3>3 DEF Placed
      <3> QED
        BY <3>1, <3>4 DEF Loc
    <2> QED
      BY <1>1, <1>2, <2>1 DEF Loc
  <1> QED
    BY <1>1, <1>2, <1>3, <1>4, WorldStep

\* The limits check blocks a device.
LEMMA LimitsInv == ASSUME CpIInv, NEW d \in Devs, LimitsCheck(d) PROVE CpIInv'
  <1>1. /\ on' = [on EXCEPT ![srv[d]] = @ \ {d}] /\ troubled' = troubled \cup {d}
        /\ UNCHANGED <<srv, active, sick, runs>>
    BY DEF LimitsCheck
  <1>2. /\ srv \in [Devs -> Node] /\ on \in [Node -> SUBSET Devs] /\ active \subseteq Node
        /\ sick \subseteq Node /\ troubled \subseteq Devs
    BY DEF CpIInv, CpTypeOK
  <1>3. on' \in [Node -> SUBSET Devs] /\ \A x \in Devs \ {d} : Loc(x)' = Loc(x)
    BY <1>1, <1>2 DEF Loc
  <1> QED
    BY <1>1, <1>2, <1>3, WorldStep

\* The scan, a health check, a change of health, a stuttering step.
LEMMA OtherInv ==
  ASSUME CpIInv, NodeScan \/ (\E n \in Node : HealthCheck(n) \/ HealthChanges(n)) \/ UNCHANGED cpVars
  PROVE  CpIInv'
  <1>1. UNCHANGED <<srv, on, runs, troubled>> /\ active' \subseteq Node /\ sick' \subseteq Node
    BY DEF CpIInv, CpTypeOK, NodeScan, HealthCheck, HealthChanges, cpVars
  <1>2. \A d \in Devs : Loc(d)' = Loc(d)
    BY <1>1 DEF Loc
  <1>3. on \in [Node -> SUBSET Devs] /\ troubled \subseteq Devs
    BY DEF CpIInv, CpTypeOK
  <1> QED
    BY <1>1, <1>2, <1>3, WorldStep

\* The initial states satisfy the invariant.
LEMMA CpInitInv == CpInit => CpIInv
  <1> SUFFICES ASSUME CpInit PROVE CpIInv
    OBVIOUS
  <1>1. 1 \in Node
    BY ControlPlaneAssumption DEF Node
  <1>2. \A r \in Run : runs[r] = IdleRun
    BY DEF CpInit
  <1>3. CpTypeOK
    BY <1>1, IdleFits DEF CpInit, CpTypeOK
  <1>4. \A d \in Devs : Loc(d) = {1} /\ srv[d] = 1
    BY <1>1 DEF CpInit, Loc
  <1>5. \A d \in Devs : Placed(d)
    BY <1>2, <1>4, IdleFits DEF Placed
  <1> QED
    BY <1>2, <1>3, <1>5, IdleFits DEF CpIInv

\* Every step preserves the invariant.
LEMMA CpStepInv ==
  ASSUME CpIInv, [CpNext]_cpVars, Planning!PlanRebalance \in Seq(Move)
  PROVE  CpIInv'
  <1>1. ASSUME NEW r \in Run, StartCycle(r) \/ StartMigration(r) \/ RunStep(r) \/ CrashRun(r)
        PROVE  CpIInv'
    <2>1. ASSUME RunStep(r) PROVE CpIInv'
      BY <2>1, PickInv, NoMoreInv, RemoveInv, AddInv, AddFailsInv, RestoreInv, NextMoveInv, CommitInv,
         AbortInv DEF RunStep
    <2> QED
      BY <1>1, <2>1, StartCycleInv, StartMigrationInv, CrashInv
  <1>2. ASSUME NEW n \in Node, ReconcileNode(n) PROVE CpIInv'
    BY <1>2, ReconcileInv
  <1>3. ASSUME NEW d \in Devs, LimitsCheck(d) PROVE CpIInv'
    BY <1>3, LimitsInv
  <1> QED
    BY <1>1, <1>2, <1>3, OtherInv DEF CpNext

\* The invariant says where every undisturbed device is, hence MovesAreRight.
LEMMA CpInvGivesMoves == CpIInv => MovesAreRight
  <1> SUFFICES ASSUME CpIInv PROVE MovesAreRight
    OBVIOUS
  <1>1. MovedIsInPlace
    <2> SUFFICES ASSUME \A r \in Run : ~Busy(r), NEW d \in Devs \ troubled
                 PROVE  {n \in Node : d \in on[n]} = {srv[d]}
      BY DEF MovedIsInPlace
    <2>1. \A r \in Run : d \notin Mine(runs[r])
      BY DEF Mine, Busy, Running, Pc
    <2> QED
      BY <2>1 DEF CpIInv, Placed, Loc
  <1>2. PinnedStays
    BY DEF CpIInv, RunFits, PinnedStays, Changed, Touched
  <1> QED
    BY <1>1, <1>2 DEF MovesAreRight

\* What a cycle plans from is a topology.
LEMMA SeenFits ==
  ASSUME CpTypeOK
  PROVE  /\ NNodes \in Nat /\ Planning!Nodes = Node /\ Len(Seen) = NNodes /\ IsFiniteSet(Node)
         /\ Planning!Overloaded \subseteq Node
         /\ \A n \in Node : /\ Seen[n].peers \in Nat /\ Seen[n].max \in Nat \ {0}
                            /\ Seen[n].pinned \in Nat /\ n \in Nat
  <1>1. NNodes \in Nat /\ \A n \in Node : Cap[n] \in Nat \ {0}
    BY ControlPlaneAssumption
  <1>2. DOMAIN Seen = 1..NNodes
    BY DEF Seen, Node
  <1>3. Planning!Nodes = Node
    BY <1>2 DEF Planning!Nodes, Node
  <1>4. Len(Seen) = NNodes
    <2> DEFINE S == {Seen[n] : n \in Node}
    <2>1. Seen \in [1..NNodes -> S]
      BY DEF Seen, Node
    <2>2. Seen \in Seq(S)
      BY <1>1, <2>1
    <2> QED
      BY <1>1, <1>2, <2>2
  <1>5. IsFiniteSet(Node)
    <2>1. 1 \in Int /\ NNodes \in Int
      BY <1>1
    <2> QED
      BY <2>1, FS_Interval DEF Node
  <1>6. Planning!Overloaded \subseteq Node
    BY <1>3 DEF Planning!Overloaded
  <1>7. ASSUME NEW n \in Node
        PROVE  /\ Seen[n].peers \in Nat /\ Seen[n].max \in Nat \ {0} /\ Seen[n].pinned \in Nat
               /\ n \in Nat
    <2>1. IsFiniteSet(on[n]) /\ IsFiniteSet({d \in Enterprise : srv[d] = n})
      BY ControlPlaneAssumption, FS_Subset DEF CpTypeOK
    <2>2. Cardinality(on[n]) \in Nat /\ Cardinality({d \in Enterprise : srv[d] = n}) \in Nat
      BY <2>1, FS_CardinalityType
    <2> QED
      BY <1>1, <2>2 DEF Seen, Node
  <1> QED
    BY <1>1, <1>3, <1>4, <1>5, <1>6, <1>7

\* The plan under construction, as MoveOnce has it.
Draft == [moves : Seq(Move), slots : [Node -> Nat], pending : Nat]

\* The sources of the plan a cycle computes.
LEMMA CpSourcesFit ==
  ASSUME CpTypeOK
  PROVE  /\ Len(Planning!ByLoad) \in Nat
         /\ Planning!ByLoad \in [1..Len(Planning!ByLoad) -> Planning!Overloaded]
  <1> DEFINE S == Planning!Overloaded
             R == {p \in S \X S : Planning!Busier(p[1], p[2])}
  <1>1. \A x, y \in S : <<x, y>> \in R <=> Planning!Busier(x, y)
    OBVIOUS
  <1>2. IsFiniteSet(S)
    BY SeenFits, FS_Subset
  <1>3. \A x \in S : Seen[x].peers \in Nat /\ Seen[x].max \in Nat \ {0} /\ x \in Nat
    BY SeenFits
  <1> HIDE DEF R, S
  <1>4. Orders(R, S)
    <2> DEFINE p == [x \in S |-> Seen[x].peers]
               m == [x \in S |-> Seen[x].max]
    <2>1. /\ \A x \in S : p[x] \in Nat /\ m[x] \in Nat \ {0} /\ x \in Nat
          /\ \A x, y \in S : <<x, y>> \in R <=> Above(p, m, x, y)
      BY <1>1, <1>3 DEF Planning!Busier, Above
    <2> HIDE DEF p, m
    <2> QED
      BY <2>1, RatioOrder
  <1>5. PICK q \in SetToSeqs(S) : \A i, j \in DOMAIN q : i < j => <<q[i], q[j]>> \in R
    BY <1>2, <1>4, SortedExists
  <1>6. Cardinality(S) \in Nat
    BY <1>2, FS_CardinalityType
  <1>7. \A p \in SetToSeqs(S) : p \in [1..Cardinality(S) -> S]
    BY DEF SetToSeqs
  <1>8. \A i, j \in DOMAIN q : i < j => Planning!Busier(q[i], q[j])
    <2>1. \A i \in DOMAIN q : q[i] \in S
      BY <1>7
    <2> QED
      BY <1>1, <1>5, <2>1
  <1>9. Planning!ByLoad \in SetToSeqs(S)
    <2>1. Planning!Cardinality(S) = Cardinality(S)
      BY DEF Planning!Cardinality, Cardinality
    <2>2. Planning!SetToSeqs(S) = SetToSeqs(S)
      BY <2>1 DEF Planning!SetToSeqs, SetToSeqs
    <2> QED
      BY <1>8, <2>2 DEF Planning!ByLoad, S
  <1>10. Planning!ByLoad \in [1..Cardinality(S) -> S]
    BY <1>7, <1>9
  <1>11. Planning!ByLoad \in Seq(S) /\ Len(Planning!ByLoad) = Cardinality(S)
    BY <1>6, <1>10
  <1> QED
    BY <1>6, <1>10, <1>11 DEF S

\* The receiver a turn of that plan chooses.
LEMMA CpReceiverFits ==
  ASSUME CpTypeOK, NEW f \in [Node -> Nat], NEW a, \E i \in Node : f[i] > 0 /\ i # a
  PROVE  Planning!Receiver(f, a) \in Node
  <1> DEFINE R == {i \in Node : f[i] > 0 /\ i # a}
             O == {p \in R \X R : f[p[2]] > f[p[1]] \/ (f[p[1]] = f[p[2]] /\ p[2] <= p[1])}
  <1>1. \A x, y \in R : <<x, y>> \in O <=> (f[y] > f[x] \/ (f[x] = f[y] /\ y <= x))
    OBVIOUS
  <1>2. \A x \in R : f[x] \in Nat /\ x \in Nat
    BY SeenFits
  <1>3. IsFiniteSet(R)
    BY SeenFits, FS_Subset
  <1>4. R # {}
    OBVIOUS
  <1> HIDE DEF R, O
  <1>5. Orders(O, R)
    BY <1>1, <1>2 DEF Orders
  <1>6. PICK m \in R : \A y \in R : y = m \/ <<y, m>> \in O
    BY <1>3, <1>4, <1>5, LastExists
  <1>7. \A j \in R : f[m] > f[j] \/ (f[m] = f[j] /\ m <= j)
    <2> SUFFICES ASSUME NEW j \in R PROVE f[m] > f[j] \/ (f[m] = f[j] /\ m <= j)
      OBVIOUS
    <2>1. j = m \/ f[m] > f[j] \/ (f[j] = f[m] /\ m <= j)
      BY <1>1, <1>6
    <2> QED
      BY <1>2, <2>1
  <1>8. Planning!Receiver(f, a) = CHOOSE i \in R : \A j \in R : f[i] > f[j] \/ (f[i] = f[j] /\ i <= j)
    BY SeenFits DEF Planning!Receiver, R
  <1>9. Planning!Receiver(f, a) \in R
    BY <1>7, <1>8
  <1> QED
    BY <1>9 DEF R

\* One turn of that plan.
LEMMA CpTurnFits ==
  ASSUME CpTypeOK, NEW s \in Draft, NEW a \in Node
  PROVE  Planning!MoveOnce(s, a) \in Draft
  <1>1. s.pending \in Nat /\ s.slots \in [Node -> Nat] /\ s.moves \in Seq(Move)
    BY DEF Draft
  <1>2. Planning!Nodes = Node
    BY SeenFits
  <1>3. CASE s.pending = 0 \/ ~\E i \in Node : s.slots[i] > 0 /\ i # a
    BY <1>2, <1>3 DEF Planning!MoveOnce
  <1>4. CASE ~(s.pending = 0 \/ ~\E i \in Node : s.slots[i] > 0 /\ i # a)
    <2> DEFINE t == Planning!Receiver(s.slots, a)
               n == Min({s.pending, s.slots[t]})
               e == [source |-> a, target |-> t, n |-> n]
               u == [s EXCEPT !.pending = @ - n, !.slots[t] = @ - n, !.moves = Append(@, e)]
    <2>1. t \in Node /\ s.slots[t] \in Nat
      BY <1>1, <1>4, CpReceiverFits
    <2>2. Planning!MoveOnce(s, a) = u
      BY <1>2, <1>4 DEF Planning!MoveOnce, Planning!Min, Min
    <2> HIDE DEF t
    <2>3. n = IF s.pending <= s.slots[t] THEN s.pending ELSE s.slots[t]
      BY <1>1, <2>1, MinOfTwo
    <2> HIDE DEF n
    <2>4. n \in Nat /\ s.pending - n \in Nat /\ [s.slots EXCEPT ![t] = @ - n] \in [Node -> Nat]
      BY <1>1, <2>1, <2>3
    <2>5. e \in Move
      BY <2>1, <2>4 DEF Move
    <2> HIDE DEF e
    <2>6. Append(s.moves, e) \in Seq(Move)
      BY <1>1, <2>5
    <2>7. u \in Draft
      BY <1>1, <2>4, <2>6 DEF Draft
    <2> QED
      BY <2>2, <2>7
  <1> QED
    BY <1>3, <1>4

\* What a source of that plan may give.
LEMMA CpWantedFits ==
  ASSUME CpTypeOK, NEW a \in Node, NEW p \in Nat
  PROVE  Min({Planning!Movable(a, p), MovesPerNode}) \in Nat
  <1>1. Seen[a].peers \in Nat /\ Seen[a].max \in Nat /\ TargetMark \in Nat /\ MovesPerNode \in Nat
    BY SeenFits, ControlPlaneAssumption
  <1>2. Planning!TargetPeers(a) \in Nat
    <2>1. Seen[a].max * TargetMark \in Nat
      BY <1>1
    <2> QED
      BY <2>1 DEF Planning!TargetPeers
  <1>3. Planning!Movable(a, p) \in Nat
    BY <1>1, <1>2 DEF Planning!Movable, Planning!NatMinus
  <1> QED
    BY <1>1, <1>3, MinOfTwo

\* The turns of one source of that plan.
LEMMA CpServeFits ==
  ASSUME CpTypeOK, NEW s \in Draft, NEW a \in Node, NEW pinned \in Nat
  PROVE  Planning!Serve(s, a, pinned) \in Draft
  <1> DEFINE N == Len(Seen)
             base == [s EXCEPT !.pending = Min({Planning!Movable(a, pinned), MovesPerNode})]
             it == CHOOSE iter : iter = [x \in SUBSET (1..N) |->
                      IF x = {} THEN base ELSE Planning!MoveOnce(iter[x \ {Max(x)}], a)]
             F == [k \in 1..N |-> [v \in Draft |-> Planning!MoveOnce(v, a)]]
             V == Draft
  <1>1. Planning!Serve(s, a, pinned) = it[1..N]
    BY DEF Planning!Serve, Planning!FoldLeft, Planning!MapThenFoldSet, Planning!Max, Max,
           Planning!Min, Min
  <1>2. N \in Nat
    BY SeenFits
  <1>3. base \in V
    BY CpWantedFits DEF Draft
  <1>4. F \in [1..N -> [V -> V]] /\ \A k \in 1..N, v \in V : F[k][v] = Planning!MoveOnce(v, a)
    BY CpTurnFits
  <1> HIDE DEF F, V, base
  <1>5. ASSUME NEW g, IsFold(g, 1..N, V, base, F, LastOf(N))
        PROVE  Follows(it, 1..N, V, base, F, LastOf(N))
    <2>1. /\ g \in [SUBSET (1..N) -> V]
          /\ \A x \in SUBSET (1..N) :
               g[x] = IF x = {} THEN base ELSE F[Max(x)][g[x \ {Max(x)}]]
      BY <1>5 DEF IsFold, LastOf
    <2>2. \A x \in SUBSET (1..N) : x # {} => Max(x) \in 1..N
      BY <1>2, MaxIn
    <2>3. \A x \in SUBSET (1..N) :
               g[x] = IF x = {} THEN base ELSE Planning!MoveOnce(g[x \ {Max(x)}], a)
      BY <1>4, <2>1, <2>2
    <2>4. g = [x \in SUBSET (1..N) |-> IF x = {} THEN base ELSE Planning!MoveOnce(g[x \ {Max(x)}], a)]
      BY <2>1, <2>3
    <2>5. it = [x \in SUBSET (1..N) |-> IF x = {} THEN base ELSE Planning!MoveOnce(it[x \ {Max(x)}], a)]
      BY <2>4
    <2> HIDE DEF it
    <2>6. it[{}] = base
      BY <2>5
    <2>7. ASSUME NEW x \in SUBSET (1..N), x # {}, it[x \ {LastOf(N)[x]}] \in V
          PROVE  it[x] = F[LastOf(N)[x]][it[x \ {LastOf(N)[x]}]]
      <3>1. LastOf(N)[x] = Max(x) /\ Max(x) \in 1..N
        BY <2>2, <2>7 DEF LastOf
      <3>2. it[x] = Planning!MoveOnce(it[x \ {Max(x)}], a)
        BY <2>5, <2>7
      <3> QED
        BY <1>4, <2>7, <3>1, <3>2
    <2> QED
      BY <2>6, <2>7 DEF Follows
  <1> HIDE DEF it
  <1>6. PICK h : IsRun(h, N, V, base, F) /\ it[1..N] = h[N]
    BY <1>2, <1>3, <1>4, <1>5, SeqFold
  <1>7. h[N] \in V
    BY <1>2, <1>6 DEF IsRun
  <1> QED
    BY <1>1, <1>6, <1>7 DEF V

\* The plan of a cycle is a sequence of moves between nodes.
LEMMA CpPlanFits ==
  ASSUME CpTypeOK
  PROVE  Planning!PlanRebalance \in Seq(Move)
  <1> DEFINE q == Planning!ByLoad
             N == Len(q)
             base == [moves |-> <<>>, slots |-> Planning!ReceiverSlots, pending |-> 0]
             it == CHOOSE iter : iter = [x \in SUBSET (DOMAIN q) |->
                      IF x = {} THEN base
                      ELSE Planning!Serve(iter[x \ {Max(x)}], q[Max(x)], Seen[q[Max(x)]].pinned)]
             F == [k \in 1..N |-> [v \in Draft |-> Planning!Serve(v, q[k], Seen[q[k]].pinned)]]
             V == Draft
  <1>1. Planning!PlanRebalance = it[DOMAIN q].moves
    BY DEF Planning!PlanRebalance, Planning!FoldLeft, Planning!MapThenFoldSet, Planning!Max, Max
  <1>2. N \in Nat /\ DOMAIN q = 1..N /\ \A k \in 1..N : q[k] \in Node /\ Seen[q[k]].pinned \in Nat
    BY CpSourcesFit, SeenFits
  <1>3. base \in V
    <2>1. \A n \in Node : Planning!TargetPeers(n) \in Nat /\ Seen[n].peers \in Nat
      <3>1. \A n \in Node : Seen[n].max * TargetMark \in Nat
        BY SeenFits, ControlPlaneAssumption
      <3> QED
        BY <3>1, SeenFits DEF Planning!TargetPeers
    <2>2. \A n \in Node : Planning!NatMinus(Planning!TargetPeers(n), Seen[n].peers) \in Nat
      BY <2>1 DEF Planning!NatMinus
    <2>3. Planning!ReceiverSlots \in [Node -> Nat]
      BY <2>2, SeenFits DEF Planning!ReceiverSlots
    <2>4. <<>> \in Seq(Move) /\ 0 \in Nat
      OBVIOUS
    <2> QED
      BY <2>3, <2>4 DEF Draft
  <1>4. /\ F \in [1..N -> [V -> V]]
        /\ \A k \in 1..N, v \in V : F[k][v] = Planning!Serve(v, q[k], Seen[q[k]].pinned)
    BY <1>2, CpServeFits
  <1> HIDE DEF F, V, q, N, base
  <1>5. ASSUME NEW g, IsFold(g, 1..N, V, base, F, LastOf(N))
        PROVE  Follows(it, 1..N, V, base, F, LastOf(N))
    <2>1. /\ g \in [SUBSET (1..N) -> V]
          /\ \A x \in SUBSET (1..N) :
               g[x] = IF x = {} THEN base ELSE F[Max(x)][g[x \ {Max(x)}]]
      BY <1>5 DEF IsFold, LastOf
    <2>2. \A x \in SUBSET (1..N) : x # {} => Max(x) \in 1..N
      BY <1>2, MaxIn
    <2>3. \A x \in SUBSET (1..N) :
               g[x] = IF x = {} THEN base
                      ELSE Planning!Serve(g[x \ {Max(x)}], q[Max(x)], Seen[q[Max(x)]].pinned)
      BY <1>4, <2>1, <2>2
    <2>4. g = [x \in SUBSET (DOMAIN q) |-> IF x = {} THEN base
                      ELSE Planning!Serve(g[x \ {Max(x)}], q[Max(x)], Seen[q[Max(x)]].pinned)]
      BY <1>2, <2>1, <2>3
    <2>5. it = [x \in SUBSET (DOMAIN q) |-> IF x = {} THEN base
                      ELSE Planning!Serve(it[x \ {Max(x)}], q[Max(x)], Seen[q[Max(x)]].pinned)]
      BY <2>4
    <2> HIDE DEF it
    <2>6. it[{}] = base
      BY <2>5
    <2>7. ASSUME NEW x \in SUBSET (1..N), x # {}, it[x \ {LastOf(N)[x]}] \in V
          PROVE  it[x] = F[LastOf(N)[x]][it[x \ {LastOf(N)[x]}]]
      <3>1. LastOf(N)[x] = Max(x) /\ Max(x) \in 1..N
        BY <2>2, <2>7 DEF LastOf
      <3>2. it[x] = Planning!Serve(it[x \ {Max(x)}], q[Max(x)], Seen[q[Max(x)]].pinned)
        BY <1>2, <2>5, <2>7
      <3> QED
        BY <1>4, <2>7, <3>1, <3>2
    <2> QED
      BY <2>6, <2>7 DEF Follows
  <1> HIDE DEF it
  <1>6. PICK h : IsRun(h, N, V, base, F) /\ it[1..N] = h[N]
    <2>1. N \in Nat /\ F \in [1..N -> [V -> V]]
      BY <1>2, <1>4
    <2> QED
      BY <1>3, <1>5, <2>1, SeqFold
  <1>7. h[N] \in V
    BY <1>2, <1>6 DEF IsRun
  <1> QED
    BY <1>1, <1>2, <1>6, <1>7 DEF V, Draft

\* Whatever cycles, migrations, reconciliation rounds, limit checks, failures and crashes do between
\* each other, for every fleet: the peer of a device that no failure or other run has disturbed is on
\* the node of its row and on no other whenever no run is under way, and no cycle moves a peer of an
\* enterprise plan.  The invariant follows each device through the run that has it in hand: the
\* session that loaded the row is the only one that moves the peer, and knows where it is.
THEOREM MovesStayRight == CpSpec => []MovesAreRight
  <1>1. CpInit => CpIInv
    BY CpInitInv
  <1>2. CpIInv /\ [CpNext]_cpVars => CpIInv'
    BY CpStepInv, CpPlanFits DEF CpIInv
  <1>3. CpIInv => MovesAreRight
    BY CpInvGivesMoves
  <1> QED
    BY <1>1, <1>2, <1>3, PTL DEF CpSpec
=============================================================================
